------------------------ MODULE HomebrewClientProofs ------------------------
(***************************************************************************)
(* Proofs about HomebrewClient, for every number of packets, sessions and  *)
(* seconds and every size of the queue: its types, threads and queue; then *)
(* the order of what it sends, its logout, and whose packets it delivers.  *)
(***************************************************************************)
EXTENDS HomebrewClient, SequenceTheorems, FiniteSetTheorems, TLAPS

RxActive == RxPcs \ {"none", "exit", "ended"}

\* From its first datagram to its logout the receive thread has the socket that
\* open() made for it.
ReceiverHasSocket == pc[Rx] \in RxActive => sockfd = opens /\ opens > 0

\* The queue exceeds m_iMaxPacketRxQueueSize by at most one packet.
QueueBound == Len(queue) <= MaxQueue + 1

\* What recvfrom() accepted is what the application got and what waits for it.
LosslessFifo == Ids(delivered \o Pipe) = [i \in 1 .. received |-> i]

\* What close() relies on: the thread's state tells whether there is a thread.
ThreadInv ==
  /\ pc[Main] \in {"close", "stop", "join"} => call.op # "none"
  /\ pc[Main] \in {"stop", "join"} => pc[Rx] # "none"
  /\ pc[Main] = "create" => sockfd = opens /\ opens > 0
  /\ threadState = "IDLE" <=> pc[Rx] = "none"
  /\ pc[Rx] \in {"none", "start", "exit", "ended"} => phase = "CP_DISCONNECTED"
  /\ JoinedBeforeReuse
  /\ ReceiverHasSocket

\* Who holds m_lckRxQueue, and what the holder knows of the queue.
LockInv ==
  /\ rxLock = Main <=> pc[Main] \in {"getFront", "getErase"}
  /\ rxLock = Rx <=> pc[Rx] \in {"check", "getLock", "push"}
  /\ pc[Rx] \notin {"getFront", "getErase"}
  /\ pc[Main] = "getErase" => queue # <<>> /\ front[Main] = Head(queue)
  /\ pc[Rx] = "getLock" => Len(queue) = MaxQueue + 1
  /\ pc[Rx] = "push" => Len(queue) <= MaxQueue
  /\ Holding => packet \in Packet
  /\ QueueBound

IInv == TypeOK /\ ThreadInv /\ LockInv

-----------------------------------------------------------------------------

\* What the client sends is a datagram, on a socket that is open.
LEMMA SentType ==
  ASSUME TypeOK, NEW K \in SUBSET OutKinds
  PROVE  Sent(K) \subseteq Outbound
BY DEF TypeOK, Sent, Datagram, Outbound

LEMMA PingType ==
  ASSUME TypeOK, NEW K \in SUBSET OutKinds, PingThenSend(K)
  PROVE  toServer' \subseteq Outbound /\ lastPing' \in Nat
<1> DEFINE all == K \cup (IF PingDue THEN {"RPTP"} ELSE {})
<1>1. all \in SUBSET OutKinds
  BY DEF OutKinds
<1>2. Sent(all) \subseteq Outbound
  BY <1>1, SentType
<1> QED
  BY <1>2 DEF PingThenSend, TypeOK

\* The lengths of the constructor's values are numbers.
LEMMA NewConfigType == NewConfig \in Config
<1>1. ASSUME NEW m \in {0, 1} PROVE IntLength(m) \in Nat
  <2> DEFINE S == {k \in 1 .. 9 : 10 ^ k <= m}
  <2>1. 1 \in Int /\ 9 \in Int
    OBVIOUS
  <2>2. IsFiniteSet(1 .. 9)
    BY <2>1, FS_Interval, Zenon
  <2>3. S \subseteq 1 .. 9
    OBVIOUS
  <2>4. Cardinality(S) \in Nat
    BY <2>2, <2>3, FS_Subset, FS_CardinalityType, Zenon
  <2>5. IntLength(m) = 1 + Cardinality(S)
    BY DEF IntLength
  <2> QED
    BY <2>4, <2>5
<1> QED
  BY <1>1 DEF NewConfig, Config, Columns

\* The members as the constructor leaves them.
LEMMA InitIInv == Init => IInv
<1> SUFFICES ASSUME Init PROVE IInv
  OBVIOUS
<1> USE DEF Init, Threads, Main, Rx
<1>1. TypeOK
  <2>1. pc \in [Threads -> MainPcs \cup RxPcs]
    BY DEF MainPcs, RxPcs
  <2>2. pc[Main] \in MainPcs /\ pc[Rx] \in RxPcs
    BY DEF MainPcs, RxPcs
  <2>3. front \in [Threads -> Packet \cup {NoPacket}]
    OBVIOUS
  <2>4. call \in [op : {"none", "open", "close", "destroy"},
                  host : Hosts \cup {NoAddr}, dialect : {"CLASSIC", "MMDVM"}]
    BY DEF NoCall
  <2>5. queue \in Seq(Packet) /\ delivered \in Seq(Packet)
    OBVIOUS
  <2>6. sockfd \in {-1} \cup 1 .. opens /\ opens \in Nat
    OBVIOUS
  <2>7. threadState \in ThreadStates /\ phase \in Phases
    BY DEF ThreadStates, Phases
  <2>8. config \in Config
    BY NewConfigType
  <2>9. toServer \subseteq Outbound /\ aborted \in BOOLEAN /\ notice \in BOOLEAN
    OBVIOUS
  <2> QED
    BY <2>1, <2>2, <2>3, <2>4, <2>5, <2>6, <2>7, <2>8, <2>9 DEF TypeOK
<1>2. ThreadInv
  BY DEF ThreadInv, JoinedBeforeReuse, ReceiverHasSocket, RxActive
<1>3. LockInv
  BY BoundsAssumption DEF LockInv, QueueBound, Holding, NoThread
<1> QED
  BY <1>1, <1>2, <1>3 DEF IInv

-----------------------------------------------------------------------------
(* Every step preserves the invariant: first the types, then what the      *)
(* threads know of each other, then the lock and the queue.                *)

LEMMA TypeStep == IInv /\ [Next]_vars => TypeOK'
<1> SUFFICES ASSUME IInv, [Next]_vars PROVE TypeOK'
  OBVIOUS
<1> USE DEF IInv, TypeOK, callVars, wireVars, clockVars, pipeVars,
            restVars, stillVars, At, Goto, MainPcs, RxPcs, Main, Rx, Threads
<1>1. ASSUME NEW h \in Hosts, NEW d \in Dialects, AppOpen(h, d) PROVE TypeOK'
  BY <1>1, DialectsAssumption DEF AppOpen
<1>2. ASSUME NEW op \in {"close", "destroy"}, AppClose(op) PROVE TypeOK'
  BY <1>2 DEF AppClose, NoCall
<1>3. CASE CloseIdle
  BY <1>3 DEF CloseIdle, AfterClose, Phases, ThreadInv
<1>4. CASE CloseActive
  BY <1>4 DEF CloseActive
<1>5. CASE CloseStop
  BY <1>5 DEF CloseStop, ThreadStates
<1>6. CASE CloseJoin
  BY <1>6 DEF CloseJoin, AfterClose, Phases, ThreadInv, ThreadStates
<1>7. CASE OpenResolve
  BY <1>7 DEF OpenResolve
<1>8. CASE OpenSocket
  BY <1>8 DEF OpenSocket
<1>9. CASE OpenCreate
  <2>1. notice' \in BOOLEAN /\ threadState' \in ThreadStates
    BY <1>9 DEF OpenCreate, ThreadStates
  <2>2. /\ pc' \in [Threads -> MainPcs \cup RxPcs]
        /\ pc'[Main] \in MainPcs /\ pc'[Rx] \in RxPcs
    BY <1>9 DEF OpenCreate
  <2> QED
    BY <1>9, <2>1, <2>2 DEF OpenCreate
<1>10. CASE Destroy
  BY <1>10 DEF Destroy
<1>11. CASE AppSend
  BY <1>11, SentType, {"DMRD"} \in SUBSET OutKinds DEF AppSend, OutKinds
<1>12. CASE AppGet
  BY <1>12 DEF AppGet
<1>13. ASSUME NEW t \in Threads, GetLock(t) PROVE TypeOK'
  BY <1>13 DEF GetLock
<1>14. ASSUME NEW t \in Threads, GetEmpty(t) PROVE TypeOK'
  BY <1>14 DEF GetEmpty, AfterGet
<1>15. ASSUME NEW t \in Threads, GetFront(t) PROVE TypeOK'
  <2>1. Head(queue) \in Packet
    BY <1>15, HeadTailProperties DEF GetFront
  <2> QED
    BY <1>15, <2>1 DEF GetFront
<1>16. ASSUME NEW t \in Threads, GetErase(t) PROVE TypeOK'
  <2>1. t = Main /\ queue # <<>> /\ front[Main] \in Packet
    BY <1>16, HeadTailProperties DEF GetErase, LockInv
  <2>2. Tail(queue) \in Seq(Packet) /\ Append(delivered, front[Main]) \in Seq(Packet)
    BY <2>1, HeadTailProperties, AppendProperties
  <2> QED
    BY <1>16, <2>1, <2>2 DEF GetErase, Erased, AfterGet
<1>17. CASE RxStart
  BY <1>17, SentType, {"RPTL"} \in SUBSET OutKinds DEF RxStart, OutKinds, Phases
<1>18. CASE RxLoopTest
  BY <1>18 DEF RxLoopTest, AfterLoopTest
<1>19. {} \in SUBSET OutKinds
  OBVIOUS
<1>20. CASE RxNothing
  <2>1. toServer' \subseteq Outbound /\ lastPing' \in Nat
    BY <1>19, <1>20, PingType DEF RxNothing
  <2> QED
    BY <1>20, <2>1 DEF RxNothing
<1>21. ASSUME NEW d \in Inbound, RxClassic(d) PROVE TypeOK'
  BY <1>21 DEF RxClassic
<1>22. ASSUME AckAnswered PROVE TypeOK'
  <2>1. AckReply[phase] \in SUBSET OutKinds
    BY DEF AckReply, OutKinds, Phases
  <2>2. AckNext[phase] \in Phases
    BY DEF Phases, AckNext
  <2>3. toServer' \subseteq Outbound /\ lastPing' \in Nat
    BY <1>22, <2>1, PingType DEF AckAnswered
  <2> QED
    BY <1>22, <2>2, <2>3 DEF AckAnswered
<1>23. ASSUME NEW d \in Inbound, RxMasterClose(d) PROVE TypeOK'
  <2>1. toServer' \subseteq Outbound /\ lastPing' \in Nat
    BY <1>19, <1>23, PingType DEF RxMasterClose
  <2> QED
    BY <1>23, <2>1 DEF RxMasterClose, ThreadStates
<1>24. ASSUME NEW d \in Inbound, RxPong(d) PROVE TypeOK'
  <2>1. toServer' \subseteq Outbound /\ lastPing' \in Nat
    BY <1>19, <1>24, PingType DEF RxPong
  <2> QED
    BY <1>24, <2>1 DEF RxPong
<1>25. ASSUME NEW d \in Inbound, RxData(d) PROVE TypeOK'
  <2>1. packet' \in Packet
    BY <1>25 DEF RxData, Received, Accepted, Inbound, Packet, ThreadInv, ReceiverHasSocket,
        RxActive
  <2>2. toServer' \subseteq Outbound /\ lastPing' \in Nat
    BY <1>19, <1>25, PingType DEF RxData
  <2> QED
    BY <1>25, <2>1, <2>2 DEF RxData, Received, Accepted
<1>26. CASE RxLock
  BY <1>26 DEF RxLock
<1>27. CASE RxCheck
  BY <1>27 DEF RxCheck
<1>28. CASE RxPush
  BY <1>28, AppendProperties DEF RxPush, LockInv, Holding
<1>29. CASE RxLogout
  BY <1>29, SentType, {"RPTCL"} \in SUBSET OutKinds DEF RxLogout, OutKinds
<1>30. CASE RxCloseSocket
  BY <1>30 DEF RxCloseSocket, Phases
<1>31. CASE RxExit
  BY <1>31 DEF RxExit, ThreadStates
<1>32. CASE Tick
  BY <1>32 DEF Tick
<1>33. CASE UNCHANGED vars
  BY <1>33 DEF vars
<1>34. ASSUME NEW c \in Configs, AppConfigure(c) PROVE TypeOK'
  BY <1>34, ConfigsAssumption DEF AppConfigure
<1>35. ASSUME AckMisfit PROVE TypeOK'
  BY <1>35 DEF AckMisfit, Phases
<1> QED
  BY <1>1, <1>2, <1>3, <1>4, <1>5, <1>6, <1>7, <1>8, <1>9, <1>10, <1>11, <1>12,
     <1>13, <1>14, <1>15, <1>16, <1>17, <1>18, <1>20, <1>21, <1>22, <1>23,
     <1>24, <1>25, <1>26, <1>27, <1>28, <1>29, <1>30, <1>31, <1>32, <1>33,
     <1>34, <1>35
  DEF Next, AppCall, AppControl, MainStep, GetStep, RxStep, RxReceive, RxAck, RxLocal,
      Terminated

LEMMA ThreadStep == IInv /\ [Next]_vars => ThreadInv'
<1> SUFFICES ASSUME IInv, [Next]_vars PROVE ThreadInv'
  OBVIOUS
<1> USE DEF IInv, TypeOK, ThreadInv, JoinedBeforeReuse, ReceiverHasSocket,
            RxActive, callVars, wireVars, clockVars, pipeVars, restVars,
            stillVars, At, Goto, MainPcs, RxPcs, Main, Rx, Threads
<1>1. ASSUME NEW h \in Hosts, NEW d \in Dialects, AppOpen(h, d) PROVE ThreadInv'
  BY <1>1 DEF AppOpen
<1>2. ASSUME NEW op \in {"close", "destroy"}, AppClose(op) PROVE ThreadInv'
  BY <1>2 DEF AppClose, NoCall
<1>3. CASE CloseIdle
  BY <1>3 DEF CloseIdle, AfterClose
<1>4. CASE CloseActive
  BY <1>4 DEF CloseActive
<1>5. CASE CloseStop
  BY <1>5 DEF CloseStop
<1>6. CASE CloseJoin
  BY <1>6 DEF CloseJoin, AfterClose
<1>7. CASE OpenResolve
  BY <1>7 DEF OpenResolve
<1>8. CASE OpenSocket
  BY <1>8 DEF OpenSocket
<1>9. CASE OpenCreate
  BY <1>9 DEF OpenCreate
<1>10. CASE Destroy
  BY <1>10 DEF Destroy
<1>11. ASSUME AppSend \/ AppGet \/ \E c \in Configs : AppConfigure(c)
       PROVE  ThreadInv'
  BY <1>11 DEF AppSend, AppGet, AppConfigure
<1>12. ASSUME NEW t \in Threads, GetStep(t) PROVE ThreadInv'
  BY <1>12 DEF GetStep, GetLock, GetEmpty, GetFront, GetErase, AfterGet, LockInv
<1>13. CASE RxStart
  BY <1>13 DEF RxStart
<1>14. CASE RxLoopTest
  BY <1>14 DEF RxLoopTest, AfterLoopTest
<1>15. CASE RxNothing
  BY <1>15 DEF RxNothing
<1>16. ASSUME NEW d \in Inbound, RxReceive(d) PROVE ThreadInv'
  BY <1>16 DEF RxReceive, Received, Accepted, RxClassic, RxAck, AckAnswered,
              AckMisfit, RxMasterClose, RxPong, RxData
<1>17. CASE RxLock \/ RxCheck
  BY <1>17 DEF RxLock, RxCheck
<1>18. CASE RxPush
  BY <1>18 DEF RxPush
<1>19. CASE RxLogout
  BY <1>19 DEF RxLogout
<1>20. CASE RxCloseSocket
  BY <1>20 DEF RxCloseSocket
<1>21. CASE RxExit
  BY <1>21 DEF RxExit
<1>22. CASE Tick
  BY <1>22 DEF Tick
<1>23. CASE UNCHANGED vars
  BY <1>23 DEF vars
<1> QED
  BY <1>1, <1>2, <1>3, <1>4, <1>5, <1>6, <1>7, <1>8, <1>9, <1>10, <1>11, <1>12,
     <1>13, <1>14, <1>15, <1>16, <1>17, <1>18, <1>19, <1>20, <1>21, <1>22, <1>23
  DEF Next, AppCall, AppControl, MainStep, RxStep, RxLocal, Terminated

LEMMA LockStep == IInv /\ [Next]_vars => LockInv'
<1> SUFFICES ASSUME IInv, [Next]_vars PROVE LockInv'
  OBVIOUS
<1> USE BoundsAssumption
    DEF IInv, TypeOK, LockInv, QueueBound, Holding, callVars, wireVars, clockVars,
        pipeVars, restVars, stillVars, At, Goto, MainPcs, RxPcs, Main, Rx, Threads, NoThread
<1>1. Len(queue) \in Nat
  BY LenProperties
<1>2. ASSUME NEW h \in Hosts, NEW d \in Dialects, AppOpen(h, d) PROVE LockInv'
  BY <1>2 DEF AppOpen
<1>3. ASSUME NEW op \in {"close", "destroy"}, AppClose(op) PROVE LockInv'
  BY <1>3 DEF AppClose, NoCall
<1>4. CASE CloseIdle
  BY <1>4 DEF CloseIdle, AfterClose, ThreadInv
<1>5. CASE CloseActive \/ CloseStop
  BY <1>5 DEF CloseActive, CloseStop
<1>6. CASE CloseJoin
  BY <1>6 DEF CloseJoin, AfterClose, ThreadInv
<1>7. CASE OpenResolve
  BY <1>7 DEF OpenResolve
<1>8. CASE OpenSocket
  BY <1>8 DEF OpenSocket
<1>9. CASE OpenCreate
  BY <1>9 DEF OpenCreate, ThreadInv, JoinedBeforeReuse
<1>10. CASE Destroy
  BY <1>10 DEF Destroy
<1>11. ASSUME AppSend \/ AppGet \/ \E c \in Configs : AppConfigure(c)
       PROVE  LockInv'
  BY <1>11 DEF AppSend, AppGet, AppConfigure
<1>12. ASSUME NEW t \in Threads, GetLock(t) PROVE LockInv'
  BY <1>12 DEF GetLock, LockFree
<1>13. ASSUME NEW t \in Threads, GetEmpty(t) PROVE LockInv'
  BY <1>13 DEF GetEmpty, AfterGet
<1>14. ASSUME NEW t \in Threads, GetFront(t) PROVE LockInv'
  BY <1>14 DEF GetFront
<1>15. ASSUME NEW t \in Threads, GetErase(t) PROVE LockInv'
  <2>1. t = Main /\ queue # <<>> /\ rxLock = Main
    BY <1>15 DEF GetErase
  <2>2. Len(queue') = Len(queue) - 1
    BY <1>15, <2>1, HeadTailProperties DEF GetErase, Erased
  <2>3. /\ pc' = [pc EXCEPT ![Main] = "app"] /\ rxLock' = NoThread /\ packet' = packet
        /\ pc[Rx] \notin {"check", "getLock", "push"}
    BY <1>15, <2>1 DEF GetErase, AfterGet
  <2> QED
    BY <1>1, <2>2, <2>3
<1>16. CASE RxStart \/ RxNothing
  BY <1>16 DEF RxStart, RxNothing
<1>17. CASE RxLoopTest
  BY <1>17 DEF RxLoopTest, AfterLoopTest
<1>18. ASSUME NEW d \in Inbound,
              RxClassic(d) \/ RxAck(d) \/ RxMasterClose(d) \/ RxPong(d)
       PROVE  LockInv'
  BY <1>18 DEF RxClassic, RxAck, AckAnswered, AckMisfit, RxMasterClose, RxPong,
              Received, Accepted
<1>19. ASSUME NEW d \in Inbound, RxData(d) PROVE LockInv'
  <2>1. packet' \in Packet
    BY <1>19 DEF RxData, Received, Accepted, Inbound, Packet, ThreadInv, ReceiverHasSocket,
        RxActive
  <2> QED
    BY <1>19, <2>1 DEF RxData, Received, Accepted
<1>20. CASE RxLock
  BY <1>20 DEF RxLock, LockFree
<1>21. CASE RxCheck
  BY <1>1, <1>21 DEF RxCheck, OverLimit
<1>22. CASE RxPush
  BY <1>1, <1>22, AppendProperties DEF RxPush
<1>23. CASE RxLogout
  BY <1>23 DEF RxLogout
<1>24. CASE RxCloseSocket \/ RxExit
  BY <1>24 DEF RxCloseSocket, RxExit
<1>25. CASE Tick
  BY <1>25 DEF Tick
<1>26. CASE UNCHANGED vars
  BY <1>26 DEF vars
<1> QED
  BY <1>2, <1>3, <1>4, <1>5, <1>6, <1>7, <1>8, <1>9, <1>10, <1>11, <1>12,
     <1>13, <1>14, <1>15, <1>16, <1>17, <1>18, <1>19, <1>20, <1>21, <1>22,
     <1>23, <1>24, <1>25, <1>26
  DEF Next, AppCall, AppControl, MainStep, GetStep, RxStep, RxReceive, RxLocal, Terminated

LEMMA Inductive == Spec => []IInv
<1>1. IInv /\ [Next]_vars => IInv'
  BY TypeStep, ThreadStep, LockStep DEF IInv
<1> QED
  BY <1>1, InitIInv, PTL DEF Spec

-----------------------------------------------------------------------------
(* Sequences of packets and their numbers.                                 *)

LEMMA IdsType ==
  ASSUME NEW p \in Seq(Packet)
  PROVE  /\ Ids(p) \in Seq(Nat)
         /\ Len(Ids(p)) = Len(p)
         /\ \A i \in 1 .. Len(p) : Ids(p)[i] = p[i].id /\ p[i].id \in Nat
<1>1. ASSUME NEW i \in 1 .. Len(p) PROVE p[i].id \in Nat
  <2>1. p[i] \in Packet
    BY ElementOfSeq
  <2> QED
    BY <2>1 DEF Packet
<1>2. Len(p) \in Nat
  BY LenProperties
<1> QED
  BY <1>1, <1>2 DEF Ids

LEMMA IdsAppend ==
  ASSUME NEW p \in Seq(Packet), NEW e \in Packet
  PROVE  Ids(Append(p, e)) = Append(Ids(p), e.id)
<1> DEFINE q == Append(p, e)
           r == Append(Ids(p), e.id)
<1>1. /\ q \in Seq(Packet) /\ Len(q) = Len(p) + 1 /\ q[Len(p) + 1] = e
      /\ \A i \in 1 .. Len(p) : q[i] = p[i]
  BY AppendProperties
<1>2. e.id \in Nat /\ Len(p) \in Nat
  BY LenProperties DEF Packet
<1>3. /\ r \in Seq(Nat) /\ Len(r) = Len(p) + 1 /\ r[Len(p) + 1] = e.id
      /\ \A i \in 1 .. Len(p) : r[i] = p[i].id
  BY <1>2, IdsType, AppendProperties
<1>4. /\ Ids(q) \in Seq(Nat) /\ Len(Ids(q)) = Len(p) + 1
      /\ \A i \in 1 .. Len(p) + 1 : Ids(q)[i] = q[i].id
  BY <1>1, IdsType
<1> HIDE DEF q, r
<1>5. ASSUME NEW i \in 1 .. Len(p) + 1 PROVE Ids(q)[i] = r[i]
  <2>1. i \in 1 .. Len(p) \/ i = Len(p) + 1
    BY <1>2
  <2>2. q[i].id = r[i]
    BY <1>1, <1>3, <2>1
  <2> QED
    BY <1>4, <2>2
<1>6. Ids(q) = r
  BY <1>3, <1>4, <1>5, SeqEqual
<1> QED
  BY <1>6 DEF q, r

LEMMA IdsTail ==
  ASSUME NEW p \in Seq(Packet), p # <<>>
  PROVE  /\ Ids(p) # <<>>
         /\ Ids(Tail(p)) = Tail(Ids(p))
         /\ Head(p).id = Head(Ids(p))
<1>1. Len(p) \in Nat \ {0}
  BY EmptySeq
<1>2. Ids(p) # <<>>
  BY <1>1, IdsType, EmptySeq
<1>3. /\ Tail(p) \in Seq(Packet)
      /\ Len(Tail(p)) = Len(p) - 1
      /\ \A i \in 1 .. Len(p) - 1 : Tail(p)[i] = p[i + 1]
  BY HeadTailProperties
<1>4. /\ Tail(Ids(p)) \in Seq(Nat)
      /\ Len(Tail(Ids(p))) = Len(p) - 1
      /\ \A i \in 1 .. Len(p) - 1 : Tail(Ids(p))[i] = Ids(p)[i + 1]
  <2> DEFINE q == Ids(p)
  <2>1. q \in Seq(Nat) /\ q # <<>> /\ Len(q) = Len(p)
    BY <1>2, IdsType
  <2> HIDE DEF q
  <2>2. /\ Tail(q) \in Seq(Nat)
        /\ Len(Tail(q)) = Len(q) - 1
        /\ \A i \in 1 .. Len(q) - 1 : Tail(q)[i] = q[i + 1]
    BY <2>1, HeadTailProperties
  <2> QED
    BY <2>1, <2>2 DEF q
<1>5. /\ Ids(Tail(p)) \in Seq(Nat)
      /\ Len(Ids(Tail(p))) = Len(p) - 1
      /\ \A i \in 1 .. Len(p) - 1 : Ids(Tail(p))[i] = Tail(p)[i].id
  <2> DEFINE t == Tail(p)
  <2>1. t \in Seq(Packet) /\ Len(t) = Len(p) - 1
    BY <1>3
  <2> HIDE DEF t
  <2>2. /\ Ids(t) \in Seq(Nat)
        /\ Len(Ids(t)) = Len(t)
        /\ \A i \in 1 .. Len(t) : Ids(t)[i] = t[i].id /\ t[i].id \in Nat
    BY <2>1, IdsType
  <2> QED
    BY <2>1, <2>2, Zenon DEF t
<1>6. \A i \in 1 .. Len(p) - 1 : Ids(Tail(p))[i] = Tail(Ids(p))[i]
  <2>1. \A j \in 1 .. Len(p) : Ids(p)[j] = p[j].id
    BY IdsType
  <2> SUFFICES ASSUME NEW i \in 1 .. Len(p) - 1
               PROVE  Ids(Tail(p))[i] = Tail(Ids(p))[i]
    OBVIOUS
  <2>2. i + 1 \in 1 .. Len(p)
    BY <1>1
  <2>3. Tail(Ids(p))[i] = p[i + 1].id
    BY <1>4, <2>1, <2>2
  <2> QED
    BY <1>3, <1>5, <2>3
<1>7. Ids(Tail(p)) = Tail(Ids(p))
  BY <1>4, <1>5, <1>6, SeqEqual
<1>8. Head(p) = p[1] /\ Head(Ids(p)) = Ids(p)[1]
  OBVIOUS
<1>9. Ids(p)[1] = p[1].id
  BY <1>1, IdsType
<1> QED
  BY <1>2, <1>7, <1>8, <1>9

LEMMA AppendToConcat ==
  ASSUME NEW S, NEW p \in Seq(S), NEW q \in Seq(S), NEW e \in S
  PROVE  p \o Append(q, e) = Append(p \o q, e)
<1>1. <<e>> \in Seq(S)
  OBVIOUS
<1>2. p \o Append(q, e) = p \o (q \o <<e>>)
  BY AppendIsConcat
<1>3. Append(p \o q, e) = (p \o q) \o <<e>>
  BY ConcatProperties, AppendIsConcat
<1> QED
  BY <1>1, <1>2, <1>3, ConcatAssociative

LEMMA MoveHead ==
  ASSUME NEW S, NEW p \in Seq(S), NEW q \in Seq(S), q # <<>>
  PROVE  Append(p, Head(q)) \o Tail(q) = p \o q
<1>1. Head(q) \in S /\ Tail(q) \in Seq(S) /\ <<Head(q)>> \in Seq(S)
  BY HeadTailProperties
<1>2. Append(p, Head(q)) = p \o <<Head(q)>>
  BY <1>1, AppendIsConcat
<1>3. (p \o <<Head(q)>>) \o Tail(q) = p \o (<<Head(q)>> \o Tail(q))
  BY <1>1, ConcatAssociative
<1>4. <<Head(q)>> \o Tail(q) = q
  <2>1. Len(q) \in Nat \ {0}
    BY EmptySeq
  <2>2. q = SubSeq(q, 1, Len(q))
    BY SubSeqFull
  <2>3. SubSeq(q, 1, Len(q)) = <<q[1]>> \o SubSeq(q, 2, Len(q))
    BY <2>1, SubSeqRecursiveFirst
  <2>4. Tail(q) = SubSeq(q, 2, Len(q))
    BY TailIsSubSeq
  <2> QED
    BY <2>2, <2>3, <2>4
<1> QED
  BY <1>2, <1>3, <1>4

-----------------------------------------------------------------------------
(* What a step does to the packets between recvfrom() and the application. *)

PipeAccepts ==
  /\ packet' \in Packet /\ packet'.id = received + 1
  /\ pc[Rx] = "recv" /\ packet'.from = server /\ packet'.sock = sockfd
  /\ received < MaxPackets /\ received' = received + 1
  /\ Pipe' = Append(Pipe, packet')
  /\ delivered' = delivered

PipeDelivers ==
  /\ Pipe # <<>>
  /\ pc[Main] = "getErase" /\ pc'[Main] = "app"
  /\ delivered' = Append(delivered, Head(Pipe))
  /\ Pipe' = Tail(Pipe)
  /\ received' = received

PipeStutters == Pipe' = Pipe /\ delivered' = delivered /\ received' = received

\* Most steps stutter because they touch nothing of the pipe.
PipeUntouched ==
  /\ UNCHANGED <<queue, packet, delivered, received>>
  /\ Holding' <=> Holding

LEMMA UntouchedStutters == PipeUntouched => PipeStutters
BY DEF PipeUntouched, PipeStutters, Pipe

LEMMA PipeType ==
  ASSUME IInv
  PROVE  Pipe \in Seq(Packet)
BY AppendProperties DEF IInv, TypeOK, LockInv, Pipe

LEMMA PipeStep ==
  IInv /\ [Next]_vars => PipeAccepts \/ PipeDelivers \/ PipeStutters
<1> SUFFICES ASSUME IInv, [Next]_vars
             PROVE  PipeAccepts \/ PipeDelivers \/ PipeStutters
  OBVIOUS
<1> USE DEF IInv, TypeOK, callVars, wireVars, clockVars, pipeVars,
            restVars, stillVars, At, Goto, MainPcs, RxPcs, Main, Rx, Threads, Holding
<1>1. ASSUME NEW d \in Inbound, RxData(d) PROVE PipeAccepts
  <2>1. /\ packet' \in Packet /\ packet'.id = received + 1
        /\ packet'.from = server /\ packet'.sock = sockfd
    BY <1>1 DEF RxData, Received, Accepted, Inbound, Packet, ThreadInv, ReceiverHasSocket,
        RxActive
  <2> QED
    BY <1>1, <2>1 DEF RxData, Received, Accepted, PipeAccepts, Pipe
<1>2. ASSUME NEW t \in Threads, GetErase(t) PROVE PipeDelivers
  <2>1. t = Main /\ queue # <<>> /\ front[Main] = Head(queue)
    BY <1>2 DEF GetErase, LockInv
  <2>2. CASE Holding
    <3>1. packet \in Packet
      BY <2>2 DEF LockInv
    <3>2. /\ Head(Append(queue, packet)) = Head(queue)
          /\ Tail(Append(queue, packet)) = Append(Tail(queue), packet)
      BY <2>1, <3>1, HeadTailAppend
    <3>3. Append(queue, packet) # <<>>
      BY <3>1, AppendProperties
    <3> QED
      BY <1>2, <2>1, <2>2, <3>2, <3>3 DEF GetErase, Erased, PipeDelivers, AfterGet, Pipe
  <2>3. CASE ~Holding
    BY <1>2, <2>1, <2>3 DEF GetErase, Erased, PipeDelivers, AfterGet, Pipe
  <2> QED
    BY <2>2, <2>3
<1>3. ASSUME RxPush PROVE PipeStutters
  BY <1>3 DEF RxPush, PipeStutters, Pipe
<1> USE DEF PipeUntouched
<1>4. ASSUME AppCall PROVE PipeUntouched
  BY <1>4 DEF AppCall, AppControl, AppConfigure, AppOpen, AppClose, AppSend, AppGet
<1>5. ASSUME CloseIdle \/ CloseActive \/ CloseStop \/ CloseJoin
      PROVE  PipeUntouched
  BY <1>5 DEF CloseIdle, CloseActive, CloseStop, CloseJoin
<1>6. ASSUME OpenResolve \/ OpenSocket \/ OpenCreate \/ Destroy
      PROVE  PipeUntouched
  BY <1>6 DEF OpenResolve, OpenSocket, OpenCreate, Destroy, ThreadInv,
              JoinedBeforeReuse
<1>7. ASSUME NEW t \in Threads, GetLock(t) PROVE PipeUntouched
  BY <1>7 DEF GetLock
<1>8. ASSUME NEW t \in Threads, GetEmpty(t) PROVE PipeUntouched
  BY <1>8 DEF GetEmpty, AfterGet
<1>9. ASSUME NEW t \in Threads, GetFront(t) PROVE PipeUntouched
  BY <1>9 DEF GetFront
<1>10. ASSUME NEW d \in Inbound, RxClassic(d) \/ RxPong(d) PROVE PipeUntouched
  BY <1>10 DEF RxClassic, RxPong, Received, Accepted
<1>11. ASSUME NEW d \in Inbound, RxAck(d) \/ RxMasterClose(d) PROVE PipeUntouched
  BY <1>11 DEF RxAck, AckAnswered, AckMisfit, RxMasterClose, Received, Accepted
<1>12. ASSUME RxStart \/ RxNothing PROVE PipeUntouched
  BY <1>12 DEF RxStart, RxNothing
<1>13. ASSUME RxLoopTest PROVE PipeUntouched
  BY <1>13 DEF RxLoopTest, AfterLoopTest
<1>14. ASSUME RxLock \/ RxCheck PROVE PipeUntouched
  BY <1>14 DEF RxLock, RxCheck
<1>15. ASSUME RxLogout \/ RxCloseSocket \/ RxExit \/ Tick PROVE PipeUntouched
  BY <1>15 DEF RxLogout, RxCloseSocket, RxExit, Tick
<1>16. ASSUME UNCHANGED vars PROVE PipeUntouched
  BY <1>16 DEF vars
<1> QED
  BY <1>1, <1>2, <1>3, <1>4, <1>5, <1>6, <1>7, <1>8, <1>9, <1>10, <1>11, <1>12,
     <1>13, <1>14, <1>15, <1>16, UntouchedStutters
  DEF Next, MainStep, GetStep, RxStep, RxReceive, RxLocal, Terminated

-----------------------------------------------------------------------------
(* The theorems.                                                           *)

\* The members of HomebrewClient always have their types, and no datagram is sent
\* or packet received on the descriptor -1, however often the application opens
\* and closes the client.
THEOREM TypeCorrect == Spec => []TypeOK
BY Inductive, PTL DEF IInv

\* open() and the destructor find no receive thread, and a receive thread has its
\* socket until it closes it.
THEOREM ThreadsInStep == Spec => [](JoinedBeforeReuse /\ ReceiverHasSocket)
<1>1. IInv => JoinedBeforeReuse /\ ReceiverHasSocket
  BY DEF IInv, ThreadInv
<1> QED
  BY <1>1, Inductive, PTL

\* The queue never holds more than m_iMaxPacketRxQueueSize + 1 packets, and the
\* receive thread blocks on its own lock only when it holds that many.
THEOREM QueueIsBounded == Spec => [](QueueBound /\ SelfDeadlockOnlyWhenFull)
<1>1. IInv => QueueBound /\ SelfDeadlockOnlyWhenFull
  BY DEF IInv, LockInv, SelfDeadlockOnlyWhenFull
<1> QED
  BY <1>1, Inductive, PTL

\* The configuration datagram has the asserted length exactly when every value
\* fits its column: wider and narrower values cannot make up for each other.
LEMMA LengthMeansFit ==
  ASSUME NEW c \in Config
  PROVE  ConfigLength(c) = AssertedLength <=> Fits(c)
<1>1. \A f \in Columns : c[f] \in Nat
  BY DEF Config
<1>2. \A f \in Columns :
        /\ Printed(c, f) \in Nat /\ Printed(c, f) >= Width[f]
        /\ Printed(c, f) = Width[f] <=> c[f] <= Width[f]
  BY <1>1 DEF Printed, Width, Columns
<1>3. Fits(c) <=> \A f \in Columns : Printed(c, f) = Width[f]
  BY <1>2 DEF Fits
<1> QED
  BY <1>2, <1>3 DEF ConfigLength, AssertedLength, Width, Columns

\* No assert() of the receive thread fails while the dialect is MMDVM and the
\* values fit their columns.
THEOREM AssertionsHold == Spec => []AssertsHold
<1>1. Init => AssertsHold
  BY DEF Init, AssertsHold, Main, Rx, Threads
<1>2. IInv /\ AssertsHold /\ [Next]_vars => AssertsHold'
  <2> SUFFICES ASSUME IInv, AssertsHold, [Next]_vars PROVE AssertsHold'
    OBVIOUS
  <2>1. pc'[Rx] = "start" => phase' = "CP_DISCONNECTED"
    <3>1. ThreadInv'
      BY ThreadStep
    <3> QED
      BY <3>1 DEF ThreadInv, JoinedBeforeReuse, ReceiverHasSocket
  <2> USE DEF callVars, wireVars, clockVars, restVars, stillVars, At
  <2>2. CASE aborted' = aborted /\ (aborted => UNCHANGED <<dialect, config>>)
    BY <2>1, <2>2 DEF AssertsHold, Fits
  <2>3. ASSUME NEW d \in Inbound, RxClassic(d) PROVE AssertsHold'
    BY <2>1, <2>3 DEF RxClassic, AssertsHold
  <2>4. ASSUME AckMisfit PROVE AssertsHold'
    <3>1. ~Fits(config) /\ config' = config
      BY <2>4, LengthMeansFit DEF AckMisfit, IInv, TypeOK
    <3> QED
      BY <2>1, <3>1 DEF AssertsHold, Fits
  <2> USE DEF pipeVars
  <2>5. ASSUME AppCall
        PROVE  aborted' = aborted /\ (aborted => UNCHANGED <<dialect, config>>)
    BY <2>5 DEF AppCall, AppControl, AppConfigure, AppOpen, AppClose, AppSend, AppGet
  <2>6. ASSUME MainStep
        PROVE  aborted' = aborted /\ (aborted => UNCHANGED <<dialect, config>>)
    BY <2>6 DEF MainStep, CloseIdle, CloseActive, CloseStop, CloseJoin, OpenResolve,
       OpenSocket, OpenCreate, Destroy, GetStep, GetLock, GetEmpty, GetFront, GetErase
  <2>7. ASSUME RxLocal \/ RxNothing \/ Tick \/ UNCHANGED vars
        PROVE  aborted' = aborted /\ UNCHANGED <<dialect, config>>
    BY <2>7 DEF RxLocal, RxStart, RxLoopTest, RxLock, RxCheck, RxPush, RxLogout,
       RxCloseSocket, RxExit, RxNothing, Tick, vars, GetStep, GetLock, GetEmpty,
       GetFront, GetErase
  <2>8. ASSUME NEW d \in Inbound,
               AckAnswered \/ RxMasterClose(d) \/ RxPong(d) \/ RxData(d)
        PROVE  aborted' = aborted /\ UNCHANGED <<dialect, config>>
    BY <2>8 DEF AckAnswered, RxMasterClose, RxPong, RxData
  <2> QED
    BY <2>2, <2>3, <2>4, <2>5, <2>6, <2>7, <2>8
    DEF Next, RxStep, RxReceive, RxAck, Terminated
<1> QED
  BY <1>1, <1>2, Inductive, PTL DEF Spec

\* What recvfrom() accepted is, in order, what the application got and what is
\* still on its way to it.
THEOREM PacketsInOrder == Spec => []LosslessFifo
<1> DEFINE All == delivered \o Pipe
<1>1. Init => LosslessFifo
  BY DEF Init, LosslessFifo, Ids, Pipe, Holding, Threads, Main, Rx
<1>2. IInv /\ LosslessFifo /\ [Next]_vars => LosslessFifo'
  <2> SUFFICES ASSUME IInv, LosslessFifo, [Next]_vars PROVE LosslessFifo'
    OBVIOUS
  <2>1. Pipe \in Seq(Packet) /\ delivered \in Seq(Packet) /\ received \in Nat
    BY PipeType DEF IInv, TypeOK
  <2>2. All \in Seq(Packet)
    BY <2>1, ConcatProperties
  <2>3. CASE PipeAccepts
    <3>1. All' = Append(All, packet')
      BY <2>1, <2>3, AppendToConcat DEF PipeAccepts
    <3>2. Ids(All') = Append(Ids(All), received + 1)
      BY <2>2, <2>3, <3>1, IdsAppend DEF PipeAccepts
    <3>3. Append([i \in 1 .. received |-> i], received + 1)
            = [i \in 1 .. received + 1 |-> i]
      BY <2>1
    <3> QED
      BY <2>3, <3>2, <3>3 DEF LosslessFifo, PipeAccepts
  <2>4. CASE PipeDelivers
    <3>1. All' = All
      BY <2>1, <2>4, MoveHead DEF PipeDelivers
    <3> QED
      BY <2>4, <3>1 DEF LosslessFifo, PipeDelivers, Ids
  <2>5. CASE PipeStutters
    BY <2>5 DEF PipeStutters, LosslessFifo, Ids
  <2> QED
    BY <2>3, <2>4, <2>5, PipeStep
<1> QED
  BY <1>1, <1>2, Inductive, PTL DEF Spec

\* HomebrewClient implements the pipe of RxPipe.
THEOREM ImplementsPipeCorrect == Spec => ImplementsPipe
<1>1. Init => PipeRefined!PipeInit
  BY DEF Init, PipeRefined!PipeInit, Ids, Pipe, Holding, Threads, Main, Rx
<1>2. IInv /\ [Next]_vars => [PipeRefined!PipeNext]_(PipeRefined!pipeVars)
  <2> SUFFICES ASSUME IInv, [Next]_vars
               PROVE  [PipeRefined!PipeNext]_(PipeRefined!pipeVars)
    OBVIOUS
  <2>1. Pipe \in Seq(Packet) /\ delivered \in Seq(Packet)
    BY PipeType DEF IInv, TypeOK
  <2>2. CASE PipeAccepts
    <3>1. Ids(Pipe)' = Append(Ids(Pipe), received + 1)
      BY <2>1, <2>2, IdsAppend DEF PipeAccepts, Ids
    <3>2. Ids(delivered)' = Ids(delivered)
      BY <2>2 DEF PipeAccepts, Ids
    <3> QED
      BY <2>2, <3>1, <3>2
      DEF PipeAccepts, PipeRefined!PipeNext, PipeRefined!Accept
  <2>3. CASE PipeDelivers
    <3>1. Head(Pipe) \in Packet
      BY <2>1, <2>3, HeadTailProperties DEF PipeDelivers
    <3>2. Ids(delivered)' = Append(Ids(delivered), Head(Ids(Pipe)))
      BY <2>1, <2>3, <3>1, IdsAppend, IdsTail DEF PipeDelivers, Ids
    <3>3. Ids(Pipe)' = Tail(Ids(Pipe)) /\ Ids(Pipe) # <<>>
      BY <2>1, <2>3, IdsTail DEF PipeDelivers, Ids
    <3> QED
      BY <2>3, <3>2, <3>3
      DEF PipeDelivers, PipeRefined!PipeNext, PipeRefined!Deliver
  <2>4. CASE PipeStutters
    BY <2>4 DEF PipeStutters, PipeRefined!pipeVars, Ids
  <2> QED
    BY <2>2, <2>3, <2>4, PipeStep
<1> QED
  BY <1>1, <1>2, Inductive, PTL DEF Spec, ImplementsPipe, PipeRefined!PipeSpec

-----------------------------------------------------------------------------
(* What the client sends, and whom it listens to.                          *)

\* SentOn as one state function.
OnWire == [s \in Int |-> SentOn(s)]

\* Every datagram is of a socket that was opened, and those of the session's
\* socket went to the server that it was opened for.
AddressInv ==
  /\ \A e \in toServer : e.sock \in 1 .. opens
  /\ pc[Main] = "create" \/ pc[Rx] \in RxActive =>
       \A e \in toServer : e.sock = sockfd => e.to = server

\* A new socket is unused; a session's login is as far as its phase says until it
\* logs out; every socket but the session's has seen a logout behind its login.
WireInv ==
  /\ \A s \in Int : s \notin 1 .. opens => OnWire[s] = {}
  /\ pc[Rx] \in {"none", "start"} /\ sockfd # -1 => OnWire[sockfd] = {}
  /\ pc[Rx] \in {"exit", "ended"} => sockfd = -1
  /\ ~aborted /\ pc[Rx] \in RxActive \ {"closeSock"} =>
       OnWire[sockfd] \in SentInPhase[phase]
  /\ pc[Rx] \in RxActive \ {"start"} => "RPTL" \in OnWire[sockfd]
  /\ \A s \in 1 .. opens : s # sockfd \/ pc[Rx] = "closeSock" =>
       ("RPTL" \in OnWire[s] => "RPTCL" \in OnWire[s])

\* The receive thread leaves its loop because it was asked to: by close(), which
\* then waits for it, or by the master.
StopInv ==
  /\ pc[Rx] \in RxPcs \ {"none", "ended"} => threadState \in {"RUNNING", "REQUESTSTOP"}
  /\ pc[Rx] \in {"logout", "closeSock", "exit"} => threadState = "REQUESTSTOP"
  /\ threadState = "REQUESTSTOP" /\ pc[Main] # "join" => notice

FullInv == IInv /\ AddressInv /\ WireInv /\ StopInv

-----------------------------------------------------------------------------
(* What sending does to what has been sent.                                *)

\* Sending adds the kinds to those sent on the session's socket, if it is open,
\* and nothing to those of any other socket.
LEMMA SentAdds ==
  ASSUME TypeOK, NEW K \in SUBSET OutKinds, toServer' = Sent(K)
  PROVE  /\ OnWire' = IF sockfd = -1 THEN OnWire
                      ELSE [OnWire EXCEPT ![sockfd] = @ \cup (K \ {"DMRD"})]
         /\ toServer \subseteq toServer'
         /\ \A e \in toServer' \ toServer :
              /\ sockfd # -1
              /\ e.sock = sockfd /\ e.to = server /\ e.kind \in K
<1>1. CASE sockfd = -1
  BY <1>1 DEF Sent, OnWire, SentOn
<1>2. CASE sockfd # -1
  <2>1. toServer' = toServer \cup {Datagram(k) : k \in K}
    BY <1>2 DEF Sent
  <2>2. \A e \in toServer' \ toServer :
          e.sock = sockfd /\ e.to = server /\ e.kind \in K
    BY <2>1 DEF Datagram
  <2>3. ASSUME NEW s \in Int, s # sockfd PROVE SentOn(s)' = SentOn(s)
    <3>1. {e \in toServer' : e.sock = s} = {e \in toServer : e.sock = s}
      BY <2>1, <2>3 DEF Datagram
    <3> QED
      BY <3>1 DEF SentOn
  <2>4. ASSUME NEW s \in Int, s = sockfd
        PROVE  SentOn(s)' = SentOn(s) \cup (K \ {"DMRD"})
    <3> DEFINE old == {e \in toServer : e.sock = s}
               new == {e \in toServer' : e.sock = s}
    <3>1. new = old \cup {Datagram(k) : k \in K}
      BY <2>1, <2>4 DEF Datagram
    <3>2. \A k \in K : Datagram(k).kind = k
      BY DEF Datagram
    <3>3. {d.kind : d \in new} = {d.kind : d \in old} \cup K
      <4> HIDE DEF old, new
      <4>1. ASSUME NEW k \in K PROVE k \in {d.kind : d \in new}
        BY <3>1, <3>2
      <4> QED
        BY <3>1, <3>2, <4>1
    <3>4. SentOn(s)' = {d.kind : d \in new} \ {"DMRD"}
      BY DEF SentOn
    <3>5. SentOn(s) = {d.kind : d \in old} \ {"DMRD"}
      BY DEF SentOn
    <3> HIDE DEF old, new
    <3> QED
      BY <3>3, <3>4, <3>5
  <2>5. sockfd \in Int
    BY DEF TypeOK
  <2> QED
    BY <1>2, <2>1, <2>2, <2>3, <2>4, <2>5 DEF OnWire
<1> QED
  BY <1>1, <1>2

LEMMA NothingSent ==
  ASSUME toServer' = toServer
  PROVE  OnWire' = OnWire
BY DEF OnWire, SentOn

-----------------------------------------------------------------------------
(* Every step preserves the invariants.                                    *)

\* What a step between two calls of recvfrom() leaves of the datagrams sent.
LEMMA RecvSends ==
  ASSUME IInv, WireInv, At(Rx, "recv"), NEW K \in SUBSET OutKinds, PingThenSend(K),
         \/ K = {} /\ phase' = phase
         \/ K = AckReply[phase] /\ phase' = AckNext[phase]
  PROVE  /\ \E X : OnWire' = [OnWire EXCEPT ![sockfd] = X]
         /\ OnWire'[sockfd] \in SentInPhase[phase']
         /\ "RPTL" \in OnWire'[sockfd]
<1> DEFINE all == K \cup (IF PingDue THEN {"RPTP"} ELSE {})
<1>1. sockfd \in Int /\ sockfd # -1 /\ phase \in Phases
  BY DEF IInv, TypeOK, ThreadInv, ReceiverHasSocket, RxActive, RxPcs, At
<1>2. OnWire[sockfd] \in SentInPhase[phase] /\ "RPTL" \in OnWire[sockfd]
  BY DEF WireInv, RxActive, RxPcs, At
<1>3. all \in SUBSET OutKinds /\ toServer' = Sent(all)
  BY DEF OutKinds, PingThenSend
<1>4. OnWire' = [OnWire EXCEPT ![sockfd] = @ \cup (all \ {"DMRD"})]
  <2> HIDE DEF all
  <2> QED
    BY <1>1, <1>3, SentAdds DEF IInv
<1>5. OnWire'[sockfd] = OnWire[sockfd] \cup (all \ {"DMRD"})
  <2> HIDE DEF all
  <2>1. DOMAIN OnWire = Int
    BY DEF OnWire
  <2> QED
    BY <1>1, <1>4, <2>1
<1>6. OnWire[sockfd] \cup (all \ {"DMRD"}) \in SentInPhase[phase']
  BY <1>1, <1>2 DEF SentInPhase, AckReply, AckNext, PingDue, Phases
<1> QED
  BY <1>2, <1>4, <1>5, <1>6

\* A step of the receive loop that sends what the next phase asks for.
LEMMA LoginKept ==
  ASSUME IInv, WireInv, pc[Rx] \in {"start", "recv"},
         NEW label \in {"loop", "lock"}, pc' = [pc EXCEPT ![Rx] = label],
         UNCHANGED <<sockfd, opens>>,
         \E X : OnWire' = [OnWire EXCEPT ![sockfd] = X],
         OnWire'[sockfd] \in SentInPhase[phase'],
         "RPTL" \in OnWire'[sockfd]
  PROVE  WireInv'
<1>1. \A s \in Int : s # sockfd => OnWire'[s] = OnWire[s]
  OBVIOUS
<1>2. sockfd \in 1 .. opens /\ opens \in Nat
  BY DEF IInv, TypeOK, ThreadInv, ReceiverHasSocket, RxActive, RxPcs
<1>3. pc'[Rx] = label
  BY DEF IInv, TypeOK, Threads
<1> QED
  BY <1>1, <1>2, <1>3 DEF WireInv, RxActive, RxPcs

LEMMA WireStep == IInv /\ WireInv /\ [Next]_vars => WireInv'
<1> SUFFICES ASSUME IInv, WireInv, [Next]_vars PROVE WireInv'
  OBVIOUS
<1>0. /\ sockfd \in Int /\ opens \in Nat /\ opens + 1 \in Int
      /\ sockfd # -1 => sockfd \in 1 .. opens
      /\ DOMAIN OnWire = Int
  BY DEF IInv, TypeOK, OnWire
<1> USE <1>0 DEF IInv, TypeOK, WireInv, ThreadInv, ReceiverHasSocket, JoinedBeforeReuse,
            RxActive, callVars, wireVars, clockVars, pipeVars, restVars,
            stillVars, At, Goto, MainPcs, RxPcs, Main, Rx, Threads
<1>1. ASSUME NEW h \in Hosts, NEW d \in Dialects, AppOpen(h, d) PROVE WireInv'
  BY <1>1, NothingSent DEF AppOpen
<1>2. ASSUME NEW op \in {"close", "destroy"}, AppClose(op) PROVE WireInv'
  BY <1>2, NothingSent DEF AppClose, NoCall
<1>3. CASE CloseIdle
  BY <1>3, NothingSent DEF CloseIdle, AfterClose
<1>4. CASE CloseActive \/ CloseStop
  BY <1>4, NothingSent DEF CloseActive, CloseStop
<1>5. CASE CloseJoin
  BY <1>5, NothingSent DEF CloseJoin, AfterClose
<1>6. CASE OpenResolve
  BY <1>6, NothingSent DEF OpenResolve
<1>7. CASE OpenSocket
  BY <1>7, NothingSent DEF OpenSocket
<1>8. CASE OpenCreate
  BY <1>8, NothingSent DEF OpenCreate, SentInPhase
<1>9. CASE Destroy
  BY <1>9, NothingSent DEF Destroy
<1>10. CASE AppSend
  <2>1. {"DMRD"} \in SUBSET OutKinds
    BY DEF OutKinds
  <2>2. OnWire' = OnWire
    <3>1. CASE sockfd = -1
      BY <1>10, <2>1, <3>1, SentAdds DEF AppSend
    <3>2. CASE sockfd # -1
      <4>1. OnWire' = [OnWire EXCEPT ![sockfd] = @ \cup ({"DMRD"} \ {"DMRD"})]
        BY <1>10, <2>1, <3>2, SentAdds DEF AppSend
      <4>2. OnWire = [s \in Int |-> OnWire[s]]
        BY DEF OnWire
      <4> QED
        BY <4>1, <4>2
    <3> QED
      BY <3>1, <3>2
  <2>3. UNCHANGED <<pc, phase, sockfd, opens, aborted>>
    BY <1>10 DEF AppSend
  <2> QED
    BY <2>2, <2>3
<1>11. ASSUME AppGet \/ \E c \in Configs : AppConfigure(c) PROVE WireInv'
  BY <1>11, NothingSent DEF AppGet, AppConfigure
<1>12. ASSUME NEW t \in Threads, GetStep(t) PROVE WireInv'
  BY <1>12, NothingSent
  DEF GetStep, GetLock, GetEmpty, GetFront, GetErase, AfterGet, LockInv
<1>13. CASE RxStart
  <2>1. {"RPTL"} \in SUBSET OutKinds
    BY DEF OutKinds
  <2>2. sockfd # -1 /\ OnWire[sockfd] = {}
    BY <1>13 DEF RxStart
  <2>3. OnWire' = [OnWire EXCEPT ![sockfd] = {"RPTL"}]
    BY <1>13, <2>1, <2>2, SentAdds DEF RxStart
  <2>4. OnWire'[sockfd] = {"RPTL"}
    BY <2>3
  <2>5. OnWire'[sockfd] \in SentInPhase["CP_LOGIN"] /\ "RPTL" \in OnWire'[sockfd]
    BY <2>4 DEF SentInPhase
  <2> QED
    BY <1>13, <2>3, <2>5, LoginKept DEF RxStart
<1>14. CASE RxLoopTest
  BY <1>14, NothingSent DEF RxLoopTest, AfterLoopTest
<1>15. {} \in SUBSET OutKinds
  OBVIOUS
<1>16. CASE RxNothing
  <2>1. /\ \E X : OnWire' = [OnWire EXCEPT ![sockfd] = X]
        /\ OnWire'[sockfd] \in SentInPhase[phase']
        /\ "RPTL" \in OnWire'[sockfd]
    BY <1>15, <1>16, RecvSends DEF RxNothing
  <2> QED
    BY <1>16, <2>1, LoginKept DEF RxNothing
<1>17. ASSUME NEW d \in Inbound, RxClassic(d) PROVE WireInv'
  BY <1>17, NothingSent DEF RxClassic, Accepted
<1>27. ASSUME NEW d \in Inbound, Received(d, "RPTACK"), AckMisfit PROVE WireInv'
  BY <1>27, NothingSent DEF AckMisfit, Received, Accepted
<1>18. ASSUME NEW d \in Inbound, Received(d, "RPTACK"), AckAnswered PROVE WireInv'
  <2>1. AckReply[phase] \in SUBSET OutKinds
    BY DEF AckReply, OutKinds, Phases
  <2>2. /\ \E X : OnWire' = [OnWire EXCEPT ![sockfd] = X]
        /\ OnWire'[sockfd] \in SentInPhase[phase']
        /\ "RPTL" \in OnWire'[sockfd]
    BY <1>18, <2>1, RecvSends DEF AckAnswered, Received, Accepted
  <2> QED
    BY <1>18, <2>2, LoginKept DEF AckAnswered, Received, Accepted
<1>19. ASSUME NEW d \in Inbound, RxMasterClose(d) \/ RxPong(d) \/ RxData(d)
       PROVE  WireInv'
  <2>1. /\ \E X : OnWire' = [OnWire EXCEPT ![sockfd] = X]
        /\ OnWire'[sockfd] \in SentInPhase[phase']
        /\ "RPTL" \in OnWire'[sockfd]
    BY <1>15, <1>19, RecvSends DEF RxMasterClose, RxPong, RxData, Received, Accepted
  <2> QED
    BY <1>19, <2>1, LoginKept DEF RxMasterClose, RxPong, RxData, Received, Accepted
<1>20. CASE RxLock \/ RxCheck
  BY <1>20, NothingSent DEF RxLock, RxCheck
<1>21. CASE RxPush
  BY <1>21, NothingSent DEF RxPush
<1>22. CASE RxLogout
  <2>1. {"RPTCL"} \in SUBSET OutKinds
    BY DEF OutKinds
  <2>2. OnWire' = [OnWire EXCEPT ![sockfd] = @ \cup {"RPTCL"}]
    BY <1>22, <2>1, SentAdds DEF RxLogout
  <2> QED
    BY <1>22, <2>2 DEF RxLogout
<1>23. CASE RxCloseSocket
  BY <1>23, NothingSent DEF RxCloseSocket
<1>24. CASE RxExit
  BY <1>24, NothingSent DEF RxExit
<1>25. CASE Tick
  BY <1>25, NothingSent DEF Tick
<1>26. CASE UNCHANGED vars
  BY <1>26, NothingSent DEF vars
<1> QED
  BY <1>1, <1>2, <1>3, <1>4, <1>5, <1>6, <1>7, <1>8, <1>9, <1>10, <1>11, <1>12,
     <1>13, <1>14, <1>16, <1>17, <1>18, <1>19, <1>20, <1>21, <1>22, <1>23,
     <1>24, <1>25, <1>26, <1>27
  DEF Next, AppCall, AppControl, MainStep, RxStep, RxReceive, RxAck, RxLocal,
      Terminated

LEMMA StopStep == IInv /\ StopInv /\ [Next]_vars => StopInv'
<1> SUFFICES ASSUME IInv, StopInv, [Next]_vars PROVE StopInv'
  OBVIOUS
<1> USE DEF IInv, TypeOK, StopInv, ThreadInv, JoinedBeforeReuse,
            callVars, wireVars, clockVars, pipeVars, restVars,
            stillVars, At, Goto, MainPcs, RxPcs, Main, Rx, Threads
<1>1. ASSUME AppCall PROVE StopInv'
  BY <1>1
  DEF AppCall, AppControl, AppConfigure, AppOpen, AppClose, AppSend, AppGet
<1>2. CASE CloseIdle \/ CloseActive \/ CloseStop
  BY <1>2 DEF CloseIdle, CloseActive, CloseStop, AfterClose
<1>3. CASE CloseJoin
  BY <1>3 DEF CloseJoin, AfterClose
<1>4. CASE OpenResolve \/ OpenSocket \/ Destroy
  BY <1>4 DEF OpenResolve, OpenSocket, Destroy
<1>5. CASE OpenCreate
  BY <1>5 DEF OpenCreate
<1>6. ASSUME NEW t \in Threads, GetStep(t) PROVE StopInv'
  BY <1>6 DEF GetStep, GetLock, GetEmpty, GetFront, GetErase, AfterGet, LockInv
<1>7. CASE RxStart \/ RxNothing
  BY <1>7 DEF RxStart, RxNothing
<1>8. CASE RxLoopTest
  BY <1>8 DEF RxLoopTest, AfterLoopTest
<1>9. ASSUME NEW d \in Inbound, RxReceive(d) PROVE StopInv'
  BY <1>9 DEF RxReceive, Received, Accepted, RxClassic, RxAck, AckAnswered,
              AckMisfit, RxMasterClose, RxPong, RxData
<1>10. CASE RxLock \/ RxCheck \/ RxPush
  BY <1>10 DEF RxLock, RxCheck, RxPush
<1>11. CASE RxLogout \/ RxCloseSocket
  BY <1>11 DEF RxLogout, RxCloseSocket
<1>12. CASE RxExit
  BY <1>12 DEF RxExit
<1>13. CASE Tick \/ UNCHANGED vars
  BY <1>13 DEF Tick, vars
<1> QED
  BY <1>1, <1>2, <1>3, <1>4, <1>5, <1>6, <1>7, <1>8, <1>9, <1>10, <1>11, <1>12,
     <1>13
  DEF Next, MainStep, RxStep, RxLocal, Terminated

\* A step sends, if anything, to the session's server on the session's socket.
SendsOwn ==
  /\ toServer \subseteq toServer'
  /\ \A e \in toServer' \ toServer :
       /\ sockfd # -1 /\ ~aborted
       /\ e.sock = sockfd /\ e.to = server
       /\ \/ pc[Main] = "app" /\ e.kind = "DMRD"
          \/ pc[Rx] \in {"start", "recv", "logout"}

LEMMA StepSends == IInv /\ [Next]_vars => SendsOwn
<1> SUFFICES ASSUME IInv, [Next]_vars PROVE SendsOwn
  OBVIOUS
<1> USE DEF IInv, callVars, wireVars, clockVars, pipeVars, restVars, stillVars, At
<1>1. ASSUME UNCHANGED toServer PROVE SendsOwn
  BY <1>1 DEF SendsOwn
<1>2. CASE AppSend
  <2>1. {"DMRD"} \in SUBSET OutKinds
    BY DEF OutKinds
  <2>2. /\ toServer \subseteq toServer'
        /\ \A e \in toServer' \ toServer : /\ sockfd # -1 /\ e.kind \in {"DMRD"}
                                          /\ e.sock = sockfd /\ e.to = server
    BY <1>2, <2>1, SentAdds DEF AppSend
  <2> QED
    BY <1>2, <2>2 DEF AppSend, SendsOwn
<1>3. ASSUME NEW K \in SUBSET OutKinds, toServer' = Sent(K), ~aborted,
             pc[Rx] \in {"start", "recv", "logout"}
      PROVE  SendsOwn
  BY <1>3, SentAdds DEF SendsOwn
<1>4. ASSUME NEW K \in SUBSET OutKinds, PingThenSend(K), At(Rx, "recv")
      PROVE  SendsOwn
  <2> DEFINE all == K \cup (IF PingDue THEN {"RPTP"} ELSE {})
  <2>1. all \in SUBSET OutKinds /\ toServer' = Sent(all)
    BY <1>4 DEF OutKinds, PingThenSend
  <2> HIDE DEF all
  <2> QED
    BY <1>3, <1>4, <2>1
<1>5. CASE RxStart
  BY <1>3, <1>5, {"RPTL"} \in SUBSET OutKinds DEF RxStart, OutKinds
<1>6. CASE RxLogout
  BY <1>3, <1>6, {"RPTCL"} \in SUBSET OutKinds DEF RxLogout, OutKinds
<1>7. {} \in SUBSET OutKinds
  OBVIOUS
<1>8. CASE RxNothing
  BY <1>4, <1>7, <1>8 DEF RxNothing
<1>9. ASSUME NEW d \in Inbound, Received(d, "RPTACK"), AckAnswered PROVE SendsOwn
  <2>1. AckReply[phase] \in SUBSET OutKinds
    BY DEF AckReply, OutKinds, Phases, TypeOK
  <2> QED
    BY <1>4, <1>9, <2>1 DEF AckAnswered, Received, Accepted
<1>10. ASSUME NEW d \in Inbound, RxMasterClose(d) \/ RxPong(d) \/ RxData(d)
       PROVE  SendsOwn
  BY <1>4, <1>7, <1>10 DEF RxMasterClose, RxPong, RxData, Received, Accepted
<1>11. ASSUME AppControl PROVE UNCHANGED toServer
  BY <1>11 DEF AppControl, AppConfigure, AppOpen, AppClose, AppGet
<1>12. ASSUME MainStep PROVE UNCHANGED toServer
  BY <1>12 DEF MainStep, CloseIdle, CloseActive, CloseStop, CloseJoin, OpenResolve,
     OpenSocket, OpenCreate, Destroy, GetStep, GetLock, GetEmpty, GetFront, GetErase
<1>13. ASSUME RxLoopTest \/ RxLock \/ RxCheck \/ RxPush \/ GetStep(Rx)
              \/ RxCloseSocket \/ RxExit \/ Tick \/ UNCHANGED vars
       PROVE  UNCHANGED toServer
  BY <1>13 DEF RxLoopTest, RxLock, RxCheck, RxPush, RxCloseSocket, RxExit, Tick, vars,
     GetStep, GetLock, GetEmpty, GetFront, GetErase
<1>14. ASSUME NEW d \in Inbound, RxClassic(d) \/ AckMisfit
       PROVE  UNCHANGED toServer
  BY <1>14 DEF RxClassic, AckMisfit
<1> QED
  BY <1>1, <1>2, <1>5, <1>6, <1>8, <1>9, <1>10, <1>11, <1>12, <1>13, <1>14
  DEF Next, AppCall, RxStep, RxLocal, RxReceive, RxAck, Terminated

\* There is a session from its socket's creation to the end of its thread; until
\* then it keeps its socket and its server.
NoSession == pc[Main] # "create" /\ pc[Rx] \notin RxActive
SessionGoesOn == ~NoSession /\ UNCHANGED <<sockfd, server>>
SessionBegins == sockfd' = opens + 1

LEMMA SessionStep ==
  IInv /\ [Next]_vars => SessionGoesOn \/ SessionBegins \/ NoSession'
<1> SUFFICES ASSUME IInv, [Next]_vars
             PROVE  SessionGoesOn \/ SessionBegins \/ NoSession'
  OBVIOUS
<1> USE DEF SessionGoesOn, SessionBegins, NoSession, IInv, TypeOK, ThreadInv,
            JoinedBeforeReuse, RxActive, callVars, wireVars, clockVars, pipeVars,
            restVars, stillVars, At, Goto, MainPcs, RxPcs, Main, Rx, Threads
<1>1. CASE AppCall
  BY <1>1
  DEF AppCall, AppControl, AppConfigure, AppOpen, AppClose, AppSend, AppGet
<1>2. CASE CloseIdle \/ CloseActive \/ CloseStop \/ CloseJoin
  BY <1>2 DEF CloseIdle, CloseActive, CloseStop, CloseJoin, AfterClose
<1>3. CASE OpenResolve \/ OpenSocket \/ Destroy
  BY <1>3 DEF OpenResolve, OpenSocket, Destroy
<1>4. CASE OpenCreate
  BY <1>4 DEF OpenCreate
<1>5. ASSUME NEW t \in Threads, GetStep(t)
      PROVE  SessionGoesOn \/ SessionBegins \/ NoSession'
  BY <1>5 DEF GetStep, GetLock, GetEmpty, GetFront, GetErase, AfterGet
<1>6. CASE RxStart \/ RxLoopTest \/ RxLock \/ RxCheck \/ RxPush \/ RxLogout
  BY <1>6 DEF RxStart, RxLoopTest, RxLock, RxCheck, RxPush, RxLogout
<1>7. CASE RxCloseSocket \/ RxExit
  BY <1>7 DEF RxCloseSocket, RxExit
<1>8. CASE RxNothing
  BY <1>8 DEF RxNothing
<1>9. ASSUME NEW d \in Inbound, RxReceive(d)
      PROVE  SessionGoesOn \/ SessionBegins \/ NoSession'
  BY <1>9 DEF RxReceive, Received, Accepted, RxClassic, RxAck, AckAnswered,
              AckMisfit, RxMasterClose, RxPong, RxData
<1>10. CASE Tick \/ UNCHANGED vars
  BY <1>10 DEF Tick, vars
<1> QED
  BY <1>1, <1>2, <1>3, <1>4, <1>5, <1>6, <1>7, <1>8, <1>9, <1>10
  DEF Next, MainStep, RxStep, RxLocal, Terminated

LEMMA AddressStep == IInv /\ AddressInv /\ [Next]_vars => AddressInv'
<1> SUFFICES ASSUME IInv, AddressInv, [Next]_vars PROVE AddressInv'
  OBVIOUS
<1>1. SendsOwn
  BY StepSends
<1>2. /\ opens \in Nat /\ (sockfd # -1 => sockfd \in 1 .. opens)
      /\ opens' \in {opens, opens + 1}
  <2>1. CASE OpenSocket
    BY <2>1 DEF OpenSocket, IInv, TypeOK
  <2>2. CASE ~OpenSocket
    <3> USE DEF callVars, restVars, stillVars
    <3>1. ASSUME AppCall PROVE UNCHANGED opens
      BY <3>1 DEF AppCall, AppControl, AppConfigure, AppOpen, AppClose, AppSend, AppGet
    <3>2. ASSUME MainStep PROVE UNCHANGED opens
      BY <2>2, <3>2
      DEF MainStep, CloseIdle, CloseActive, CloseStop, CloseJoin, OpenResolve,
          OpenCreate, Destroy, GetStep, GetLock, GetEmpty, GetFront, GetErase
    <3>3. ASSUME RxLocal \/ RxNothing \/ Tick \/ UNCHANGED vars
          PROVE  UNCHANGED opens
      BY <3>3
      DEF RxLocal, RxStart, RxLoopTest, RxLock, RxCheck, RxPush, RxLogout,
          RxCloseSocket, RxExit, RxNothing, Tick, vars, GetStep, GetLock, GetEmpty,
          GetFront, GetErase
    <3>4. ASSUME NEW d \in Inbound, RxReceive(d) PROVE UNCHANGED opens
      BY <3>4
      DEF RxReceive, RxClassic, RxAck, AckAnswered, AckMisfit, RxMasterClose, RxPong,
          RxData
    <3> QED
      BY <3>1, <3>2, <3>3, <3>4 DEF Next, RxStep, Terminated, IInv, TypeOK
  <2> QED
    BY <2>1, <2>2 DEF IInv, TypeOK
<1>3. \A e \in toServer' : e.sock \in 1 .. opens
  BY <1>1, <1>2 DEF SendsOwn, AddressInv
<1>4. SessionGoesOn \/ SessionBegins \/ NoSession'
  BY SessionStep
<1> QED
  BY <1>1, <1>2, <1>3, <1>4
  DEF SendsOwn, AddressInv, SessionGoesOn, SessionBegins, NoSession

LEMMA InitFullInv == Init => FullInv
<1> SUFFICES ASSUME Init PROVE FullInv
  OBVIOUS
<1>1. IInv
  BY InitIInv
<1>2. \A s \in Int : OnWire[s] = {}
  BY DEF Init, OnWire, SentOn
<1>3. AddressInv /\ StopInv
  BY DEF Init, AddressInv, StopInv, RxActive, Threads, Main, Rx
<1>4. WireInv
  BY <1>2 DEF Init, WireInv, RxActive, Threads, Main, Rx
<1> QED
  BY <1>1, <1>3, <1>4 DEF FullInv

LEMMA FullInductive == Spec => []FullInv
<1>1. FullInv /\ [Next]_vars => FullInv'
  BY TypeStep, ThreadStep, LockStep, WireStep, StopStep, AddressStep
  DEF FullInv, IInv
<1> QED
  BY <1>1, InitFullInv, PTL DEF Spec

-----------------------------------------------------------------------------
(* The theorems on what is sent and received.                              *)

\* The handshake on the wire: a client in the middle of its session has sent what
\* its phase asks for and nothing else, pings only when it is connected.
THEOREM WireFollowsPhase == Spec => []WireMatchesPhase
<1>1. FullInv => WireMatchesPhase
  <2> SUFFICES ASSUME FullInv, ~aborted, pc[Rx] \in RxPcs \ {"none", "closeSock", "exit", "ended"}
               PROVE  SentOn(sockfd) \in SentInPhase[phase]
    BY DEF WireMatchesPhase
  <2>1. OnWire[sockfd] \in SentInPhase[phase]
    BY DEF FullInv, WireInv, RxActive
  <2> QED
    BY <2>1 DEF OnWire, FullInv, IInv, TypeOK
<1> QED
  BY <1>1, FullInductive, PTL

\* Every session that sent its login sends its logout before its socket is closed,
\* whether the application or the master ends it.
THEOREM EverySessionLogsOut == Spec => []ClosedSessionsLoggedOut
<1>1. FullInv => ClosedSessionsLoggedOut
  <2> SUFFICES ASSUME FullInv, NEW s \in (1 .. opens) \ {sockfd}, "RPTL" \in SentOn(s)
               PROVE  "RPTCL" \in SentOn(s)
    BY DEF ClosedSessionsLoggedOut
  <2>1. "RPTL" \in OnWire[s] => "RPTCL" \in OnWire[s]
    BY DEF FullInv, WireInv
  <2> QED
    BY <2>1 DEF OnWire, FullInv, IInv, TypeOK
<1> QED
  BY <1>1, FullInductive, PTL

\* After its logout a session sends nothing more, but for DMR data of the
\* application while the receive thread obeys the master's shutdown.
THEOREM LogoutComesLast == Spec => LogoutIsLast
<1>1. FullInv /\ [Next]_vars =>
        [\A d \in toServer' \ toServer :
           "RPTCL" \in SentOn(d.sock) => d.kind = "DMRD" /\ notice]_vars
  <2> SUFFICES ASSUME FullInv, [Next]_vars, NEW d \in toServer' \ toServer,
                      "RPTCL" \in SentOn(d.sock)
               PROVE  d.kind = "DMRD" /\ notice
    OBVIOUS
  <2>1. /\ sockfd # -1 /\ ~aborted /\ d.sock = sockfd
        /\ \/ pc[Main] = "app" /\ d.kind = "DMRD"
           \/ pc[Rx] \in {"start", "recv", "logout"}
    BY StepSends DEF FullInv, SendsOwn
  <2>2. "RPTCL" \in OnWire[sockfd]
    BY <2>1 DEF OnWire, FullInv, IInv, TypeOK
  <2>3. pc[Rx] = "closeSock"
    BY <2>1, <2>2
    DEF FullInv, WireInv, SentInPhase, IInv, TypeOK, Phases, RxActive, RxPcs
  <2> QED
    BY <2>1, <2>3 DEF FullInv, StopInv
<1> QED
  BY <1>1, FullInductive, PTL DEF Spec, LogoutIsLast

\* The packets on their way to the application and those it has got came from a
\* server that their session had sent its login to.
THEOREM OnlyServersPackets == Spec => []SenderChecked
<1> DEFINE All == delivered \o Pipe
           LoggedIn(p) == [kind |-> "RPTL", to |-> p.from, sock |-> p.sock] \in toServer
<1>1. Init => SenderChecked
  BY DEF Init, SenderChecked, Pipe, Holding, Threads, Main, Rx
<1>2. FullInv /\ SenderChecked /\ [Next]_vars => SenderChecked'
  <2> SUFFICES ASSUME FullInv, SenderChecked, [Next]_vars PROVE SenderChecked'
    OBVIOUS
  <2>1. /\ Pipe \in Seq(Packet) /\ delivered \in Seq(Packet)
        /\ All \in Seq(Packet) /\ Len(All) \in Nat
    BY PipeType, ConcatProperties DEF FullInv, IInv, TypeOK
  <2>2. toServer \subseteq toServer'
    BY StepSends DEF FullInv, SendsOwn
  <2>3. \A i \in 1 .. Len(All) : LoggedIn(All[i])
    BY DEF SenderChecked
  <2>4. CASE PipeAccepts
    <3>1. All' = Append(All, packet')
      BY <2>1, <2>4, AppendToConcat DEF PipeAccepts
    <3>2. "RPTL" \in OnWire[sockfd] /\ sockfd \in Int
      BY <2>4
      DEF PipeAccepts, FullInv, WireInv, IInv, TypeOK, RxActive, RxPcs
    <3>3. PICK e \in toServer : e.sock = sockfd /\ e.kind = "RPTL"
      BY <3>2 DEF OnWire, SentOn
    <3>4. e.to = server
      BY <2>4, <3>3 DEF PipeAccepts, FullInv, AddressInv, RxActive, RxPcs
    <3>5. e = [kind |-> "RPTL", to |-> server, sock |-> sockfd]
      BY <3>3, <3>4 DEF FullInv, IInv, TypeOK, Outbound
    <3>6. LoggedIn(packet')
      BY <2>4, <3>5 DEF PipeAccepts
    <3>7. \A i \in 1 .. Len(Append(All, packet')) :
            LoggedIn(Append(All, packet')[i])
      <4>1. packet' \in Packet
        BY <2>4 DEF PipeAccepts
      <4> HIDE DEF All
      <4> QED
        BY <2>1, <2>3, <3>6, <4>1, AppendProperties
    <3> QED
      BY <2>2, <3>1, <3>7 DEF SenderChecked
  <2>5. ASSUME All' = All PROVE SenderChecked'
    BY <2>2, <2>3, <2>5 DEF SenderChecked
  <2>6. CASE PipeDelivers
    BY <2>1, <2>5, <2>6, MoveHead DEF PipeDelivers
  <2>7. CASE PipeStutters
    BY <2>5, <2>7 DEF PipeStutters
  <2> QED
    BY <2>4, <2>6, <2>7, PipeStep DEF FullInv
<1> QED
  BY <1>1, <1>2, FullInductive, PTL DEF Spec

=============================================================================
