-------------------------- MODULE HomebrewSession --------------------------
(***************************************************************************)
(* HomebrewClient connected to a master over UDP.  The master is not part  *)
(* of the repository: it is modelled from the datagrams the client sends   *)
(* it and from those the client's receive thread handles.                  *)
(*                                                                         *)
(* The network reorders and loses datagrams: a datagram in flight may be   *)
(* taken at any later time, or never.  It duplicates them when Duplication *)
(* is TRUE: a datagram that has been taken can be taken again.             *)
(***************************************************************************)
EXTENDS HomebrewClient

CONSTANTS
  Server,      \* the host the master runs on
  Duplication  \* the network may deliver a datagram again, any number of times

ASSUME ServerAssumption == Server \in Hosts
ASSUME DuplicationAssumption == Duplication \in BOOLEAN

VARIABLES
  peer,     \* what the master knows of the client behind each socket
  granted,  \* per socket, the number of login steps the master has acknowledged
  handled,  \* datagrams of toServer that the network will not deliver (again)
  toClient  \* datagrams on their way to the client

masterVars == <<peer, granted, handled, toClient>>
sessionVars == <<vars, masterVars>>

Sockets == 1 .. MaxOpens
Peer == {"unknown", "login", "auth", "connected"}

\* The four steps of the login as the master sees them.
LoginRank == [unknown |-> 0, login |-> 1, auth |-> 2, connected |-> 3]

-----------------------------------------------------------------------------
(* The master.                                                             *)

InFlight == {d \in toServer : d.to = Server} \ handled
Consumed(d) == IF Duplication THEN handled ELSE handled \cup {d}
Answer(d, kind) == toClient' = toClient \cup {[kind |-> kind, sock |-> d.sock]}

\* The peer's state in which the master acknowledges a login datagram, and the
\* state that follows.
Expected == [RPTL |-> "unknown", RPTK |-> "login", RPTC |-> "auth"]
Granted == [RPTL |-> "login", RPTK |-> "auth", RPTC |-> "connected"]

MasterGrants(d) ==
  /\ d.kind \in DOMAIN Expected
  /\ peer[d.sock] = Expected[d.kind]
  /\ peer' = [peer EXCEPT ![d.sock] = Granted[d.kind]]
  /\ granted' = [granted EXCEPT ![d.sock] = LoginRank[Granted[d.kind]]]
  /\ handled' = Consumed(d)
  /\ Answer(d, "RPTACK")

\* Any other login datagram is refused with a kind the client does not handle.
MasterRefuses(d) ==
  /\ d.kind \in DOMAIN Expected
  /\ peer[d.sock] # Expected[d.kind]
  /\ handled' = Consumed(d)
  /\ Answer(d, "OTHER")
  /\ UNCHANGED <<peer, granted>>

\* The client pings once a second, so a ping can always be taken once more.
MasterPongs(d) ==
  /\ d.kind = "RPTP"
  /\ Answer(d, IF peer[d.sock] = "connected" THEN "MSTPONG" ELSE "OTHER")
  /\ UNCHANGED <<peer, granted, handled>>

MasterForgets(d) ==
  /\ d.kind = "RPTCL"
  /\ peer' = [peer EXCEPT ![d.sock] = "unknown"]
  /\ handled' = Consumed(d)
  /\ UNCHANGED <<granted, toClient>>

\* The master sends a connected client DMR data, or ends the session.
MasterSends(s) ==
  /\ peer[s] = "connected"
  /\ toClient' = toClient \cup {[kind |-> "DMRD", sock |-> s]}
  /\ UNCHANGED <<peer, granted, handled>>

MasterShutsDown(s) ==
  /\ peer[s] = "connected"
  /\ peer' = [peer EXCEPT ![s] = "unknown"]
  /\ toClient' = toClient \cup {[kind |-> "MSTCL", sock |-> s]}
  /\ UNCHANGED <<granted, handled>>

MasterHandles(d) ==
  MasterGrants(d) \/ MasterRefuses(d) \/ MasterPongs(d) \/ MasterForgets(d)

MasterAnswers == ~aborted /\ \E d \in InFlight : MasterHandles(d)

MasterStep ==
  /\ \/ MasterAnswers
     \/ ~aborted /\ \E s \in Sockets : MasterSends(s) \/ MasterShutsDown(s)
  /\ UNCHANGED vars

-----------------------------------------------------------------------------
(* The client on this network.                                             *)

\* Only datagrams for the socket that is open reach recvfrom().
Receive(d) ==
  /\ d.sock = sockfd
  /\ RxReceive([kind |-> d.kind, from |-> Server])
  /\ toClient' = IF Duplication THEN toClient ELSE toClient \ {d}
  /\ UNCHANGED <<peer, granted, handled>>

\* RxReceive has no action for the kinds the client takes no notice of.
Ignore(d) ==
  /\ d.sock = sockfd
  /\ d.kind = "OTHER"
  /\ RxNothing
  /\ toClient' = toClient \ {d}
  /\ UNCHANGED <<peer, granted, handled>>

ClientReceives == \E d \in toClient : Receive(d) \/ Ignore(d)

\* The DMR data of the application is left out: the master passes it on and
\* answers nothing.
ClientStep ==
  /\ AppControl \/ MainStep \/ RxLocal \/ RxNothing \/ Tick
  /\ UNCHANGED masterVars

SessionInit ==
  /\ Init
  /\ peer = [s \in Sockets |-> "unknown"]
  /\ granted = [s \in Sockets |-> 0]
  /\ handled = {}
  /\ toClient = {}

SessionNext ==
  \/ ClientStep
  \/ ClientReceives
  \/ MasterStep
  \/ Terminated /\ UNCHANGED masterVars

SessionSpec == SessionInit /\ [][SessionNext]_sessionVars

\* Both ends run, and the network loses nothing: a datagram for a socket that is
\* read again and again is read.  The application cannot keep m_lckRxQueue from
\* the receive thread by polling getRxPacket(): it pauses between its polls.
SessionFairness ==
  /\ WF_sessionVars(MainStep /\ UNCHANGED masterVars)
  /\ WF_sessionVars(RxLocal /\ UNCHANGED masterVars)
  /\ SF_sessionVars(RxLock /\ UNCHANGED masterVars)
  /\ SF_sessionVars(ClientReceives)
  /\ WF_sessionVars(MasterAnswers /\ UNCHANGED vars)

FairSessionSpec == SessionSpec /\ SessionFairness

-----------------------------------------------------------------------------
(* Properties.                                                             *)

\* While it logs in, the client takes each acknowledgement for the step it stands
\* for: it is at most one step behind the master, and never ahead of it.
PhaseRank == [CP_LOGIN |-> 0, CP_AUTH |-> 1, CP_CONFIG |-> 2, CP_DATA |-> 3]
InLoop == pc[Rx] \in RxPcs \ {"none", "start", "exit", "ended"}
HandshakeInStep == InLoop => granted[sockfd] - PhaseRank[phase] \in {0, 1}

\* What the client logs as it enters CP_DATA, "received ack for config. Connection
\* ready for use!", is true: the master has taken all three steps of the login.
ReadyMeansConnected ==
  InLoop /\ phase = "CP_DATA" => granted[sockfd] = LoginRank["connected"]

\* A master that has seen the logout of a socket never takes it for connected
\* again, whatever datagrams of its login arrive late.
NoGhostConnection ==
  \A d \in handled : d.kind = "RPTCL" => peer[d.sock] # "connected"

\* Every client that logs in at the master is connected in the end, unless it
\* leaves its receive loop first.
LoginCompletes ==
  phase = "CP_LOGIN" /\ server = Server
    ~> phase = "CP_DATA" \/ threadState # "RUNNING"

=============================================================================
