------------------------------- MODULE Sockets -------------------------------
(***************************************************************************)
(* The socket objects of src/src/lib/socket/socketlib.cpp and the          *)
(* descriptors behind them.  An object keeps the number of its descriptor; *)
(* close() gives the number back to the system and forgets it in two       *)
(* steps, and the system hands out the lowest free number again.  The      *)
(* object has no lock: as HomebrewClient does it, one thread at a time     *)
(* opens or closes an object while another may be sending on it.           *)
(***************************************************************************)
EXTENDS Integers, FiniteSets

CONSTANTS
  Objects,  \* the socket objects of the process
  Users,    \* its threads
  Fds,      \* the descriptor numbers the process may use
  Ports,    \* ports to bind to
  Foreign   \* those of them that another process has bound

ASSUME FdsAssumption == Fds \subseteq Nat /\ IsFiniteSet(Fds)
ASSUME PortsAssumption == Foreign \subseteq Ports /\ Ports \subseteq Nat \ {0}

VARIABLES
  sockfd,        \* per object: its descriptor, or -1
  reuseaddrflag, \* per object
  fds,           \* per descriptor: what the system has behind it
  doing          \* per thread: the call it is in, and how far it is

socketVars == <<sockfd, reuseaddrflag, fds, doing>>

Nobody == "Nobody"  \* what owns a free descriptor
ASSUME ObjectsAssumption == Nobody \notin Objects

Free == [owner |-> Nobody, port |-> 0, reuse |-> FALSE]
Idle == [call |-> "none", obj |-> Nobody, at |-> "idle", port |-> 0, fd |-> -1,
         closed |-> FALSE, result |-> 0]
Changing == {"open", "close", "bind"}

Calling(u, place) == doing[u].at = place
Object(u) == doing[u].obj
Changer(o) == {u \in Users : doing[u].call \in Changing /\ Object(u) = o}

Continue(u, place) == doing' = [doing EXCEPT ![u].at = place]
Returned(u, value) == [Idle EXCEPT !.result = value]
Return(u, value) == doing' = [doing EXCEPT ![u] = Returned(u, value)]

-----------------------------------------------------------------------------
(* Calls of the application.                                               *)

\* Mutant: the descriptor the object has is not closed first.
StartWithoutClose(u, o, call, port) ==
  /\ Calling(u, "idle")
  /\ doing' = [doing EXCEPT ![u] = [Idle EXCEPT !.call = call, !.obj = o, !.port = port,
                                                !.at = IF call = "bind" THEN "socket"
                                                       ELSE "close"]]
  /\ UNCHANGED <<sockfd, reuseaddrflag, fds>>

Start(u, o, call, port) ==
  /\ Calling(u, "idle")
  /\ doing' = [doing EXCEPT ![u] = [Idle EXCEPT !.call = call, !.obj = o, !.port = port,
                                                !.at = "close"]]
  /\ UNCHANGED <<sockfd, reuseaddrflag, fds>>

\* open(), close() and bind() begin with close(); bind() without a port asks the
\* system for one, as port 0 does.
StartChange(u, o, call, port) == Changer(o) = {} /\ Start(u, o, call, port)

EnableReuse(u, o, onoff) ==
  /\ Calling(u, "idle") /\ Changer(o) = {}
  /\ reuseaddrflag' = [reuseaddrflag EXCEPT ![o] = onoff]
  /\ UNCHANGED <<sockfd, fds, doing>>

-----------------------------------------------------------------------------
(* close(), open() and bind().                                             *)

\* Mutant: the descriptor is given back and not forgotten.
CloseKeepsNumber(u) ==
  /\ Calling(u, "close") /\ sockfd[Object(u)] # -1
  /\ fds' = [fds EXCEPT ![sockfd[Object(u)]] = Free]
  /\ Continue(u, IF doing[u].call = "close" THEN "end" ELSE "socket")
  /\ UNCHANGED <<sockfd, reuseaddrflag>>

AfterReset(u) == IF doing[u].call = "close" THEN "end" ELSE "socket"

\* A send that overlaps this step may go out on a number that is not the object's.
CloseFd(u) ==
  /\ Calling(u, "close") /\ sockfd[Object(u)] # -1
  /\ fds' = [fds EXCEPT ![sockfd[Object(u)]] = Free]
  /\ doing' = [v \in Users |->
                 IF v = u THEN [doing[v] EXCEPT !.at = "reset"]
                 ELSE IF Object(v) = Object(u) THEN [doing[v] EXCEPT !.closed = TRUE]
                 ELSE doing[v]]
  /\ UNCHANGED <<sockfd, reuseaddrflag>>

CloseNothing(u) ==
  /\ Calling(u, "close") /\ sockfd[Object(u)] = -1
  /\ Continue(u, AfterReset(u))
  /\ UNCHANGED <<sockfd, reuseaddrflag, fds>>

CloseReset(u) ==
  /\ Calling(u, "reset")
  /\ sockfd' = [sockfd EXCEPT ![Object(u)] = -1]
  /\ Continue(u, AfterReset(u))
  /\ UNCHANGED <<reuseaddrflag, fds>>

CloseEnd(u) ==
  /\ Calling(u, "end")
  /\ Return(u, 0)
  /\ UNCHANGED <<sockfd, reuseaddrflag, fds>>

FreeFds == {f \in Fds : fds[f].owner = Nobody}
LowestFree == CHOOSE f \in FreeFds : \A g \in FreeFds : f <= g

\* socket() may fail with descriptors left; without one it must.
OpenSocket(u) ==
  /\ Calling(u, "socket") /\ FreeFds # {}
  /\ sockfd' = [sockfd EXCEPT ![Object(u)] = LowestFree]
  /\ fds' = [fds EXCEPT ![LowestFree] = [Free EXCEPT !.owner = Object(u)]]
  /\ IF doing[u].call = "open" THEN Return(u, LowestFree) ELSE Continue(u, "option")
  /\ UNCHANGED reuseaddrflag

OpenFails(u) ==
  /\ Calling(u, "socket")
  /\ sockfd' = [sockfd EXCEPT ![Object(u)] = -1]
  /\ Return(u, -1)
  /\ UNCHANGED <<reuseaddrflag, fds>>

BindOption(u) ==
  /\ Calling(u, "option")
  /\ fds' = [fds EXCEPT ![sockfd[Object(u)]].reuse = reuseaddrflag[Object(u)]]
  /\ Continue(u, "bind")
  /\ UNCHANGED <<sockfd, reuseaddrflag>>

\* setsockopt() may fail.  The descriptor stays open, and the object keeps it.
BindOptionFails(u) ==
  /\ Calling(u, "option")
  /\ Return(u, -2)
  /\ UNCHANGED <<sockfd, reuseaddrflag, fds>>

\* The system shares a port among sockets that all allow it.
Shares(f, port) ==
  /\ port \notin Foreign
  /\ \A g \in Fds \ {f} : fds[g].port = port => fds[g].reuse /\ fds[f].reuse

BindPort(u) ==
  LET f == sockfd[Object(u)]
  IN  /\ Calling(u, "bind")
      /\ doing[u].port = 0 \/ Shares(f, doing[u].port)
      /\ fds' = [fds EXCEPT ![f].port = doing[u].port]
      /\ Return(u, 0)
      /\ UNCHANGED <<sockfd, reuseaddrflag>>

\* The descriptor stays open here too.
BindRefused(u) ==
  /\ Calling(u, "bind")
  /\ ~(doing[u].port = 0 \/ Shares(sockfd[Object(u)], doing[u].port))
  /\ Return(u, -1)
  /\ UNCHANGED <<sockfd, reuseaddrflag, fds>>

-----------------------------------------------------------------------------
(* sendto(): the number is read, then the system called.                   *)

SendRead(u, o) ==
  /\ Calling(u, "idle")
  /\ doing' = [doing EXCEPT ![u] =
                 [Idle EXCEPT !.call = "send", !.obj = o, !.at = "send",
                              !.fd = sockfd[o],
                              !.closed = \E v \in Changer(o) : Calling(v, "reset")]]
  /\ UNCHANGED <<sockfd, reuseaddrflag, fds>>

\* The socket a datagram really leaves on.
Leaves(u) == IF doing[u].fd = -1 THEN Nobody ELSE fds[doing[u].fd].owner

SendCall(u) ==
  /\ Calling(u, "send")
  /\ Return(u, IF Leaves(u) = Nobody THEN -1 ELSE 1)
  /\ UNCHANGED <<sockfd, reuseaddrflag, fds>>

-----------------------------------------------------------------------------

SocketInit ==
  /\ sockfd = [o \in Objects |-> -1]
  /\ reuseaddrflag \in [Objects -> BOOLEAN]  \* MulticastUDPSocket starts with 1
  /\ fds = [f \in Fds |-> Free]
  /\ doing = [u \in Users |-> Idle]

ChangeStep(u) ==
  \/ CloseFd(u) \/ CloseNothing(u) \/ CloseReset(u) \/ CloseEnd(u)
  \/ OpenSocket(u) \/ OpenFails(u)
  \/ BindOption(u) \/ BindOptionFails(u) \/ BindPort(u) \/ BindRefused(u)

-----------------------------------------------------------------------------
(* Properties.                                                             *)

\* Whatever is opened, bound and closed, an object that no call is changing holds
\* exactly the descriptor that the system gave it: none is lost, none is closed
\* twice, and none belongs to two objects.
DescriptorsOwned ==
  \A o \in Objects : Changer(o) = {} =>
    {f \in Fds : fds[f].owner = o} = {sockfd[o]} \ {-1}

\* A datagram leaves on the descriptor of another object only when a close() of its
\* own object overlaps the send.
StrayOnlyWhileClosing ==
  \A u \in Users : Calling(u, "send") /\ Leaves(u) \notin {Nobody, Object(u)}
    => doing[u].closed
=============================================================================
