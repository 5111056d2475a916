------------------------- MODULE SocketProgramsProofs -------------------------
(***************************************************************************)
(* Proofs about the uses of the socket library, for any objects, threads,  *)
(* descriptors, datagrams and streams: whose descriptor a call works on,   *)
(* what the proxy sends back, and what recvline() makes of a stream.       *)
(***************************************************************************)
EXTENDS SocketPrograms, SequenceTheorems, WellFoundedInduction, TLAPS

\* A set of numbers that is not empty has a least one.
LEMMA LeastMember ==
  ASSUME NEW S \in SUBSET Nat, S # {}
  PROVE  \E m \in S : \A k \in S : m <= k
<1> DEFINE R == OpToRel(<, Nat)
<1>1. IsWellFoundedOn(R, Nat)
  BY NatLessThanWellFounded, Zenon
<1>2. \A k, m \in Nat : k < m => <<k, m>> \in R
  BY DEF OpToRel
<1> HIDE DEF R
<1>3. PICK m \in S : \A k \in S : ~(<<k, m>> \in R)
  BY <1>1, WFMin, Zenon
<1>4. ASSUME NEW k \in S PROVE m <= k
  <2>1. k < m => <<k, m>> \in R
    BY <1>2
  <2> QED
    BY <1>3, <2>1
<1> QED
  BY <1>4

-----------------------------------------------------------------------------
(* The socket objects and their descriptors.                               *)

ChangePlaces == {"close", "reset", "end", "socket", "option", "bind"}

SocketCall ==
  [call : Changing \cup {"none", "send"}, obj : Objects \cup {Nobody},
   at : ChangePlaces \cup {"idle", "send"},
   port : Nat, fd : Fds \cup {-1}, closed : BOOLEAN, result : Int]

SocketTypeOK ==
  /\ sockfd \in [Objects -> Fds \cup {-1}]
  /\ reuseaddrflag \in [Objects -> BOOLEAN]
  /\ fds \in [Fds -> [owner : Objects \cup {Nobody}, port : Nat, reuse : BOOLEAN]]
  /\ doing \in [Users -> SocketCall]

\* Where a call is tells which call it is.
PlaceInv ==
  \A u \in Users :
    /\ doing[u].call \in Changing <=> doing[u].at \in ChangePlaces
    /\ doing[u].at # "idle" => Object(u) \in Objects
    /\ doing[u].at = "end" => doing[u].call = "close"

\* One thread at a time changes an object.
OneChanger ==
  \A u, v \in Users :
    doing[u].at \in ChangePlaces /\ doing[v].at \in ChangePlaces /\ Object(u) = Object(v)
      => u = v

\* close() has given the object's descriptor back and not yet forgotten its number.
Resetting(o) == \E u \in Users : Calling(u, "reset") /\ Object(u) = o

\* An object owns the descriptor whose number it keeps, and no other, but between
\* the two steps of close().
OwnInv ==
  \A o \in Objects, f \in Fds :
    fds[f].owner = o <=> sockfd[o] = f /\ ~Resetting(o)

\* How far a change is tells whether the object has a descriptor.
ChangeInv ==
  \A u \in Users :
    /\ doing[u].at \in {"socket", "end"} => sockfd[Object(u)] = -1
    /\ doing[u].at \in {"reset", "option", "bind"} => sockfd[Object(u)] # -1

\* A number that a send has read is its object's until a close() overlaps it.
SendInv ==
  \A u \in Users : Calling(u, "send") /\ ~doing[u].closed /\ doing[u].fd # -1 =>
    doing[u].fd \in Fds /\ fds[doing[u].fd].owner = Object(u)

SocketInv == SocketTypeOK /\ PlaceInv /\ OneChanger /\ OwnInv /\ ChangeInv /\ SendInv

\* Two threads that change no object.
LEMMA SocketInitial == SocketInit => SocketInv
<1> SUFFICES ASSUME SocketInit PROVE SocketInv
  OBVIOUS
<1> USE DEF SocketInit, Idle, Free, ChangePlaces, Changing
<1>1. -1 \notin Fds
  BY FdsAssumption
<1>2. Idle \in SocketCall
  BY DEF SocketCall
<1>3. Free \in [owner : Objects \cup {Nobody}, port : Nat, reuse : BOOLEAN]
  OBVIOUS
<1>4. SocketTypeOK
  BY <1>2, <1>3 DEF SocketTypeOK
<1>5. PlaceInv /\ OneChanger /\ ChangeInv /\ SendInv
  BY DEF PlaceInv, OneChanger, ChangeInv, SendInv, Calling
<1>6. OwnInv
  BY <1>1, ObjectsAssumption DEF OwnInv
<1> QED
  BY <1>4, <1>5, <1>6 DEF SocketInv

LEMMA FreeDescriptor ==
  ASSUME FreeFds # {}
  PROVE  LowestFree \in Fds /\ fds[LowestFree].owner = Nobody
<1>1. FreeFds \in SUBSET Nat
  BY FdsAssumption DEF FreeFds
<1>2. \E f \in FreeFds : \A g \in FreeFds : f <= g
  BY <1>1, LeastMember
<1>3. LowestFree \in FreeFds
  BY <1>2 DEF LowestFree
<1> QED
  BY <1>3 DEF FreeFds

\* The record of an idle thread, field by field.
LEMMA IdleFields ==
  /\ Idle \in SocketCall
  /\ Idle.port = 0 /\ Idle.fd = -1 /\ Idle.closed = FALSE /\ Idle.result = 0
BY DEF Idle, SocketCall, ChangePlaces

\* A thread goes on to another place of its call, or returns from it.
LEMMA Continues ==
  ASSUME SocketTypeOK, NEW u \in Users, NEW place \in ChangePlaces, Continue(u, place)
  PROVE  /\ doing' \in [Users -> SocketCall]
         /\ \A v \in Users : v # u => doing'[v] = doing[v]
         /\ doing'[u].at = place /\ doing'[u].call = doing[u].call
         /\ doing'[u].obj = doing[u].obj
BY DEF SocketTypeOK, SocketCall, Continue

LEMMA Returns ==
  ASSUME SocketTypeOK, NEW u \in Users, NEW value \in Int, Return(u, value)
  PROVE  /\ doing' \in [Users -> SocketCall]
         /\ \A v \in Users : v # u => doing'[v] = doing[v]
         /\ doing'[u].at = "idle" /\ doing'[u].call = "none"
BY DEF SocketTypeOK, SocketCall, Return, Returned, Idle

\* A thread begins a call.
LEMMA Begins ==
  ASSUME SocketTypeOK, NEW u \in Users, NEW o \in Objects, NEW call \in Changing,
         NEW port \in Nat, Start(u, o, call, port)
  PROVE  /\ doing' \in [Users -> SocketCall]
         /\ \A v \in Users : v # u => doing'[v] = doing[v]
         /\ doing'[u].at = "close" /\ doing'[u].call = call /\ doing'[u].obj = o
<1> DEFINE new == [Idle EXCEPT !.call = call, !.obj = o, !.port = port, !.at = "close"]
<1>1. doing' = [doing EXCEPT ![u] = new]
  BY DEF Start
<1>2. "close" \in ChangePlaces
  BY DEF ChangePlaces
<1>3. new \in SocketCall /\ new.at = "close" /\ new.call = call /\ new.obj = o
  BY <1>2, IdleFields DEF SocketCall
<1> HIDE DEF new
<1> QED
  BY <1>1, <1>3 DEF SocketTypeOK

LEMMA ChangeStarts ==
  ASSUME SocketInv, NEW u \in Users, NEW o \in Objects, NEW call \in Changing,
         NEW port \in Nat, StartChange(u, o, call, port)
  PROVE  SocketInv'
<1>1. /\ doing' \in [Users -> SocketCall]
      /\ \A v \in Users : v # u => doing'[v] = doing[v]
      /\ doing'[u].at = "close" /\ doing'[u].call = call /\ doing'[u].obj = o
  BY Begins DEF StartChange, SocketInv
<1>2. doing[u].at = "idle" /\ UNCHANGED <<sockfd, reuseaddrflag, fds>>
  BY DEF StartChange, Start, Calling
<1>3. SocketTypeOK'
  BY <1>1, <1>2 DEF SocketInv, SocketTypeOK
<1>4. PlaceInv'
  BY <1>1 DEF SocketInv, PlaceInv, ChangePlaces, Object
<1>5. OneChanger'
  <2>1. \A v \in Users : doing[v].at \in ChangePlaces => Object(v) # o
    BY DEF StartChange, Changer, SocketInv, PlaceInv
  <2> QED
    BY <1>1, <2>1 DEF SocketInv, OneChanger, Object
<1>6. \A b : Resetting(b)' = Resetting(b)
  BY <1>1, <1>2 DEF Resetting, Calling, Object
<1>7. OwnInv'
  BY <1>2, <1>6 DEF SocketInv, OwnInv
<1>8. ChangeInv' /\ SendInv'
  BY <1>1, <1>2 DEF SocketInv, ChangeInv, SendInv, Calling, Object
<1> QED
  BY <1>3, <1>4, <1>5, <1>7, <1>8 DEF SocketInv

LEMMA SendSteps ==
  ASSUME SocketInv, NEW u \in Users,
         SendCall(u) \/ \E o \in Objects : SendRead(u, o)
  PROVE  SocketInv'
<1>1. /\ doing' \in [Users -> SocketCall]
      /\ \A v \in Users : v # u => doing'[v] = doing[v]
      /\ doing[u].at \notin ChangePlaces
      /\ \/ doing'[u].at = "idle" /\ doing'[u].call = "none"
         \/ /\ doing'[u].at = "send" /\ doing'[u].call = "send"
            /\ Object(u)' \in Objects /\ doing'[u].fd = sockfd[Object(u)']
            /\ ~doing'[u].closed => ~Resetting(Object(u)')
  <2>1. CASE SendCall(u)
    BY <2>1, Returns DEF SendCall, Calling, ChangePlaces, SocketInv
  <2>2. ASSUME NEW o \in Objects, SendRead(u, o)
        PROVE  /\ doing' \in [Users -> SocketCall]
               /\ \A v \in Users : v # u => doing'[v] = doing[v]
               /\ doing[u].at \notin ChangePlaces
               /\ doing'[u].at = "send" /\ doing'[u].call = "send"
               /\ Object(u)' = o /\ doing'[u].fd = sockfd[o]
               /\ ~doing'[u].closed => ~Resetting(o)
    <3>1. sockfd[o] \in Fds \cup {-1}
      BY DEF SocketInv, SocketTypeOK
    <3>2. (\E v \in Changer(o) : Calling(v, "reset")) <=> Resetting(o)
      BY DEF Changer, Resetting, Calling, SocketInv, PlaceInv, ChangePlaces
    <3> DEFINE closing == \E v \in Changer(o) : Calling(v, "reset")
               new == [Idle EXCEPT !.call = "send", !.obj = o, !.at = "send",
                                   !.fd = sockfd[o], !.closed = closing]
    <3>3. doing' = [doing EXCEPT ![u] = new] /\ doing[u].at = "idle"
      BY <2>2 DEF SendRead, Calling
    <3>4. closing \in BOOLEAN /\ "send" \in ChangePlaces \cup {"idle", "send"}
      OBVIOUS
    <3> HIDE DEF closing
    <3>5. /\ new \in SocketCall /\ new.at = "send" /\ new.call = "send" /\ new.obj = o
          /\ new.fd = sockfd[o] /\ new.closed = closing
      BY <3>1, <3>4, IdleFields DEF SocketCall
    <3> HIDE DEF new
    <3>6. doing'[u] = new /\ doing' \in [Users -> SocketCall]
          /\ \A v \in Users : v # u => doing'[v] = doing[v]
      BY <3>3, <3>5 DEF SocketInv, SocketTypeOK
    <3>7. ~doing'[u].closed => ~Resetting(o)
      BY <3>2, <3>5, <3>6, Zenon DEF closing
    <3> QED
      BY <3>3, <3>5, <3>6, <3>7 DEF ChangePlaces, Object
  <2> QED
    BY <2>1, <2>2
<1>2. UNCHANGED <<sockfd, reuseaddrflag, fds>>
  BY DEF SendCall, SendRead
<1>3. SocketTypeOK'
  BY <1>1, <1>2 DEF SocketInv, SocketTypeOK
<1>4. PlaceInv'
  BY <1>1 DEF SocketInv, PlaceInv, ChangePlaces, Changing, Object
<1>5. OneChanger'
  BY <1>1 DEF SocketInv, OneChanger, Object, ChangePlaces
<1>6. \A b : Resetting(b)' = Resetting(b)
  BY <1>1 DEF Resetting, Calling, Object, ChangePlaces
<1>7. OwnInv'
  BY <1>2, <1>6 DEF SocketInv, OwnInv
<1>8. ChangeInv'
  BY <1>1, <1>2 DEF SocketInv, ChangeInv, Object
<1>9. SendInv'
  BY <1>1, <1>2 DEF SocketInv, SendInv, OwnInv, Calling, Object, SocketTypeOK
<1> QED
  BY <1>3, <1>4, <1>5, <1>7, <1>8, <1>9 DEF SocketInv

\* The steps of close().
LEMMA CloseSteps ==
  ASSUME SocketInv, NEW u \in Users,
         CloseFd(u) \/ CloseNothing(u) \/ CloseReset(u) \/ CloseEnd(u)
  PROVE  SocketInv'
<1> DEFINE o == Object(u)
<1>0. /\ o \in Objects /\ doing[u].at \in ChangePlaces /\ sockfd[o] \in Fds \cup {-1}
      /\ -1 \notin Fds /\ doing[u] \in SocketCall /\ DOMAIN sockfd = Objects
      /\ AfterReset(u) \in {"end", "socket"}
      /\ AfterReset(u) = "end" => doing[u].call = "close"
  BY FdsAssumption
  DEF CloseFd, CloseNothing, CloseReset, CloseEnd, Calling, SocketInv, PlaceInv,
      SocketTypeOK, ChangePlaces, AfterReset
<1>1. CASE CloseFd(u)
  <2>1. /\ sockfd[o] \in Fds /\ doing[u].at = "close" /\ UNCHANGED <<sockfd, reuseaddrflag>>
        /\ fds' = [fds EXCEPT ![sockfd[o]] = Free]
    BY <1>0, <1>1 DEF CloseFd, Calling
  <2>2. /\ doing' \in [Users -> SocketCall]
        /\ doing'[u] = [doing[u] EXCEPT !.at = "reset"]
        /\ \A v \in Users : v # u =>
             doing'[v] = IF Object(v) = o THEN [doing[v] EXCEPT !.closed = TRUE] ELSE doing[v]
    <3>1. \A v \in Users : /\ doing[v] \in SocketCall
                            /\ [doing[v] EXCEPT !.at = "reset"] \in SocketCall
                            /\ [doing[v] EXCEPT !.closed = TRUE] \in SocketCall
      BY DEF SocketInv, SocketTypeOK, SocketCall, ChangePlaces
    <3> QED
      BY <1>1, <3>1 DEF CloseFd
  <2>3. /\ doing'[u].at = "reset" /\ doing'[u].call = doing[u].call /\ Object(u)' = o
        /\ \A v \in Users : v # u =>
             /\ doing'[v].at = doing[v].at /\ doing'[v].call = doing[v].call
             /\ Object(v)' = Object(v) /\ doing'[v].fd = doing[v].fd
             /\ ~doing'[v].closed => ~doing[v].closed /\ Object(v) # o
    BY <2>2 DEF SocketInv, SocketTypeOK, SocketCall, Object
  <2>4. SocketTypeOK'
    <3>1. Free \in [owner : Objects \cup {Nobody}, port : Nat, reuse : BOOLEAN]
      BY DEF Free
    <3> QED
      BY <2>1, <2>2, <3>1 DEF SocketInv, SocketTypeOK
  <2>5. PlaceInv'
    BY <1>0, <2>1, <2>3 DEF SocketInv, PlaceInv, ChangePlaces
  <2>6. OneChanger'
    BY <1>0, <2>3 DEF SocketInv, OneChanger
  <2>7. \A b : Resetting(b)' <=> Resetting(b) \/ b = o
    BY <2>1, <2>3 DEF Resetting, Calling, Object
  <2>8. OwnInv'
    <3>1. \A f \in Fds : fds'[f] = IF f = sockfd[o] THEN Free ELSE fds[f]
      BY <2>1 DEF SocketInv, SocketTypeOK
    <3>2. ~Resetting(o)
      BY <1>0, <2>1 DEF Resetting, Calling, SocketInv, OneChanger, ChangePlaces
    <3>3. fds[sockfd[o]].owner = o
      BY <1>0, <2>1, <3>2 DEF SocketInv, OwnInv
    <3>4. Free.owner \notin Objects
      BY ObjectsAssumption DEF Free
    <3> SUFFICES ASSUME NEW b \in Objects, NEW f \in Fds
                 PROVE  fds'[f].owner = b <=> sockfd[b] = f /\ ~Resetting(b)'
      BY <2>1 DEF OwnInv
    <3>5. fds[f].owner = b <=> sockfd[b] = f /\ ~Resetting(b)
      BY DEF SocketInv, OwnInv
    <3>6. fds[f].owner = o <=> sockfd[o] = f
      BY <1>0, <3>2 DEF SocketInv, OwnInv
    <3>7. CASE b = o
      BY <2>7, <3>1, <3>4, <3>6, <3>7
    <3>8. CASE b # o
      BY <2>7, <3>1, <3>3, <3>4, <3>5, <3>8
    <3> QED
      BY <3>7, <3>8
  <2>9. ChangeInv'
    BY <1>0, <2>1, <2>3 DEF SocketInv, ChangeInv
  <2>10. SendInv'
    <3> SUFFICES ASSUME NEW v \in Users, Calling(v, "send")', ~doing'[v].closed,
                        doing'[v].fd # -1
                 PROVE  doing'[v].fd \in Fds /\ fds'[doing'[v].fd].owner = Object(v)'
      BY DEF SendInv
    <3>1. v # u /\ Calling(v, "send") /\ ~doing[v].closed /\ Object(v) # o
          /\ doing'[v].fd = doing[v].fd /\ Object(v)' = Object(v)
      BY <2>3 DEF Calling
    <3>2. doing[v].fd \in Fds /\ fds[doing[v].fd].owner = Object(v)
      BY <3>1 DEF SocketInv, SendInv
    <3>3. ~Resetting(o)
      BY <1>0, <2>1 DEF Resetting, Calling, SocketInv, OneChanger, ChangePlaces
    <3>4. doing[v].fd # sockfd[o]
      BY <1>0, <2>1, <3>1, <3>2, <3>3 DEF SocketInv, OwnInv
    <3> QED
      BY <2>1, <3>1, <3>2, <3>4 DEF SocketInv, SocketTypeOK
  <2> QED
    BY <2>4, <2>5, <2>6, <2>8, <2>9, <2>10 DEF SocketInv
<1>2. CASE CloseNothing(u) \/ CloseReset(u) \/ CloseEnd(u)
  <2>1. /\ UNCHANGED <<reuseaddrflag, fds>>
        /\ sockfd' = [sockfd EXCEPT ![o] = -1]
    <3>1. CASE CloseNothing(u)
      <4>1. sockfd[o] = -1 /\ sockfd' = sockfd
        BY <3>1 DEF CloseNothing
      <4> QED
        BY <1>0, <3>1, <4>1 DEF CloseNothing, SocketInv, SocketTypeOK
    <3>2. CASE CloseReset(u)
      BY <3>2 DEF CloseReset
    <3>3. CASE CloseEnd(u)
      <4>1. sockfd[o] = -1 /\ sockfd' = sockfd
        BY <3>3 DEF CloseEnd, Calling, SocketInv, ChangeInv
      <4> QED
        BY <1>0, <3>3, <4>1 DEF CloseEnd, SocketInv, SocketTypeOK
    <3> QED
      BY <1>2, <3>1, <3>2, <3>3
  <2>2. /\ doing' \in [Users -> SocketCall]
        /\ \A v \in Users : v # u => doing'[v] = doing[v]
        /\ \/ doing'[u].at = "idle" /\ doing'[u].call = "none"
           \/ /\ doing'[u].at \in {"end", "socket"} /\ doing'[u].call = doing[u].call
              /\ doing'[u].obj = o /\ (doing'[u].at = "end" => doing[u].call = "close")
    <3>1. CASE CloseEnd(u)
      BY <3>1, Returns DEF CloseEnd, SocketInv
    <3>2. CASE CloseNothing(u) \/ CloseReset(u)
      <4>1. AfterReset(u) \in ChangePlaces /\ Continue(u, AfterReset(u))
        BY <1>0, <3>2 DEF CloseNothing, CloseReset, ChangePlaces
      <4> QED
        BY <1>0, <4>1, Continues DEF SocketInv, Object
    <3> QED
      BY <1>2, <3>1, <3>2
  <2>3. SocketTypeOK'
    BY <2>1, <2>2 DEF SocketInv, SocketTypeOK
  <2>4. PlaceInv'
    BY <1>0, <2>2 DEF SocketInv, PlaceInv, ChangePlaces, Changing, Object
  <2>5. OneChanger'
    BY <1>0, <2>2 DEF SocketInv, OneChanger, ChangePlaces, Object
  <2>6. \A b : Resetting(b)' <=> Resetting(b) /\ b # o
    <3>1. ASSUME NEW v \in Users, doing'[v].at = "reset"
          PROVE  v # u /\ doing[v].at = "reset" /\ Object(v)' = Object(v) /\ Object(v) # o
      <4>1. v # u /\ doing'[v] = doing[v]
        BY <2>2, <3>1
      <4> QED
        BY <1>0, <3>1, <4>1 DEF SocketInv, OneChanger, ChangePlaces, Object
    <3>2. ASSUME NEW v \in Users, doing[v].at = "reset", Object(v) # o
          PROVE  doing'[v].at = "reset" /\ Object(v)' = Object(v)
      BY <2>2, <3>2 DEF Object
    <3> QED
      BY <3>1, <3>2 DEF Resetting, Calling, Object
  <2>7. \A f \in Fds : fds[f].owner # o
    BY <1>0, <1>2
    DEF CloseNothing, CloseReset, CloseEnd, Calling, SocketInv, OwnInv, ChangeInv, Resetting
  <2>8. OwnInv'
    BY <1>0, <2>1, <2>6, <2>7 DEF SocketInv, OwnInv, SocketTypeOK
  <2>9. ChangeInv'
    <3>1. \A v \in Users : v # u /\ doing[v].at \in ChangePlaces => Object(v) # o
      BY <1>0 DEF SocketInv, OneChanger
    <3> QED
      BY <1>0, <2>1, <2>2, <3>1 DEF SocketInv, ChangeInv, ChangePlaces, Object, SocketTypeOK,
         PlaceInv
  <2>10. SendInv'
    BY <2>1, <2>2 DEF SocketInv, SendInv, Calling, Object
  <2> QED
    BY <2>3, <2>4, <2>5, <2>8, <2>9, <2>10 DEF SocketInv
<1> QED
  BY <1>1, <1>2

\* The thread that changes an object, and what its step leaves of the others.
LEMMA SoleChanger ==
  ASSUME SocketInv, NEW u \in Users, doing[u].at \in ChangePlaces,
         doing' \in [Users -> SocketCall],
         \A v \in Users : v # u => doing'[v] = doing[v],
         \/ doing'[u].at = "idle" /\ doing'[u].call = "none"
         \/ /\ doing'[u].at \in ChangePlaces \ {"reset", "end"}
            /\ doing'[u].call = doing[u].call /\ doing'[u].obj = doing[u].obj
  PROVE  /\ PlaceInv' /\ OneChanger'
         /\ \A b : Resetting(b)' <=> Resetting(b) /\ b # Object(u)
         /\ \A v \in Users : v # u /\ doing[v].at \in ChangePlaces => Object(v) # Object(u)
<1>1. \A v \in Users : v # u /\ doing[v].at \in ChangePlaces => Object(v) # Object(u)
  BY DEF SocketInv, OneChanger
<1>2. PlaceInv'
  BY DEF SocketInv, PlaceInv, ChangePlaces, Changing, Object
<1>3. OneChanger'
  BY <1>1 DEF SocketInv, OneChanger, ChangePlaces, Object
<1>4. ASSUME NEW v \in Users, doing'[v].at = "reset"
      PROVE  v # u /\ doing[v].at = "reset" /\ Object(v)' = Object(v) /\ Object(v) # Object(u)
  <2>1. v # u /\ doing'[v] = doing[v]
    BY <1>4 DEF ChangePlaces
  <2> QED
    BY <1>1, <1>4, <2>1 DEF ChangePlaces, Object
<1>5. ASSUME NEW v \in Users, doing[v].at = "reset", Object(v) # Object(u)
      PROVE  doing'[v].at = "reset" /\ Object(v)' = Object(v)
  BY <1>5 DEF Object
<1>6. \A b : Resetting(b)' <=> Resetting(b) /\ b # Object(u)
  BY <1>4, <1>5 DEF Resetting, Calling, Object
<1> QED
  BY <1>1, <1>2, <1>3, <1>6

\* The steps of open() behind its close().
LEMMA OpenSteps ==
  ASSUME SocketInv, NEW u \in Users, OpenSocket(u) \/ OpenFails(u)
  PROVE  SocketInv'
<1> DEFINE o == Object(u)
<1>0. /\ o \in Objects /\ doing[u].at = "socket" /\ doing[u].at \in ChangePlaces
      /\ sockfd[o] = -1 /\ -1 \notin Fds /\ DOMAIN sockfd = Objects /\ DOMAIN fds = Fds
      /\ reuseaddrflag' = reuseaddrflag
  BY FdsAssumption
  DEF OpenSocket, OpenFails, Calling, SocketInv, PlaceInv, ChangeInv, SocketTypeOK, ChangePlaces
<1>1. \A f \in Fds : fds[f].owner # o
  BY <1>0 DEF SocketInv, OwnInv
<1>2. CASE OpenSocket(u)
  <2>1. LowestFree \in Fds /\ fds[LowestFree].owner = Nobody
    BY <1>2, FreeDescriptor DEF OpenSocket
  <2> DEFINE fd == LowestFree
             new == [Free EXCEPT !.owner = o]
  <2>2. sockfd' = [sockfd EXCEPT ![o] = fd] /\ fds' = [fds EXCEPT ![fd] = new]
    BY <1>2 DEF OpenSocket
  <2>3. new \in [owner : Objects \cup {Nobody}, port : Nat, reuse : BOOLEAN] /\ new.owner = o
    <3>1. Free \in [owner : Objects \cup {Nobody}, port : Nat, reuse : BOOLEAN]
      BY DEF Free
    <3> QED
      BY <1>0, <3>1
  <2>4. /\ doing' \in [Users -> SocketCall]
        /\ \A v \in Users : v # u => doing'[v] = doing[v]
        /\ \/ doing'[u].at = "idle" /\ doing'[u].call = "none"
           \/ /\ doing'[u].at = "option"
              /\ doing'[u].call = doing[u].call /\ doing'[u].obj = doing[u].obj
    <3>1. CASE doing[u].call = "open"
      <4>1. Return(u, fd) /\ fd \in Int
        BY <1>2, <2>1, <3>1, FdsAssumption DEF OpenSocket
      <4> QED
        BY <4>1, Returns DEF SocketInv
    <3>2. CASE doing[u].call # "open"
      <4>1. Continue(u, "option") /\ "option" \in ChangePlaces
        BY <1>2, <3>2 DEF OpenSocket, ChangePlaces
      <4> QED
        BY <4>1, Continues DEF SocketInv
    <3> QED
      BY <3>1, <3>2
  <2> HIDE DEF fd, new
  <2>5. fd \in Fds /\ fds[fd].owner = Nobody
    BY <2>1 DEF fd
  <2>6. /\ PlaceInv' /\ OneChanger'
        /\ \A b : Resetting(b)' <=> Resetting(b) /\ b # o
        /\ \A v \in Users : v # u /\ doing[v].at \in ChangePlaces => Object(v) # o
    BY <1>0, <2>4, SoleChanger DEF ChangePlaces
  <2>7. SocketTypeOK'
    BY <1>0, <2>2, <2>3, <2>4, <2>5 DEF SocketInv, SocketTypeOK
  <2>8. OwnInv'
    <3> SUFFICES ASSUME NEW b \in Objects, NEW f \in Fds
                 PROVE  fds'[f].owner = b <=> sockfd'[b] = f /\ ~Resetting(b)'
      BY DEF OwnInv
    <3>1. fds[f].owner = b <=> sockfd[b] = f /\ ~Resetting(b)
      BY DEF SocketInv, OwnInv
    <3>2. CASE b = o
      BY <1>0, <1>1, <2>2, <2>3, <2>5, <2>6, <3>2
    <3>3. CASE b # o
      BY <1>0, <2>2, <2>3, <2>5, <2>6, <3>1, <3>3, ObjectsAssumption
    <3> QED
      BY <3>2, <3>3
  <2>9. ChangeInv'
    <3> SUFFICES ASSUME NEW v \in Users, doing'[v].at \in ChangePlaces
        PROVE  /\ doing'[v].at \in {"socket", "end"} => sockfd'[doing'[v].obj] = -1
               /\ doing'[v].at \in {"reset", "option", "bind"} => sockfd'[doing'[v].obj] # -1
      BY DEF ChangeInv, ChangePlaces, Object
    <3>1. CASE v = u
      BY <1>0, <2>2, <2>4, <2>5, <3>1 DEF ChangePlaces, Object
    <3>2. CASE v # u
      BY <1>0, <2>2, <2>4, <2>6, <3>2 DEF SocketInv, ChangeInv, Object
    <3> QED
      BY <3>1, <3>2
  <2>10. SendInv'
    <3>1. ASSUME NEW v \in Users, doing'[v].at = "send"
          PROVE  /\ doing'[v] = doing[v]
                 /\ doing[v].fd \in Fds /\ fds[doing[v].fd].owner = doing[v].obj
                      => doing[v].fd # fd
      <4>1. v # u /\ doing'[v] = doing[v]
        BY <2>4, <3>1
      <4>2. doing[v].obj \in Objects
        BY <3>1, <4>1 DEF SocketInv, PlaceInv, Object
      <4> QED
        BY <2>5, <4>1, <4>2, ObjectsAssumption
    <3> QED
      BY <1>0, <2>2, <2>5, <3>1 DEF SocketInv, SendInv, Calling, Object
  <2> QED
    BY <2>6, <2>7, <2>8, <2>9, <2>10 DEF SocketInv
<1>3. CASE OpenFails(u)
  <2>1. sockfd' = sockfd /\ fds' = fds
    BY <1>0, <1>3 DEF OpenFails, SocketInv, SocketTypeOK
  <2>2. /\ doing' \in [Users -> SocketCall]
        /\ \A v \in Users : v # u => doing'[v] = doing[v]
        /\ doing'[u].at = "idle" /\ doing'[u].call = "none"
    BY <1>3, Returns DEF OpenFails, SocketInv
  <2>3. /\ PlaceInv' /\ OneChanger'
        /\ \A b : Resetting(b)' <=> Resetting(b) /\ b # o
    BY <1>0, <2>2, SoleChanger
  <2>4. SocketTypeOK'
    BY <1>0, <2>1, <2>2 DEF SocketInv, SocketTypeOK
  <2>5. OwnInv'
    BY <1>0, <1>1, <2>1, <2>3 DEF SocketInv, OwnInv
  <2>6. ChangeInv' /\ SendInv'
    BY <2>1, <2>2 DEF SocketInv, ChangeInv, SendInv, Calling, Object
  <2> QED
    BY <2>3, <2>4, <2>5, <2>6 DEF SocketInv
<1> QED
  BY <1>2, <1>3

\* The steps of bind() behind its open() change what the system keeps of the
\* descriptor, but not whose it is.
LEMMA BindSteps ==
  ASSUME SocketInv, NEW u \in Users,
         BindOption(u) \/ BindOptionFails(u) \/ BindPort(u) \/ BindRefused(u)
  PROVE  SocketInv'
<1> DEFINE o == Object(u)
<1>0. /\ o \in Objects /\ doing[u].at \in {"option", "bind"} /\ doing[u].at \in ChangePlaces
      /\ sockfd[o] \in Fds /\ doing[u].port \in Nat /\ reuseaddrflag[o] \in BOOLEAN
      /\ UNCHANGED <<sockfd, reuseaddrflag>>
  <2>1. doing[u].at \in {"option", "bind"} /\ doing[u] \in SocketCall
        /\ UNCHANGED <<sockfd, reuseaddrflag>>
    BY DEF BindOption, BindOptionFails, BindPort, BindRefused, Calling, SocketInv,
           SocketTypeOK
  <2> QED
    BY <2>1
    DEF SocketInv, PlaceInv, ChangeInv, SocketTypeOK, ChangePlaces, SocketCall
<1>1. /\ fds' \in [Fds -> [owner : Objects \cup {Nobody}, port : Nat, reuse : BOOLEAN]]
      /\ \A f \in Fds : fds'[f].owner = fds[f].owner
  BY <1>0
  DEF BindOption, BindOptionFails, BindPort, BindRefused, SocketInv, SocketTypeOK
<1>2. /\ doing' \in [Users -> SocketCall]
      /\ \A v \in Users : v # u => doing'[v] = doing[v]
      /\ \/ doing'[u].at = "idle" /\ doing'[u].call = "none"
         \/ /\ doing'[u].at = "bind"
            /\ doing'[u].call = doing[u].call /\ doing'[u].obj = doing[u].obj
  <2>1. CASE BindOption(u)
    <3>1. Continue(u, "bind") /\ "bind" \in ChangePlaces
      BY <2>1 DEF BindOption, ChangePlaces
    <3> QED
      BY <3>1, Continues DEF SocketInv
  <2>2. CASE BindOptionFails(u) \/ BindPort(u) \/ BindRefused(u)
    <3>1. PICK value \in Int : Return(u, value)
      BY <2>2 DEF BindOptionFails, BindPort, BindRefused
    <3> QED
      BY <3>1, Returns DEF SocketInv
  <2> QED
    BY <2>1, <2>2
<1>3. /\ PlaceInv' /\ OneChanger'
      /\ \A b : Resetting(b)' <=> Resetting(b) /\ b # o
      /\ \A v \in Users : v # u /\ doing[v].at \in ChangePlaces => Object(v) # o
  BY <1>0, <1>2, SoleChanger DEF ChangePlaces
<1>4. SocketTypeOK'
  BY <1>0, <1>1, <1>2 DEF SocketInv, SocketTypeOK
<1>5. ~Resetting(o)
  BY <1>0 DEF Resetting, Calling, SocketInv, OneChanger, ChangePlaces
<1>6. OwnInv'
  BY <1>0, <1>1, <1>3, <1>5 DEF SocketInv, OwnInv
<1>7. ChangeInv'
  <2>1. -1 \notin Fds
    BY FdsAssumption
  <2> QED
    BY <1>0, <1>2, <2>1 DEF SocketInv, ChangeInv, Object
<1>8. SendInv'
  BY <1>1, <1>2 DEF SocketInv, SendInv, Calling, Object
<1> QED
  BY <1>3, <1>4, <1>6, <1>7, <1>8 DEF SocketInv

LEMMA ChangeSteps ==
  ASSUME SocketInv, NEW u \in Users, ChangeStep(u)
  PROVE  SocketInv'
BY CloseSteps, OpenSteps, BindSteps DEF ChangeStep

\* setsockopt() comes with the next bind().
LEMMA ReuseSteps ==
  ASSUME SocketInv, NEW u \in Users, NEW o \in Objects, NEW onoff \in BOOLEAN,
         EnableReuse(u, o, onoff)
  PROVE  SocketInv'
<1>1. UNCHANGED <<sockfd, fds, doing>>
  BY DEF EnableReuse
<1>2. reuseaddrflag' \in [Objects -> BOOLEAN]
  BY DEF EnableReuse, SocketInv, SocketTypeOK
<1> QED
  BY <1>1, <1>2
  DEF SocketInv, SocketTypeOK, PlaceInv, OneChanger, OwnInv, ChangeInv, SendInv, Resetting,
      Calling, Object

LEMMA SocketSteps == SocketInv /\ [SocketProgramsNext]_allVars => SocketInv'
<1> SUFFICES ASSUME SocketInv, [SocketProgramsNext]_allVars PROVE SocketInv'
  OBVIOUS
<1>1. ASSUME UNCHANGED socketVars PROVE SocketInv'
  BY <1>1
  DEF socketVars, SocketInv, SocketTypeOK, PlaceInv, OneChanger, OwnInv, ChangeInv, SendInv,
      Resetting, Calling, Object
<1>2. CASE ThreadsStep
  <2>1. Calls \subseteq Changing /\ Ports \cup {0} \subseteq Nat
    BY PortsAssumption DEF Calls, Changing
  <2> QED
    BY <1>2, <2>1, ChangeSteps, SendSteps, ReuseSteps, ChangeStarts DEF ThreadsStep
<1>3. CASE ProxyStep
  <2>1. CASE CallBind
    <3>1. PICK port \in LocalPorts : StartChange(MainThread, Sock, "bind", port)
      BY <2>1 DEF CallBind
    <3>2. port \in Nat /\ MainThread \in Users /\ Sock \in Objects /\ "bind" \in Changing
      BY ProxyAssumption, PortsAssumption DEF Changing
    <3> QED
      BY <3>1, <3>2, ChangeStarts
  <2>2. CASE ChangeStep(MainThread)
    BY <2>2, ChangeSteps, ProxyAssumption
  <2>3. CASE ~CallBind /\ ~ChangeStep(MainThread)
    <3>1. UNCHANGED socketVars
      BY <1>3, <2>3
      DEF ProxyStep, PeerSends, NetworkDelivers, NetworkLoses, BindReturned, Receive,
          ReceiveFails, SendBack
    <3> QED
      BY <1>1, <3>1
  <2> QED
    BY <2>1, <2>2, <2>3
<1>4. CASE UNCHANGED allVars
  BY <1>1, <1>4 DEF allVars
<1> QED
  BY <1>1, <1>2, <1>3, <1>4 DEF SocketProgramsNext

LEMMA SocketInductive == SocketProgramsSpec => []SocketInv
<1>1. SocketProgramsInit => SocketInv
  BY SocketInitial DEF SocketProgramsInit
<1> QED
  BY <1>1, SocketSteps, PTL DEF SocketProgramsSpec

\* No descriptor is lost, closed twice or shared by two objects, whatever is opened,
\* bound and closed, by however many threads: an object that no call is changing owns
\* the descriptor whose number it keeps.
THEOREM DescriptorsStayOwned == SocketProgramsSpec => []DescriptorsOwned
<1>1. SocketInv => DescriptorsOwned
  <2> SUFFICES ASSUME SocketInv, NEW o \in Objects, Changer(o) = {}
               PROVE  {f \in Fds : fds[f].owner = o} = {sockfd[o]} \ {-1}
    BY DEF DescriptorsOwned
  <2>1. ~Resetting(o)
    BY DEF Resetting, Calling, Changer, SocketInv, PlaceInv, ChangePlaces
  <2>2. \A f \in Fds : fds[f].owner = o <=> sockfd[o] = f
    BY <2>1 DEF SocketInv, OwnInv
  <2>3. sockfd[o] \in Fds \cup {-1} /\ -1 \notin Fds
    BY FdsAssumption DEF SocketInv, SocketTypeOK
  <2> QED
    BY <2>2, <2>3
<1> QED
  BY <1>1, SocketInductive, PTL

\* A send leaves on a descriptor of another object only if a close() of its own
\* object overlaps it, whose number the system has given away since.
THEOREM StrayNeedsClose == SocketProgramsSpec => []StrayOnlyWhileClosing
<1>1. SocketInv => StrayOnlyWhileClosing
  BY DEF SocketInv, SendInv, StrayOnlyWhileClosing, Leaves
<1> QED
  BY <1>1, SocketInductive, PTL

-----------------------------------------------------------------------------
(* The proxy.                                                              *)

\* The datagrams the proxy has sent bytes of back, and those it has yet to receive.
Echoed == {d \in Nat : \E i \in 1 .. Len(echoes) :
             echoes[i].bytes # <<>> /\ echoes[i].bytes[1] = d}
Queued == {d \in Nat : \E i \in 1 .. Len(queue) : queue[i] = d}

ProxyTypeOK ==
  /\ sent \in Seq([from : Peers, size : Sizes])
  /\ net \subseteq 1 .. Len(sent)
  /\ queue \in Seq(Nat)
  /\ rxBuffer \in [1 .. BufferSize -> Nat]
  /\ iBytes \in Int

\* The datagram between recvfrom() and sendto(): the part of the buffer that is sent
\* back is filled with it.
InHand(d) ==
  /\ fromAddr = sent[d].from /\ iBytes = Taken(d)
  /\ \A i \in 1 .. iBytes : rxBuffer[i] = d

\* A datagram is under way, queued, in hand or sent back, and only one of these.
OncePerDatagram ==
  /\ Queued \subseteq 1 .. Len(sent)
  /\ net \cap Queued = {} /\ (net \cup Queued) \cap Echoed = {}
  /\ \A i, j \in 1 .. Len(queue) : queue[i] = queue[j] => i = j
  /\ at = "send" /\ iBytes # -1 =>
       \E d \in (1 .. Len(sent)) \ (net \cup Queued \cup Echoed) : InHand(d)

EchoInv ==
  /\ echoes \in Seq([to : Peers, bytes : Seq(Nat)])
  /\ \A i \in 1 .. Len(echoes) : \E d \in 1 .. Len(sent) : echoes[i] = EchoOf(d)
  /\ \A i, j \in 1 .. Len(echoes) :
       /\ echoes[i].bytes # <<>> /\ echoes[j].bytes # <<>>
       /\ echoes[i].bytes[1] = echoes[j].bytes[1]
       => i = j

ProxyInv == ProxyTypeOK /\ OncePerDatagram /\ EchoInv

\* As many bytes of a datagram as the buffer takes.
LEMMA TakenType ==
  ASSUME ProxyTypeOK, NEW d \in 1 .. Len(sent)
  PROVE  Taken(d) \in 0 .. BufferSize
<1>1. sent[d].size \in Nat /\ BufferSize \in Nat
  <2>1. sent[d] \in [from : Peers, size : Sizes]
    BY ElementOfSeq DEF ProxyTypeOK
  <2> QED
    BY <2>1, ProxyAssumption
<1> DEFINE S == {sent[d].size, BufferSize}
<1>2. S \in SUBSET Nat /\ S # {} /\ BufferSize \in S
  BY <1>1
<1> HIDE DEF S
<1>3. \E m \in S : \A k \in S : m <= k
  BY <1>2, LeastMember
<1>4. Min(S) \in S /\ \A k \in S : Min(S) <= k
  BY <1>3, Zenon DEF Min
<1>5. Min(S) \in Nat /\ Min(S) <= BufferSize
  BY <1>2, <1>4
<1>6. Taken(d) = Min(S)
  BY DEF Taken, S
<1> QED
  BY <1>1, <1>5, <1>6

\* A sequence of n equal bytes.
LEMMA EqualBytes ==
  ASSUME NEW n \in Nat, NEW d \in Nat, NEW b, b = [i \in 1 .. n |-> d]
  PROVE  /\ b \in Seq(Nat) /\ Len(b) = n
         /\ b # <<>> <=> n > 0
         /\ b # <<>> => b[1] = d
<1>1. b \in Seq(Nat) /\ Len(b) = n
  BY SeqDef
<1>2. b # <<>> => n > 0 /\ b[1] = d
  BY <1>1, EmptySeq
<1>3. n > 0 => b # <<>>
  BY <1>1, EmptySeq
<1> QED
  BY <1>1, <1>2, <1>3

\* What is sent back of a datagram begins with its first byte.
LEMMA EchoBytes ==
  ASSUME ProxyTypeOK, NEW d \in 1 .. Len(sent)
  PROVE  /\ EchoOf(d) \in [to : Peers, bytes : Seq(Nat)]
         /\ EchoOf(d).bytes # <<>> => EchoOf(d).bytes[1] = d
<1> DEFINE b == [i \in 1 .. Taken(d) |-> d]
<1>1. Taken(d) \in Nat /\ d \in Nat /\ sent[d].from \in Peers
  <2>1. sent[d] \in [from : Peers, size : Sizes]
    BY ElementOfSeq DEF ProxyTypeOK
  <2> QED
    BY <2>1, TakenType
<1>2. b \in Seq(Nat) /\ (b # <<>> => b[1] = d)
  BY <1>1, EqualBytes
<1>3. EchoOf(d) = [to |-> sent[d].from, bytes |-> b]
  BY DEF EchoOf
<1> HIDE DEF b
<1> QED
  BY <1>1, <1>2, <1>3

LEMMA EchoedWasSent ==
  ASSUME ProxyInv
  PROVE  Echoed \subseteq 1 .. Len(sent)
<1> SUFFICES ASSUME NEW d \in Echoed PROVE d \in 1 .. Len(sent)
  OBVIOUS
<1>1. PICK i \in 1 .. Len(echoes) : echoes[i].bytes # <<>> /\ echoes[i].bytes[1] = d
  BY DEF Echoed
<1>2. PICK e \in 1 .. Len(sent) : echoes[i] = EchoOf(e)
  BY DEF ProxyInv, EchoInv
<1> QED
  BY <1>1, <1>2, EchoBytes DEF ProxyInv

LEMMA ProxyInitial == ProxyInit => ProxyInv
<1> SUFFICES ASSUME ProxyInit PROVE ProxyInv
  OBVIOUS
<1>1. ProxyTypeOK
  BY ProxyAssumption DEF ProxyInit, ProxyTypeOK
<1>2. OncePerDatagram
  BY DEF ProxyInit, OncePerDatagram, Queued, Echoed
<1>3. EchoInv
  BY DEF ProxyInit, EchoInv
<1> QED
  BY <1>1, <1>2, <1>3 DEF ProxyInv

\* Steps that leave what was sent and what was sent back alone.
LEMMA EchoesKept ==
  ASSUME ProxyInv, UNCHANGED <<sent, echoes>>
  PROVE  EchoInv'
BY DEF ProxyInv, EchoInv, EchoOf, Taken

LEMMA PeerSteps ==
  ASSUME ProxyInv, NEW p \in Peers, NEW size \in Sizes, PeerSends(p, size)
  PROVE  ProxyInv'
<1> DEFINE R == [from : Peers, size : Sizes]
           r == [from |-> p, size |-> size]
<1>1. sent \in Seq(R) /\ r \in R /\ sent' = Append(sent, r)
  BY DEF ProxyInv, ProxyTypeOK, PeerSends
<1>2. UNCHANGED <<queue, at, rxBuffer, fromAddr, iBytes, echoes>>
  BY DEF PeerSends
<1> HIDE DEF R, r
<1>3. /\ sent' \in Seq(R) /\ Len(sent') = Len(sent) + 1 /\ Len(sent) \in Nat
      /\ \A d \in 1 .. Len(sent) : sent'[d] = sent[d]
  BY <1>1, AppendProperties, LenProperties
<1>4. net' = net \cup {Len(sent) + 1} /\ Len(sent) + 1 \notin 1 .. Len(sent)
  BY <1>3 DEF PeerSends
<1>5. Queued' = Queued /\ Echoed' = Echoed
  BY <1>2 DEF Queued, Echoed
<1>6. \A d \in 1 .. Len(sent) : EchoOf(d)' = EchoOf(d)
  BY <1>3 DEF EchoOf, Taken
<1>7. /\ Queued \cup Echoed \subseteq 1 .. Len(sent)
      /\ 1 .. Len(sent) \subseteq 1 .. Len(sent')
  <2>1. Queued \cup Echoed \subseteq 1 .. Len(sent)
    BY EchoedWasSent DEF ProxyInv, OncePerDatagram
  <2>2. \A k \in Nat : 1 .. k \subseteq 1 .. (k + 1)
    OBVIOUS
  <2> QED
    BY <1>3, <2>1, <2>2
<1>8. ProxyTypeOK'
  <2>1. net' \subseteq 1 .. Len(sent')
    <3>1. net \subseteq 1 .. Len(sent)
      BY DEF ProxyInv, ProxyTypeOK
    <3>2. Len(sent) + 1 \in 1 .. Len(sent')
      BY <1>3
    <3> QED
      BY <1>4, <1>7, <3>1, <3>2
  <2> QED
    BY <1>2, <1>3, <2>1 DEF ProxyInv, ProxyTypeOK, R
<1>9. OncePerDatagram'
  <2>1. /\ Queued \subseteq 1 .. Len(sent')
        /\ net' \cap Queued = {} /\ (net' \cup Queued) \cap Echoed = {}
    BY <1>4, <1>7 DEF ProxyInv, OncePerDatagram
  <2>2. ASSUME at = "send", iBytes # -1
        PROVE  \E d \in (1 .. Len(sent')) \ (net' \cup Queued \cup Echoed) : InHand(d)'
    <3>1. PICK d \in (1 .. Len(sent)) \ (net \cup Queued \cup Echoed) : InHand(d)
      BY <2>2 DEF ProxyInv, OncePerDatagram
    <3>2. d \in (1 .. Len(sent')) \ (net' \cup Queued \cup Echoed)
      BY <1>4, <1>7, <3>1
    <3>3. InHand(d)'
      BY <1>2, <1>3, <3>1 DEF InHand, Taken
    <3> QED
      BY <3>2, <3>3
  <2> QED
    BY <1>2, <1>5, <2>1, <2>2 DEF ProxyInv, OncePerDatagram
<1>10. EchoInv'
  <2>1. ASSUME NEW i \in 1 .. Len(echoes)
        PROVE  \E d \in 1 .. Len(sent') : echoes[i] = EchoOf(d)'
    <3>1. PICK d \in 1 .. Len(sent) : echoes[i] = EchoOf(d)
      BY DEF ProxyInv, EchoInv
    <3> QED
      BY <1>6, <1>7, <3>1
  <2> QED
    BY <1>2, <2>1 DEF ProxyInv, EchoInv
<1> QED
  BY <1>8, <1>9, <1>10 DEF ProxyInv

\* Delivery only moves a datagram into the queue, or drops it.
LEMMA NetworkSteps ==
  ASSUME ProxyInv, NEW d \in net, NetworkDelivers(d) \/ NetworkLoses(d)
  PROVE  ProxyInv'
<1>1. /\ UNCHANGED <<sent, at, rxBuffer, fromAddr, iBytes, echoes>>
      /\ net' = net \ {d}
      /\ queue' = queue \/ queue' = Append(queue, d)
  BY DEF NetworkDelivers, NetworkLoses
<1>2. d \in 1 .. Len(sent) /\ d \in Nat /\ queue \in Seq(Nat) /\ net \subseteq 1 .. Len(sent)
  BY DEF ProxyInv, ProxyTypeOK
<1>3. /\ queue' \in Seq(Nat)
      /\ Queued' \subseteq Queued \cup {d}
      /\ \A i, j \in 1 .. Len(queue') : queue'[i] = queue'[j] => i = j
  <2>1. CASE queue' = queue
    BY <1>2, <2>1 DEF Queued, ProxyInv, OncePerDatagram
  <2>2. CASE queue' = Append(queue, d)
    <3>1. /\ queue' \in Seq(Nat) /\ Len(queue') = Len(queue) + 1 /\ Len(queue) \in Nat
          /\ queue'[Len(queue) + 1] = d
          /\ \A i \in 1 .. Len(queue) : queue'[i] = queue[i]
      BY <1>2, <2>2, AppendProperties, LenProperties
    <3>2. \A i \in 1 .. Len(queue') : i = Len(queue) + 1 \/ i \in 1 .. Len(queue)
      BY <3>1
    <3>3. \A i \in 1 .. Len(queue) : queue[i] # d
      BY <1>2 DEF ProxyInv, OncePerDatagram, Queued
    <3> QED
      BY <3>1, <3>2, <3>3 DEF Queued, ProxyInv, OncePerDatagram
  <2> QED
    BY <1>1, <2>1, <2>2
<1>4. Echoed' = Echoed
  BY <1>1 DEF Echoed
<1>5. ProxyTypeOK'
  BY <1>1, <1>3 DEF ProxyInv, ProxyTypeOK
<1>6. OncePerDatagram'
  <2>1. /\ Queued' \subseteq 1 .. Len(sent')
        /\ net' \cap Queued' = {} /\ (net' \cup Queued') \cap Echoed' = {}
    <3>1. /\ Queued \subseteq 1 .. Len(sent)
          /\ net \cap Queued = {} /\ (net \cup Queued) \cap Echoed = {}
      BY DEF ProxyInv, OncePerDatagram
    <3>2. /\ Len(sent') = Len(sent) /\ net' = net \ {d} /\ Echoed' = Echoed
          /\ Queued' \subseteq Queued \cup {d} /\ d \in 1 .. Len(sent)
      BY <1>1, <1>2, <1>3, <1>4
    <3> QED
      BY <3>1, <3>2, Zenon
  <2>2. ASSUME at' = "send", iBytes' # -1
        PROVE  \E e \in (1 .. Len(sent')) \ (net' \cup Queued' \cup Echoed') : InHand(e)'
    <3>1. PICK e \in (1 .. Len(sent)) \ (net \cup Queued \cup Echoed) : InHand(e)
      BY <1>1, <2>2 DEF ProxyInv, OncePerDatagram
    <3>2. e \in (1 .. Len(sent')) \ (net' \cup Queued' \cup Echoed')
      BY <1>1, <1>3, <1>4, <3>1
    <3>3. InHand(e)'
      BY <1>1, <3>1 DEF InHand, Taken
    <3> QED
      BY <3>2, <3>3
  <2> QED
    BY <1>3, <2>1, <2>2 DEF OncePerDatagram
<1>7. EchoInv'
  BY <1>1, EchoesKept
<1> QED
  BY <1>5, <1>6, <1>7 DEF ProxyInv

\* recvfrom() takes the first datagram of the queue into the buffer.
LEMMA ReceiveSteps ==
  ASSUME ProxyInv, Receive
  PROVE  ProxyInv'
<1>0. PICK d : d = Head(queue)
  OBVIOUS
<1>1. /\ queue \in Seq(Nat) /\ queue # <<>> /\ UNCHANGED <<sent, net, echoes>>
      /\ iBytes' = Taken(d) /\ fromAddr' = sent[d].from
      /\ rxBuffer' = [i \in 1..BufferSize |-> IF i <= Taken(d) THEN d ELSE rxBuffer[i]]
      /\ queue' = Tail(queue) /\ at' = "send"
  BY <1>0 DEF Receive, ProxyInv, ProxyTypeOK
<1>2. /\ Len(queue) \in Nat \ {0} /\ d = queue[1] /\ d \in Nat
      /\ queue' \in Seq(Nat) /\ Len(queue') = Len(queue) - 1
      /\ \A i \in 1 .. Len(queue') : queue'[i] = queue[i + 1]
  BY <1>0, <1>1, EmptySeq, HeadTailProperties
<1>3. d \in Queued
  BY <1>2 DEF Queued
<1>4. d \in 1 .. Len(sent) /\ d \notin net /\ d \notin Echoed
  BY <1>3 DEF ProxyInv, OncePerDatagram
<1>5. \A i \in 1 .. Len(queue') : i + 1 \in 2 .. Len(queue) /\ i + 1 \in 1 .. Len(queue)
  BY <1>2
<1>6. \A i, j \in 1 .. Len(queue) : queue[i] = queue[j] => i = j
  BY DEF ProxyInv, OncePerDatagram
<1>7. Queued' \subseteq Queued \ {d} /\ Echoed' = Echoed
  <2>1. 1 \in 1 .. Len(queue)
    BY <1>2
  <2>2. \A i \in 1 .. Len(queue') : queue'[i] # d
    BY <1>2, <1>5, <1>6, <2>1
  <2> QED
    BY <1>1, <1>2, <1>5, <2>2 DEF Queued, Echoed
<1>8. \A i, j \in 1 .. Len(queue') : queue'[i] = queue'[j] => i = j
  <2> SUFFICES ASSUME NEW i \in 1 .. Len(queue'), NEW j \in 1 .. Len(queue'),
                      queue'[i] = queue'[j]
               PROVE  i = j
    OBVIOUS
  <2>1. i + 1 = j + 1
    BY <1>2, <1>5, <1>6
  <2> QED
    BY <1>2, <2>1
<1>9. Taken(d) \in 0 .. BufferSize /\ BufferSize \in Nat
  BY <1>4, TakenType, ProxyAssumption DEF ProxyInv
<1>10. ProxyTypeOK'
  BY <1>1, <1>2, <1>9 DEF ProxyInv, ProxyTypeOK
<1>11. InHand(d)'
  <2>1. sent'[d] = sent[d] /\ Taken(d)' = Taken(d)
    BY <1>1 DEF Taken
  <2>2. \A i \in 1 .. Taken(d) : rxBuffer'[i] = d
    BY <1>1, <1>9
  <2> QED
    BY <1>1, <2>1, <2>2 DEF InHand
<1>12. OncePerDatagram'
  <2>1. /\ Queued' \subseteq 1 .. Len(sent')
        /\ net' \cap Queued' = {} /\ (net' \cup Queued') \cap Echoed' = {}
    BY <1>1, <1>7 DEF ProxyInv, OncePerDatagram
  <2>2. d \in (1 .. Len(sent')) \ (net' \cup Queued' \cup Echoed')
    BY <1>1, <1>4, <1>7
  <2>3. \E e \in (1 .. Len(sent')) \ (net' \cup Queued' \cup Echoed') : InHand(e)'
    BY <1>11, <2>2
  <2> QED
    BY <1>8, <2>1, <2>3 DEF OncePerDatagram
<1>13. EchoInv'
  BY <1>1, EchoesKept
<1> QED
  BY <1>10, <1>12, <1>13 DEF ProxyInv

\* sendto() sends back what is in hand, and no datagram is twice in hand.
LEMMA SendBackSteps ==
  ASSUME ProxyInv, SendBack
  PROVE  ProxyInv'
<1>1. /\ at = "send" /\ at' = "recv"
      /\ UNCHANGED <<sent, net, queue, rxBuffer, fromAddr, iBytes>>
      /\ Queued' = Queued
  BY DEF SendBack, Queued
<1>2. ProxyTypeOK'
  BY <1>1 DEF ProxyInv, ProxyTypeOK
<1>3. CASE iBytes = -1
  <2>1. echoes' = echoes /\ Echoed' = Echoed
    BY <1>3 DEF SendBack, Echoed
  <2>2. OncePerDatagram'
    BY <1>1, <2>1 DEF ProxyInv, OncePerDatagram
  <2> QED
    BY <1>1, <1>2, <2>1, <2>2, EchoesKept DEF ProxyInv
<1>4. CASE iBytes # -1
  <2>1. PICK d \in (1 .. Len(sent)) \ (net \cup Queued \cup Echoed) : InHand(d)
    BY <1>1, <1>4 DEF ProxyInv, OncePerDatagram
  <2> DEFINE e == EchoOf(d)
             E == [to : Peers, bytes : Seq(Nat)]
  <2>2. e \in E /\ (e.bytes # <<>> => e.bytes[1] = d)
    BY EchoBytes DEF ProxyInv
  <2>3. echoes' = Append(echoes, e)
    <3>1. [i \in 1 .. iBytes |-> rxBuffer[i]] = [i \in 1 .. Taken(d) |-> d]
      BY <2>1 DEF InHand
    <3> QED
      BY <1>4, <2>1, <3>1 DEF SendBack, Echo, EchoOf, InHand
  <2> HIDE DEF e
  <2>4. echoes \in Seq(E) /\ e \in E
    BY <2>2 DEF ProxyInv, EchoInv
  <2> HIDE DEF E
  <2>5. /\ echoes' \in Seq(E) /\ Len(echoes') = Len(echoes) + 1 /\ Len(echoes) \in Nat
        /\ echoes'[Len(echoes) + 1] = e
        /\ \A i \in 1 .. Len(echoes) : echoes'[i] = echoes[i]
    BY <2>3, <2>4, AppendProperties, LenProperties
  <2>6. \A i \in 1 .. Len(echoes') : i = Len(echoes) + 1 \/ i \in 1 .. Len(echoes)
    BY <2>5
  <2>7. Echoed' \subseteq Echoed \cup {d}
    BY <2>2, <2>5, <2>6 DEF Echoed
  <2>8. OncePerDatagram'
    BY <1>1, <2>1, <2>7 DEF ProxyInv, OncePerDatagram
  <2>9. EchoInv'
    <3>1. ASSUME NEW i \in 1 .. Len(echoes')
          PROVE  \E f \in 1 .. Len(sent') : echoes'[i] = EchoOf(f)'
      <4>1. \A f : EchoOf(f)' = EchoOf(f)
        BY <1>1 DEF EchoOf, Taken
      <4>2. CASE i = Len(echoes) + 1
        BY <1>1, <2>5, <4>1, <4>2 DEF e
      <4>3. CASE i \in 1 .. Len(echoes)
        BY <1>1, <2>5, <4>1, <4>3 DEF ProxyInv, EchoInv
      <4> QED
        BY <2>6, <4>2, <4>3
    <3>2. ASSUME NEW i \in 1 .. Len(echoes), echoes[i].bytes # <<>>
          PROVE  echoes[i].bytes[1] # d
      <4>1. d \in Nat /\ d \notin Echoed
        BY <2>1
      <4> QED
        BY <3>2, <4>1 DEF Echoed
    <3>3. ASSUME NEW i \in 1 .. Len(echoes'), NEW j \in 1 .. Len(echoes'),
                 echoes'[i].bytes # <<>>, echoes'[j].bytes # <<>>,
                 echoes'[i].bytes[1] = echoes'[j].bytes[1]
          PROVE  i = j
      <4>1. CASE i \in 1 .. Len(echoes) /\ j \in 1 .. Len(echoes)
        BY <2>5, <3>3, <4>1 DEF ProxyInv, EchoInv
      <4>2. CASE i = Len(echoes) + 1 /\ j \in 1 .. Len(echoes)
        BY <2>2, <2>5, <3>2, <3>3, <4>2
      <4>3. CASE i \in 1 .. Len(echoes) /\ j = Len(echoes) + 1
        BY <2>2, <2>5, <3>2, <3>3, <4>3
      <4> QED
        BY <2>6, <4>1, <4>2, <4>3
    <3> QED
      BY <2>5, <3>1, <3>3 DEF EchoInv, E
  <2> QED
    BY <1>2, <2>8, <2>9 DEF ProxyInv
<1> QED
  BY <1>3, <1>4

\* Steps that touch no datagram.
LEMMA OtherProxySteps ==
  ASSUME ProxyInv, UNCHANGED <<sent, net, queue, rxBuffer, echoes>>,
         \/ UNCHANGED <<at, fromAddr, iBytes>>
         \/ iBytes' = -1
         \/ at' # "send" /\ UNCHANGED iBytes
  PROVE  ProxyInv'
<1>1. Queued' = Queued /\ Echoed' = Echoed
  BY DEF Queued, Echoed
<1>2. ProxyTypeOK'
  BY DEF ProxyInv, ProxyTypeOK
<1>3. at' = "send" /\ iBytes' # -1 => UNCHANGED <<at, fromAddr, iBytes>>
  OBVIOUS
<1>4. UNCHANGED <<fromAddr, iBytes>> => \A d : InHand(d)' <=> InHand(d)
  BY DEF InHand, Taken
<1>5. OncePerDatagram'
  BY <1>1, <1>3, <1>4 DEF ProxyInv, OncePerDatagram
<1> QED
  BY <1>2, <1>5, EchoesKept DEF ProxyInv

LEMMA ProxySteps == ProxyInv /\ [SocketProgramsNext]_allVars => ProxyInv'
<1> SUFFICES ASSUME ProxyInv, [SocketProgramsNext]_allVars PROVE ProxyInv'
  OBVIOUS
<1>1. ASSUME UNCHANGED proxyVars PROVE ProxyInv'
  BY <1>1, OtherProxySteps DEF proxyVars
<1>2. CASE ProxyStep
  <2>1. CASE CallBind \/ BindReturned \/ ReceiveFails
    BY <2>1, OtherProxySteps DEF CallBind, BindReturned, ReceiveFails
  <2> QED
    BY <1>1, <1>2, <2>1, PeerSteps, NetworkSteps, ReceiveSteps, SendBackSteps DEF ProxyStep
<1> QED
  BY <1>1, <1>2 DEF SocketProgramsNext, allVars

LEMMA ProxyInductive == SocketProgramsSpec => []ProxyInv
<1>1. SocketProgramsInit => ProxyInv
  BY ProxyInitial DEF SocketProgramsInit
<1> QED
  BY <1>1, ProxySteps, PTL DEF SocketProgramsSpec

\* Whatever comes in between, and whether or not bind() succeeded, the proxy sends a
\* datagram back to its sender, cut to the buffer, and no bytes of it a second time.
THEOREM EchoesGoBack == SocketProgramsSpec => []EchoToSender
<1>1. ProxyInv => EchoToSender
  <2> SUFFICES ASSUME ProxyInv PROVE EchoToSender
    OBVIOUS
  <2>1. DOMAIN sent = 1 .. Len(sent) /\ DOMAIN echoes = 1 .. Len(echoes)
    BY LenProperties DEF ProxyInv, ProxyTypeOK, EchoInv
  <2>2. Range(echoes) \subseteq {EchoOf(d) : d \in DOMAIN sent}
    BY <2>1 DEF ProxyInv, EchoInv, Range
  <2>3. \A i, j \in DOMAIN echoes :
          echoes[i] = echoes[j] /\ echoes[i].bytes # <<>> => i = j
    BY <2>1 DEF ProxyInv, EchoInv
  <2> QED
    BY <2>2, <2>3 DEF EchoToSender
<1> QED
  BY <1>1, ProxyInductive, PTL

-----------------------------------------------------------------------------
(* Lines.                                                                  *)

Endings == {"full", "nothing", "CR", "LF"}
LinePlaces == UNION {Places(lines[i].text) : i \in 1 .. Len(lines)}
TextBytes == {p \in 1 .. consumed : stream[p] = "text"}
Consecutive(t) == \A i \in 1 .. (Len(t) - 1) : t[i + 1] = t[i] + 1

LineTypeOK ==
  /\ stream \in Seq({"CR", "LF", "text"}) /\ consumed \in Nat
  /\ reading \in BOOLEAN
  /\ text \in Seq(Nat) /\ lines \in Seq([text : Seq(Nat), why : Endings])

\* The buffer of a call that is running holds the text that was received last.
BufferInv ==
  /\ LinePlaces \cup Places(text) = TextBytes
  /\ Consecutive(text)
  /\ reading /\ text # <<>> => text[Len(text)] = consumed
  /\ reading => \A p \in LinePlaces, q \in Places(text) : p < q
  /\ ~reading => Places(text) \subseteq LinePlaces

\* The lines returned before it, and why.
LinesInv ==
  /\ \A i \in 1 .. Len(lines) : Consecutive(lines[i].text)
  /\ \A i \in 1 .. Len(lines) : \A j \in (i + 1) .. Len(lines) :
       \A p \in Places(lines[i].text), q \in Places(lines[j].text) : p < q
  /\ \A i \in 1 .. Len(lines) :
       lines[i].text # <<>> /\ lines[i].why \in {"CR", "LF"}
         => stream[lines[i].text[Len(lines[i].text)] + 1] = lines[i].why

LineInv == LineTypeOK /\ BufferInv /\ LinesInv

LEMMA LineInitial == LineInit => LineInv
<1> SUFFICES ASSUME LineInit PROVE LineInv
  OBVIOUS
<1>1. LineTypeOK
  <2>1. stream \in Seq({"CR", "LF", "text"})
    BY StreamsAssumption DEF LineInit
  <2>2. \A S : <<>> \in Seq(S)
    OBVIOUS
  <2> QED
    BY <2>1, <2>2 DEF LineInit, LineTypeOK
<1>2. Len(lines) = 0 /\ Len(text) = 0 /\ LinePlaces = {} /\ Places(text) = {}
  BY DEF LineInit, LinePlaces, Places
<1>3. BufferInv
  BY <1>2 DEF LineInit, BufferInv, TextBytes, Consecutive
<1>4. LinesInv
  BY <1>2 DEF LinesInv
<1> QED
  BY <1>1, <1>3, <1>4 DEF LineInv

\* One byte more.
LEMMA TextBytesGrow ==
  ASSUME LineInv, NEW byte, Arrives(byte), UNCHANGED stream
  PROVE  /\ consumed' = consumed + 1 /\ stream[consumed + 1] = byte
         /\ TextBytes' = TextBytes \cup {p \in {consumed + 1} : byte = "text"}
<1>1. consumed \in Nat /\ consumed' = consumed + 1 /\ stream[consumed + 1] = byte
  BY DEF Arrives, LineInv, LineTypeOK
<1>2. 1 .. (consumed + 1) = 1 .. consumed \cup {consumed + 1}
  BY <1>1
<1> QED
  BY <1>1, <1>2 DEF TextBytes

\* A new call of recvline() starts with an empty buffer.
LEMMA CallSteps ==
  ASSUME LineInv, NEW room, CallRecvLine(room)
  PROVE  LineInv'
<1>1. UNCHANGED <<stream, consumed, lines>> /\ text' = <<>> /\ reading' /\ ~reading
  BY DEF CallRecvLine
<1>2. Places(text') = {} /\ Len(text') = 0
  BY <1>1 DEF Places
<1>3. LineTypeOK'
  BY <1>1 DEF LineInv, LineTypeOK, CallRecvLine
<1>4. LinePlaces' = LinePlaces /\ TextBytes' = TextBytes
  BY <1>1 DEF LinePlaces, TextBytes
<1>5. BufferInv'
  BY <1>1, <1>2, <1>4 DEF LineInv, BufferInv, Consecutive
<1>6. LinesInv'
  BY <1>1 DEF LineInv, LinesInv
<1> QED
  BY <1>3, <1>5, <1>6 DEF LineInv

\* The buffer becomes a line.
LEMMA EndSteps ==
  ASSUME LineInv, reading, NEW why \in Endings, LineEnds(why),
         TextBytes' = TextBytes, consumed' \in Nat,
         why \in {"CR", "LF"} => stream[consumed + 1] = why
  PROVE  LineInv'
<1> DEFINE L == [text : Seq(Nat), why : Endings]
           l == [text |-> text, why |-> why]
<1>1. UNCHANGED <<stream, text>> /\ ~reading' /\ lines' = Append(lines, l)
  BY DEF LineEnds
<1>2. l \in L /\ l.text = text /\ l.why = why /\ lines \in Seq(L)
  BY DEF LineInv, LineTypeOK
<1> HIDE DEF L, l
<1>3. /\ lines' \in Seq(L) /\ Len(lines') = Len(lines) + 1 /\ Len(lines) \in Nat
      /\ lines'[Len(lines) + 1] = l
      /\ \A i \in 1 .. Len(lines) : lines'[i] = lines[i]
  BY <1>1, <1>2, AppendProperties, LenProperties
<1>4. \A i \in 1 .. Len(lines') : i = Len(lines) + 1 \/ i \in 1 .. Len(lines)
  BY <1>3
<1>5. \A i \in 1 .. Len(lines) : i \in 1 .. Len(lines') /\ Len(lines) + 1 \in 1 .. Len(lines')
  BY <1>3
<1>6. Len(lines) + 1 \in 1 .. Len(lines')
  BY <1>3
<1>7. LinePlaces' = LinePlaces \cup Places(text)
  BY <1>2, <1>3, <1>4, <1>5, <1>6 DEF LinePlaces
<1>8. LineTypeOK'
  BY <1>1, <1>3 DEF LineInv, LineTypeOK, LineEnds, L
<1>9. BufferInv'
  BY <1>1, <1>7 DEF LineInv, BufferInv, Consecutive, Places
<1>10. LinesInv'
  <2>1. ASSUME NEW i \in 1 .. Len(lines') PROVE Consecutive(lines'[i].text)
    BY <1>2, <1>3, <1>4 DEF LineInv, BufferInv, LinesInv
  <2>2. ASSUME NEW i \in 1 .. Len(lines'), NEW j \in (i + 1) .. Len(lines'),
               NEW p \in Places(lines'[i].text), NEW q \in Places(lines'[j].text)
        PROVE  p < q
    <3>1. i \in 1 .. Len(lines) /\ (j \in (i + 1) .. Len(lines) \/ j = Len(lines) + 1)
      BY <1>3
    <3>2. p \in Places(lines[i].text) /\ p \in LinePlaces
      BY <1>3, <3>1 DEF LinePlaces
    <3>3. CASE j \in (i + 1) .. Len(lines)
      BY <1>3, <3>1, <3>2, <3>3 DEF LineInv, LinesInv
    <3>4. CASE j = Len(lines) + 1
      BY <1>2, <1>3, <3>2, <3>4 DEF LineInv, BufferInv
    <3> QED
      BY <3>1, <3>3, <3>4
  <2>3. ASSUME NEW i \in 1 .. Len(lines'), lines'[i].text # <<>>,
               lines'[i].why \in {"CR", "LF"}
        PROVE  stream[lines'[i].text[Len(lines'[i].text)] + 1] = lines'[i].why
    <3>1. CASE i \in 1 .. Len(lines)
      BY <1>3, <2>3, <3>1 DEF LineInv, LinesInv
    <3>2. CASE i = Len(lines) + 1
      BY <1>2, <1>3, <2>3, <3>2 DEF LineInv, BufferInv
    <3> QED
      BY <1>4, <3>1, <3>2
  <2> QED
    BY <1>1, <2>1, <2>2, <2>3 DEF LinesInv, Consecutive
<1> QED
  BY <1>8, <1>9, <1>10 DEF LineInv

\* A byte of text goes behind those in the buffer.
LEMMA TextSteps ==
  ASSUME LineInv, RecvText
  PROVE  LineInv'
<1>1. /\ UNCHANGED <<stream, reading, lines>> /\ reading /\ Arrives("text")
      /\ text \in Seq(Nat) /\ consumed \in Nat
  BY DEF RecvText, Arrives, LineInv, LineTypeOK
<1>2. consumed' = consumed + 1 /\ TextBytes' = TextBytes \cup {consumed + 1}
  BY <1>1, TextBytesGrow
<1>3. text' = Append(text, consumed + 1) /\ consumed + 1 \in Nat
  BY <1>1, <1>2 DEF RecvText
<1>4. /\ text' \in Seq(Nat) /\ Len(text') = Len(text) + 1 /\ Len(text) \in Nat
      /\ text'[Len(text) + 1] = consumed + 1
      /\ \A i \in 1 .. Len(text) : text'[i] = text[i]
  BY <1>1, <1>3, AppendProperties, LenProperties
<1>5. /\ 1 .. Len(text') = 1 .. Len(text) \cup {Len(text) + 1}
      /\ DOMAIN text' = 1 .. Len(text') /\ DOMAIN text = 1 .. Len(text)
  BY <1>1, <1>4, LenProperties
<1>6. Places(text') = Places(text) \cup {consumed + 1}
  BY <1>4, <1>5 DEF Places
<1>7. LinePlaces' = LinePlaces
  BY <1>1 DEF LinePlaces
<1>8. Consecutive(text')
  <2> SUFFICES ASSUME NEW i \in 1 .. (Len(text') - 1) PROVE text'[i + 1] = text'[i] + 1
    BY DEF Consecutive
  <2>1. i \in 1 .. Len(text)
    BY <1>4
  <2>2. CASE i + 1 \in 1 .. Len(text)
    <3>1. i \in 1 .. (Len(text) - 1)
      BY <1>4, <2>1, <2>2
    <3> QED
      BY <1>4, <2>1, <2>2, <3>1 DEF LineInv, BufferInv, Consecutive
  <2>3. CASE i = Len(text)
    <3>1. text # <<>>
      BY <1>1, <2>1, EmptySeq
    <3> QED
      BY <1>1, <1>4, <2>1, <2>3, <3>1 DEF LineInv, BufferInv
  <2> QED
    BY <1>4, <2>1, <2>2, <2>3
<1>9. \A p \in LinePlaces : p \in 1 .. consumed
  BY DEF LineInv, BufferInv, TextBytes
<1>10. BufferInv'
  <2>1. \A p \in LinePlaces, q \in Places(text') : p < q
    BY <1>1, <1>6, <1>9 DEF LineInv, BufferInv
  <2>2. LinePlaces \cup Places(text') = TextBytes'
    BY <1>2, <1>6 DEF LineInv, BufferInv
  <2> QED
    BY <1>1, <1>2, <1>4, <1>7, <1>8, <2>1, <2>2 DEF BufferInv, Consecutive, Places
<1>11. LineTypeOK'
  BY <1>1, <1>2, <1>4 DEF LineInv, LineTypeOK
<1>12. LinesInv'
  BY <1>1 DEF LineInv, LinesInv
<1> QED
  BY <1>10, <1>11, <1>12 DEF LineInv

LEMMA LineSteps == LineInv /\ [SocketProgramsNext]_allVars => LineInv'
<1> SUFFICES ASSUME LineInv, [SocketProgramsNext]_allVars PROVE LineInv'
  OBVIOUS
<1>1. ASSUME UNCHANGED <<stream, reading, text, lines>>,
             consumed' \in Nat, TextBytes' = TextBytes, consumed' = consumed \/ text = <<>>
      PROVE  LineInv'
  <2>1. LinePlaces' = LinePlaces
    BY <1>1 DEF LinePlaces
  <2> QED
    BY <1>1, <2>1 DEF LineInv, LineTypeOK, BufferInv, LinesInv, Consecutive, Places
<1>2. ASSUME UNCHANGED lineVars PROVE LineInv'
  BY <1>1, <1>2 DEF lineVars, TextBytes, LineInv, LineTypeOK
<1>3. CASE LineStep
  <2>1. CASE \E room \in Rooms : CallRecvLine(room)
    BY <2>1, CallSteps
  <2>2. CASE BufferFull \/ RecvNothing
    <3>1. /\ reading /\ consumed' = consumed /\ stream' = stream
          /\ LineEnds("full") \/ LineEnds("nothing")
      BY <2>2 DEF BufferFull, RecvNothing, LineEnds
    <3>2. TextBytes' = TextBytes /\ consumed' \in Nat
      BY <3>1 DEF TextBytes, LineInv, LineTypeOK
    <3> QED
      BY <3>1, <3>2, EndSteps DEF Endings
  <2>3. ASSUME NEW why \in {"CR", "LF"}, Arrives(why), LineEnds(why)
        PROVE  LineInv'
    <3>1. reading /\ UNCHANGED stream
      BY <2>3 DEF Arrives, LineEnds
    <3>2. consumed' = consumed + 1 /\ stream[consumed + 1] = why /\ TextBytes' = TextBytes
      BY <2>3, <3>1, TextBytesGrow
    <3> QED
      BY <2>3, <3>1, <3>2, EndSteps DEF Endings, LineInv, LineTypeOK
  <2>4. CASE RecvLF /\ text = <<>>
    <3>1. Arrives("LF") /\ UNCHANGED <<stream, reading, maxbytes, text, lines>>
      BY <2>4 DEF RecvLF
    <3>2. consumed' = consumed + 1 /\ TextBytes' = TextBytes
      BY <3>1, TextBytesGrow
    <3> QED
      BY <1>1, <2>4, <3>1, <3>2 DEF LineInv, LineTypeOK
  <2> QED
    BY <1>3, <2>1, <2>2, <2>3, <2>4, TextSteps DEF LineStep, RecvCR, RecvLF
<1> QED
  BY <1>2, <1>3 DEF SocketProgramsNext, allVars

LEMMA LineInductive == SocketProgramsSpec => []LineInv
<1>1. SocketProgramsInit => LineInv
  BY LineInitial DEF SocketProgramsInit
<1> QED
  BY <1>1, LineSteps, PTL DEF SocketProgramsSpec

\* recvline() loses and doubles no byte of text and runs no line across a line end,
\* whatever the stream, the rooms of the callers and the places where recv() has
\* nothing to give.
THEOREM LinesCarryTheText == SocketProgramsSpec => []LinesAsSent
<1>1. LineInv => LinesAsSent
  <2> SUFFICES ASSUME LineInv PROVE LinesAsSent
    OBVIOUS
  <2>1. DOMAIN lines = 1 .. Len(lines)
    BY LenProperties DEF LineInv, LineTypeOK
  <2>2. UNION {Places(t) : t \in Texts} = LinePlaces \cup Places(text)
    BY <2>1 DEF Texts, LinePlaces
  <2>3. \A t \in Texts : Consecutive(t)
    BY <2>1 DEF Texts, LineInv, BufferInv, LinesInv
  <2>4. \A i \in DOMAIN lines : lines[i].why \notin {"full", "nothing"}
                                  => lines[i].why \in {"CR", "LF"}
    <3>1. \A i \in 1 .. Len(lines) : lines[i] \in [text : Seq(Nat), why : Endings]
      BY ElementOfSeq DEF LineInv, LineTypeOK
    <3> QED
      BY <2>1, <3>1 DEF Endings
  <2> QED
    BY <2>1, <2>2, <2>3, <2>4
    DEF LinesAsSent, LineInv, BufferInv, LinesInv, TextBytes, Consecutive
<1> QED
  BY <1>1, LineInductive, PTL

=============================================================================
