---------------------------- MODULE HomebrewProxy ----------------------------
(***************************************************************************)
(* src/src/software/homebrewproxy/homebrewproxy.cpp: main() binds a UDP    *)
(* socket, without looking at the result, and sends every datagram back to *)
(* where it came from.  The network keeps no order and may lose datagrams. *)
(***************************************************************************)
EXTENDS Sockets, SequencesExt, FiniteSetsExt

CONSTANTS
  MainThread,  \* the proxy's thread
  Sock,        \* the proxy's socket object
  Peers,       \* the senders
  Sizes,       \* the sizes of their datagrams
  BufferSize,  \* sizeof rxBuffer
  LocalPorts,  \* the ports that option -lp may name
  MaxSends     \* bound: the datagrams sent to the proxy

ASSUME ProxyAssumption ==
  /\ MainThread \in Users /\ Sock \in Objects /\ LocalPorts \subseteq Ports
  /\ BufferSize \in Nat \ {0} /\ Sizes \subseteq Nat

VARIABLES
  sent,      \* the datagrams sent to the proxy, in order
  net,       \* those of them under way
  queue,     \* those the system holds for the proxy's socket
  at,        \* where main() is
  rxBuffer,  \* per byte: the datagram it came from, 0 for none yet
  fromAddr,  \* who the last datagram came from
  iBytes,    \* what recvfrom() returned
  echoes     \* what left the proxy: to whom, and the bytes

proxyVars == <<sent, net, queue, at, rxBuffer, fromAddr, iBytes, echoes>>

ProxyInit ==
  /\ sent = <<>> /\ net = {} /\ queue = <<>> /\ echoes = <<>>
  /\ at = "bind" /\ fromAddr = Nobody /\ iBytes = 0
  /\ rxBuffer = [i \in 1..BufferSize |-> 0]

\* The system takes datagrams for a socket that is bound.
Listening ==
  /\ sockfd[Sock] # -1
  /\ fds[sockfd[Sock]].owner = Sock /\ fds[sockfd[Sock]].port # 0

PeerSends(p, size) ==
  /\ Len(sent) < MaxSends
  /\ sent' = Append(sent, [from |-> p, size |-> size])
  /\ net' = net \cup {Len(sent')}
  /\ UNCHANGED <<queue, at, rxBuffer, fromAddr, iBytes, echoes, socketVars>>

NetworkDelivers(d) ==
  /\ d \in net
  /\ net' = net \ {d}
  /\ queue' = IF Listening THEN Append(queue, d) ELSE queue
  /\ UNCHANGED <<sent, at, rxBuffer, fromAddr, iBytes, echoes, socketVars>>

NetworkLoses(d) ==
  /\ d \in net
  /\ net' = net \ {d}
  /\ UNCHANGED <<sent, queue, at, rxBuffer, fromAddr, iBytes, echoes, socketVars>>

CallBind ==
  /\ at = "bind"
  /\ \E port \in LocalPorts : StartChange(MainThread, Sock, "bind", port)
  /\ at' = "binding"
  /\ UNCHANGED <<sent, net, queue, rxBuffer, fromAddr, iBytes, echoes>>

\* bind() has returned, and what it returned is not looked at.
BindReturned ==
  /\ at = "binding" /\ Calling(MainThread, "idle")
  /\ at' = "recv"
  /\ UNCHANGED <<sent, net, queue, rxBuffer, fromAddr, iBytes, echoes, socketVars>>

\* The bytes of a datagram that the buffer takes.
Taken(d) == Min({sent[d].size, BufferSize})

\* What does not fit into the buffer is lost; the rest of the buffer keeps its bytes.
Receive ==
  LET d == Head(queue)
      n == Taken(d)
  IN  /\ at = "recv" /\ queue # <<>>
      /\ iBytes' = n /\ fromAddr' = sent[d].from
      /\ rxBuffer' = [i \in 1..BufferSize |-> IF i <= n THEN d ELSE rxBuffer[i]]
      /\ queue' = Tail(queue) /\ at' = "send"
      /\ UNCHANGED <<sent, net, echoes, socketVars>>

\* Without a descriptor, and when a signal interrupts the call; fromAddr is a new one.
ReceiveFails ==
  /\ at = "recv"
  /\ iBytes' = -1 /\ fromAddr' = Nobody
  /\ at' = "send"
  /\ UNCHANGED <<sent, net, queue, rxBuffer, echoes, socketVars>>

Echo(n) ==
  echoes' = Append(echoes, [to |-> fromAddr, bytes |-> [i \in 1..n |-> rxBuffer[i]]])

\* Mutant: the whole buffer is sent back.
SendWholeBuffer ==
  /\ at = "send" /\ at' = "recv"
  /\ IF iBytes = -1 THEN UNCHANGED echoes ELSE Echo(BufferSize)
  /\ UNCHANGED <<sent, net, queue, rxBuffer, fromAddr, iBytes, socketVars>>

\* A datagram of -1 bytes is refused.
SendBack ==
  /\ at = "send" /\ at' = "recv"
  /\ IF iBytes = -1 THEN UNCHANGED echoes ELSE Echo(iBytes)
  /\ UNCHANGED <<sent, net, queue, rxBuffer, fromAddr, iBytes, socketVars>>

ProxyStep ==
  \/ \E p \in Peers, size \in Sizes : PeerSends(p, size)
  \/ \E d \in net : NetworkDelivers(d) \/ NetworkLoses(d)
  \/ CallBind \/ BindReturned \/ Receive \/ ReceiveFails \/ SendBack
  \/ ChangeStep(MainThread) /\ UNCHANGED proxyVars

-----------------------------------------------------------------------------
(* Properties.                                                             *)

EchoOf(d) == [to |-> sent[d].from, bytes |-> [i \in 1..Taken(d) |-> d]]

\* A sender gets its own datagrams back, as much of each as the buffer takes, and each
\* at most once: never a byte of a datagram that some other sender's left behind.
EchoToSender ==
  /\ Range(echoes) \subseteq {EchoOf(d) : d \in DOMAIN sent}
  /\ \A i, j \in DOMAIN echoes :
       echoes[i] = echoes[j] /\ echoes[i].bytes # <<>> => i = j
=============================================================================
