---------------------------- MODULE SocketPrograms ----------------------------
(***************************************************************************)
(* The uses of src/src/lib/socket/socketlib.cpp: threads that share its    *)
(* objects, the proxy, and a reader of lines.  A process is one of them.   *)
(***************************************************************************)
EXTENDS HomebrewProxy, TcpLine

VARIABLE program  \* the use that the process is

allVars == <<socketVars, proxyVars, lineVars, program>>

Calls == {"open", "close", "bind"}

\* Threads that open, close, bind and send, in any order.
ThreadsStep ==
  \/ \E u \in Users :
       \/ ChangeStep(u) \/ SendCall(u)
       \/ \E o \in Objects :
            \/ SendRead(u, o)
            \/ \E onoff \in BOOLEAN : EnableReuse(u, o, onoff)
            \/ \E call \in Calls, port \in Ports \cup {0} :
                 (call # "bind" => port = 0) /\ StartChange(u, o, call, port)

SocketProgramsInit ==
  /\ SocketInit /\ ProxyInit /\ LineInit
  /\ program \in {"threads", "proxy", "lines"}
  /\ program # "lines" => stream = <<>>
  /\ program # "threads" => reuseaddrflag = [o \in Objects |-> FALSE]

SocketProgramsNext ==
  /\ UNCHANGED program
  /\ \/ program = "threads" /\ ThreadsStep /\ UNCHANGED <<proxyVars, lineVars>>
     \/ program = "proxy" /\ ProxyStep /\ UNCHANGED lineVars
     \/ program = "lines" /\ LineStep /\ UNCHANGED <<socketVars, proxyVars>>

SocketProgramsSpec == SocketProgramsInit /\ [][SocketProgramsNext]_allVars
=============================================================================
