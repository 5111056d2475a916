--------------------------- MODULE MessageChannel ---------------------------
(***************************************************************************)
(* What the receive thread of DV4Mini promises about the messages of the   *)
(* stick.  They arrive in the order they were sent, each at most once and  *)
(* unchanged.  Only noise puts the parser out of step; then it may lose    *)
(* messages, and take for one what was none, until a message is received.  *)
(***************************************************************************)
EXTENDS Integers, Sequences

CONSTANTS Messages, Noise

VARIABLES
  underway, \* messages and noise sent, and not looked at to the last byte
  received, \* the messages handed to receiveCmd()
  astray    \* the last unit looked at was noise, or a message that was lost

Units == [kind : {"message"}, what : Messages] \cup [kind : {"noise"}, what : Noise]
IsMessage(u) == u.kind = "message"

Init == underway = <<>> /\ received = <<>> /\ astray = FALSE

Send(u) ==
  /\ underway' = Append(underway, u)
  /\ UNCHANGED <<received, astray>>

\* The next message arrives; the parser is in step behind it.
Receive ==
  /\ underway # <<>> /\ IsMessage(Head(underway))
  /\ underway' = Tail(underway)
  /\ received' = Append(received, Head(underway).what)
  /\ astray' = FALSE

\* The parser is out of step, or about to be.
OutOfStep == underway # <<>> /\ (astray \/ ~IsMessage(Head(underway)))

\* Something else is handed on.
Stray ==
  /\ Len(received') = Len(received) + 1
  /\ SubSeq(received', 1, Len(received)) = received

MisRead == OutOfStep /\ Stray /\ UNCHANGED <<underway, astray>>

\* Noise goes by, or a message is lost.
Lose ==
  /\ OutOfStep
  /\ underway' = Tail(underway) /\ astray' = TRUE
  /\ UNCHANGED received \/ Stray

Next == (\E u \in Units : Send(u)) \/ Receive \/ MisRead \/ Lose

Spec == Init /\ [][Next]_<<underway, received, astray>>
=============================================================================
