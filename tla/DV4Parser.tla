----------------------------- MODULE DV4Parser ------------------------------
(***************************************************************************)
(* How runReceiveThread() of src/src/lib/dv4mini/dv4mini.cpp finds the     *)
(* messages of the stick in the bytes of the serial line: a preamble of    *)
(* four bytes, the command, the number of parameter bytes, and those.      *)
(*                                                                         *)
(* The stick sends messages with any content, among them payload that      *)
(* looks like a preamble, and there may be noise between them: any bytes,  *)
(* such as what is left of a message.  read() cuts the line anywhere.      *)
(***************************************************************************)
EXTENDS Integers, Sequences

CONSTANTS
  CmdPreamble, \* the four bytes before each message
  Messages,    \* what the stick can send: [cmd, param]
  Noise,       \* what can be on the line between two messages
  BufferSize,  \* size of rxBuffer
  MaxUnits     \* bound: messages and pieces of noise sent in a behaviour

Byte == 0 .. 255

\* All bytes of a message.
Frame(m) == CmdPreamble \o <<m.cmd, Len(m.param)>> \o m.param

ASSUME PreambleAssumption == CmdPreamble \in Seq(Byte) /\ Len(CmdPreamble) = 4
ASSUME MessagesAssumption ==
  \A m \in Messages :
    m \in [cmd : Byte, param : Seq(Byte)] /\ Len(m.param) \in Byte
ASSUME NoiseAssumption == Noise \subseteq Seq(Byte) \ {<<>>}
ASSUME SizesAssumption == BufferSize \in Nat \ {0} /\ MaxUnits \in Nat

\* What the line carries, one after the other, and its bytes.
Units == [kind : {"message"}, what : Messages] \cup [kind : {"noise"}, what : Noise]
IsMessage(u) == u.kind = "message"
Bytes(u) == IF IsMessage(u) THEN Frame(u.what) ELSE u.what

VARIABLES
  line,     \* bytes sent and not read yet
  rxBuffer, \* bytes read and not looked at yet
  uIdx,     \* how many bytes of a message have been recognised
  iCmd,     \* the command of the message, when uIdx is beyond the preamble
  iLength,  \* the number of its parameter bytes, when uIdx is beyond that too
  param,    \* the part of paramBuffer that was filled for this message
  received, \* history: the messages handed to receiveCmd()
  stream,   \* history: all bytes looked at
  due,      \* history: the units sent, [unit, end], end the place in the
            \* stream of the unit's last byte
  passed,   \* history: how many units have been looked at to their last byte
  arrived   \* history: the places in due of the messages that were handed on,
            \* unchanged, at their last byte

parser == <<uIdx, iCmd, iLength, param>>
history == <<stream, due, passed, arrived>>
vars == <<line, rxBuffer, parser, received, history>>

Preamble == Len(CmdPreamble)

-----------------------------------------------------------------------------
(* The line.                                                               *)

\* Bytes that were sent, looked at or not.
BytesSent == Len(stream) + Len(rxBuffer) + Len(line)

Send(u) ==
  /\ Len(due) < MaxUnits
  /\ line' = line \o Bytes(u)
  /\ due' = Append(due, [unit |-> u, end |-> BytesSent + Len(Bytes(u))])
  /\ UNCHANGED <<rxBuffer, parser, received, stream, passed, arrived>>

SendMessage(m) == Send([kind |-> "message", what |-> m])
SendNoise(n) == Send([kind |-> "noise", what |-> n])

\* Mutant: the count of what is recognised is a local of one round of the loop.
ReadAnew ==
  /\ rxBuffer = <<>>
  /\ \E n \in 1 .. Len(line) :
       /\ n <= BufferSize
       /\ rxBuffer' = SubSeq(line, 1, n)
       /\ line' = SubSeq(line, n + 1, Len(line))
  /\ uIdx' = 0
  /\ UNCHANGED <<iCmd, iLength, param, received, history>>

\* One read(), of as many bytes as the system gives.
Read ==
  /\ rxBuffer = <<>>
  /\ \E n \in 1 .. Len(line) :
       /\ n <= BufferSize
       /\ rxBuffer' = SubSeq(line, 1, n)
       /\ line' = SubSeq(line, n + 1, Len(line))
  /\ UNCHANGED <<parser, received, history>>

-----------------------------------------------------------------------------
(* One round of the loop over rxBuffer.                                    *)

NextByte ==
  /\ rxBuffer # <<>>
  /\ rxBuffer' = Tail(rxBuffer)
  /\ stream' = Append(stream, Head(rxBuffer))
  /\ UNCHANGED <<line, due>>

\* receiveCmd(), and back to the search for a preamble.
Hand(c, p) ==
  /\ received' = Append(received, [cmd |-> c, param |-> p])
  /\ uIdx' = 0

\* Mutant: a byte that is not of the preamble is passed over.
NoReset(b) ==
  /\ uIdx < Preamble
  /\ uIdx' = IF b = CmdPreamble[uIdx + 1] THEN uIdx + 1 ELSE uIdx
  /\ UNCHANGED <<iCmd, iLength, param, received>>

\* A byte that does not fit starts the search anew; it is not tried as the first
\* byte of a preamble.
MatchPreamble(b) ==
  /\ uIdx < Preamble
  /\ uIdx' = IF b = CmdPreamble[uIdx + 1] THEN uIdx + 1 ELSE 0
  /\ UNCHANGED <<iCmd, iLength, param, received>>

TakeCmd(b) ==
  /\ uIdx = Preamble
  /\ iCmd' = b /\ uIdx' = uIdx + 1
  /\ UNCHANGED <<iLength, param, received>>

\* Mutant: a message without parameters is not seen to be complete.
WaitForParam(b) ==
  /\ uIdx = Preamble + 1
  /\ iLength' = b /\ param' = <<>> /\ uIdx' = uIdx + 1
  /\ UNCHANGED <<iCmd, received>>

TakeLength(b) ==
  /\ uIdx = Preamble + 1
  /\ iLength' = b /\ param' = <<>>
  /\ IF b = 0 THEN Hand(iCmd, <<>>)
              ELSE uIdx' = uIdx + 1 /\ UNCHANGED received
  /\ UNCHANGED iCmd

\* Mutant: the last byte is expected one place too late.
TakeParamLate(b) ==
  /\ uIdx >= Preamble + 2
  /\ param' = Append(param, b)
  /\ IF uIdx - Preamble - 2 >= iLength
       THEN Hand(iCmd, param')
       ELSE uIdx' = uIdx + 1 /\ UNCHANGED received
  /\ UNCHANGED <<iCmd, iLength>>

TakeParam(b) ==
  /\ uIdx >= Preamble + 2
  /\ param' = Append(param, b)
  /\ IF uIdx - Preamble - 2 >= iLength - 1
       THEN Hand(iCmd, param')
       ELSE uIdx' = uIdx + 1 /\ UNCHANGED received
  /\ UNCHANGED <<iCmd, iLength>>

\* The byte is the last one of a unit, and is handed on as the message it ends.
LastByte == due[passed + 1].end = Len(stream) + 1
Arrives ==
  /\ LastByte /\ IsMessage(due[passed + 1].unit)
  /\ received' = Append(received, due[passed + 1].unit.what)

Account ==
  /\ passed' = IF LastByte THEN passed + 1 ELSE passed
  /\ arrived' = IF Arrives THEN arrived \cup {passed + 1} ELSE arrived

Parse ==
  /\ NextByte
  /\ LET b == Head(rxBuffer)
     IN  MatchPreamble(b) \/ TakeCmd(b) \/ TakeLength(b) \/ TakeParam(b)
  /\ Account

-----------------------------------------------------------------------------
(* The specification.                                                      *)

\* Everything was sent and looked at, and the thread waits in read().
Quiet ==
  /\ Len(due) = MaxUnits /\ line = <<>> /\ rxBuffer = <<>>
  /\ UNCHANGED vars

\* The code leaves the locals other than uIdx unset and reads none before it has
\* written it.
Init ==
  /\ line = <<>> /\ rxBuffer = <<>>
  /\ uIdx = 0 /\ iCmd = 0 /\ iLength = 0 /\ param = <<>>
  /\ received = <<>>
  /\ stream = <<>> /\ due = <<>> /\ passed = 0 /\ arrived = {}

Next ==
  \/ \E m \in Messages : SendMessage(m)
  \/ \E n \in Noise : SendNoise(n)
  \/ Read
  \/ Parse
  \/ Quiet

Spec == Init /\ [][Next]_vars

-----------------------------------------------------------------------------
(* Properties.                                                             *)

\* The type invariant; paramBuffer, of 256 bytes, is not overrun: a message is
\* handed on as soon as it has all its parameters.
TypeOK ==
  /\ line \in Seq(Byte) /\ rxBuffer \in Seq(Byte) /\ stream \in Seq(Byte)
  /\ uIdx \in 0 .. 260
  /\ iCmd \in Byte /\ iLength \in Byte /\ param \in Seq(Byte)
  /\ uIdx > Preamble + 1 =>
       Len(param) = uIdx - Preamble - 2 /\ Len(param) < iLength
  /\ received \in Seq([cmd : Byte, param : Seq(Byte)])
  /\ due \in Seq([unit : Units, end : Nat])
  /\ passed \in Nat /\ arrived \subseteq 1 .. passed

\* What byte i of a message is, for what has been recognised of it.
Recognised(i) ==
  CASE i <= Preamble -> CmdPreamble[i]
    [] i = Preamble + 1 -> iCmd
    [] i = Preamble + 2 -> iLength
    [] OTHER -> param[i - Preamble - 2]

\* However read() cuts the line and whatever is on it, the bytes that count as
\* recognised are the last ones looked at, so every message that is handed on
\* stood on the line behind a preamble, in one piece.
RecognisedIsRead ==
  /\ uIdx <= Len(stream)
  /\ \A i \in 1 .. uIdx : stream[Len(stream) - uIdx + i] = Recognised(i)

\* The place on the line where unit i begins: the bytes before it.
Start(i) == IF i = 1 THEN 0 ELSE due[i - 1].end

\* The n bytes before place q look like the first bytes of a longer message.
ReadsAsBeginning(q) ==
  \E n \in 1 .. q :
    /\ \A i \in 1 .. n : i <= Preamble => stream[q - n + i] = CmdPreamble[i]
    /\ n > Preamble + 1 => n < Preamble + 2 + stream[q - n + Preamble + 2]

\* A message is lost only when what came right before it was noise or a message
\* that was lost itself, and only when the bytes before it look like the beginning
\* of another message.  The code does not try a byte that does not fit as the
\* first one of a preamble, so a piece of noise, or a lost message, that ends in
\* that byte costs the message behind it; one that was received never does.
LostOnlyOutOfStep ==
  \A i \in (1 .. passed) \ arrived :
    IsMessage(due[i].unit) =>
      i > 1 /\ i - 1 \notin arrived /\ ReadsAsBeginning(Start(i))

\* What is on the way, and whether noise or a lost message came last, which is all
\* that lets the parser lose a message or hand on what was none.
Underway == [i \in 1 .. Len(due) - passed |-> due[i + passed].unit]
Astray == passed # 0 /\ passed \notin arrived
Channel == INSTANCE MessageChannel WITH underway <- Underway, astray <- Astray
ImplementsChannel == Channel!Spec
=============================================================================
