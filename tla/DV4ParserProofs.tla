-------------------------- MODULE DV4ParserProofs ---------------------------
(***************************************************************************)
(* Theorems about DV4Parser, for any messages and noise, any cuts of the   *)
(* line by read(), and parameters of up to 255 bytes.                      *)
(***************************************************************************)
EXTENDS DV4Parser, SequenceTheorems, TLAPS

LEMMA PreambleLength == Preamble = 4 /\ \A i \in 1 .. 4 : CmdPreamble[i] \in Byte
BY PreambleAssumption DEF Preamble

-----------------------------------------------------------------------------
(* The units of the line.                                                  *)

LEMMA Concatenated ==
  ASSUME NEW s \in Seq(Byte), NEW t \in Seq(Byte)
  PROVE  /\ s \o t \in Seq(Byte) /\ Len(s \o t) = Len(s) + Len(t)
         /\ Len(s) \in Nat /\ Len(t) \in Nat
         /\ \A i \in 1 .. Len(s) : (s \o t)[i] = s[i]
         /\ \A i \in 1 .. Len(t) : (s \o t)[Len(s) + i] = t[i]
<1>1. Len(s) \in Nat /\ Len(t) \in Nat
  BY LenProperties
<1>2. /\ s \o t \in Seq(Byte) /\ Len(s \o t) = Len(s) + Len(t)
      /\ \A i \in 1 .. Len(s) + Len(t) :
           (s \o t)[i] = IF i <= Len(s) THEN s[i] ELSE t[i - Len(s)]
  BY ConcatProperties
<1>3. ASSUME NEW i \in 1 .. Len(s) PROVE (s \o t)[i] = s[i]
  BY <1>1, <1>2
<1>4. ASSUME NEW i \in 1 .. Len(t) PROVE (s \o t)[Len(s) + i] = t[i]
  <2>1. /\ Len(s) + i \in 1 .. Len(s) + Len(t)
        /\ ~(Len(s) + i <= Len(s)) /\ Len(s) + i - Len(s) = i
    BY <1>1
  <2> QED
    BY <1>2, <2>1
<1> QED
  BY <1>1, <1>2, <1>3, <1>4

\* The bytes of a message.
LEMMA FrameShape ==
  ASSUME NEW m \in Messages
  PROVE  /\ m \in [cmd : Byte, param : Seq(Byte)]
         /\ Frame(m) \in Seq(Byte) /\ Len(Frame(m)) = 6 + Len(m.param)
         /\ \A i \in 1 .. 4 : Frame(m)[i] = CmdPreamble[i]
         /\ Frame(m)[5] = m.cmd /\ Frame(m)[6] = Len(m.param)
         /\ \A i \in 1 .. Len(m.param) : Frame(m)[6 + i] = m.param[i]
<1>1. m \in [cmd : Byte, param : Seq(Byte)] /\ Len(m.param) \in Byte
  BY MessagesAssumption
<1>2. m.cmd \in Byte /\ m.param \in Seq(Byte) /\ Len(m.param) \in Nat
  BY <1>1 DEF Byte
<1>3. CmdPreamble \in Seq(Byte) /\ Len(CmdPreamble) = 4
  BY PreambleAssumption
<1> DEFINE d == CmdPreamble
           h == <<m.cmd, Len(m.param)>>
<1>4. h \in Seq(Byte) /\ Len(h) = 2 /\ h[1] = m.cmd /\ h[2] = Len(m.param)
  BY <1>1, <1>2
<1>5. Frame(m) = d \o h \o m.param /\ d = CmdPreamble
  BY DEF Frame
<1> HIDE DEF d, h
<1>6. PICK f : f = d \o h
  OBVIOUS
<1>7. /\ f \in Seq(Byte) /\ Len(f) = Len(d) + Len(h)
      /\ \A i \in 1 .. Len(d) : f[i] = d[i]
      /\ \A i \in 1 .. Len(h) : f[Len(d) + i] = h[i]
  BY <1>3, <1>4, <1>5, <1>6, Concatenated
<1>8. /\ Len(f) = 6 /\ f[5] = m.cmd /\ f[6] = Len(m.param)
      /\ \A i \in 1 .. 4 : f[i] = CmdPreamble[i]
  <2>1. Len(d) = 4 /\ d = CmdPreamble
    BY <1>3, <1>5
  <2>2. 1 \in 1 .. Len(h) /\ 2 \in 1 .. Len(h) /\ Len(d) + 1 = 5 /\ Len(d) + 2 = 6
    BY <1>4, <2>1
  <2>3. f[Len(d) + 1] = h[1] /\ f[Len(d) + 2] = h[2]
    BY <1>7, <2>2
  <2> QED
    BY <1>4, <1>7, <2>1, <2>2, <2>3
<1>9. PICK g : g = f \o m.param
  OBVIOUS
<1>10. /\ g \in Seq(Byte) /\ Len(g) = Len(f) + Len(m.param)
       /\ \A i \in 1 .. Len(f) : g[i] = f[i]
       /\ \A i \in 1 .. Len(m.param) : g[Len(f) + i] = m.param[i]
  BY <1>2, <1>7, <1>9, Concatenated
<1>11. /\ g[5] = m.cmd /\ g[6] = Len(m.param)
       /\ \A i \in 1 .. 4 : g[i] = CmdPreamble[i]
  BY <1>8, <1>10
<1>12. Frame(m) = g
  BY <1>5, <1>6, <1>9
<1> QED
  BY <1>1, <1>8, <1>10, <1>11, <1>12

\* Every unit puts at least one byte on the line.
LEMMA UnitBytes ==
  ASSUME NEW u \in Units
  PROVE  /\ Bytes(u) \in Seq(Byte) /\ Len(Bytes(u)) \in Nat \ {0}
         /\ IsMessage(u) => u.what \in Messages /\ Bytes(u) = Frame(u.what)
<1>1. CASE IsMessage(u)
  <2>1. u.what \in Messages /\ Bytes(u) = Frame(u.what)
    BY <1>1 DEF Units, IsMessage, Bytes
  <2>2. Bytes(u) \in Seq(Byte) /\ Len(Bytes(u)) = 6 + Len(u.what.param)
    BY <2>1, FrameShape
  <2>3. Len(u.what.param) \in Nat
    BY <2>1, MessagesAssumption DEF Byte
  <2> QED
    BY <2>1, <2>2, <2>3
<1>2. CASE ~IsMessage(u)
  <2>1. u.what \in Noise /\ Bytes(u) = u.what
    BY <1>2 DEF Units, IsMessage, Bytes
  <2>2. Bytes(u) \in Seq(Byte) /\ Bytes(u) # <<>>
    BY <2>1, NoiseAssumption
  <2> QED
    BY <1>2, <2>2, LenProperties, EmptySeq
<1> QED
  BY <1>1, <1>2

\* What is sent, one unit at a time.
Sending == \E u \in Units : Send(u)

LEMMA SendingSteps ==
  (\E m \in Messages : SendMessage(m)) \/ (\E n \in Noise : SendNoise(n)) => Sending
<1>1. ASSUME NEW m \in Messages, SendMessage(m) PROVE Sending
  <2>1. [kind |-> "message", what |-> m] \in Units
    BY DEF Units
  <2> QED
    BY <1>1, <2>1 DEF SendMessage, Sending
<1>2. ASSUME NEW n \in Noise, SendNoise(n) PROVE Sending
  <2>1. [kind |-> "noise", what |-> n] \in Units
    BY DEF Units
  <2> QED
    BY <1>2, <2>1 DEF SendNoise, Sending
<1> QED
  BY <1>1, <1>2

-----------------------------------------------------------------------------
(* What has been recognised.                                               *)

\* The bytes that one round of the loop takes from the buffer.
LEMMA ByteTaken ==
  ASSUME TypeOK, NextByte
  PROVE  /\ Head(rxBuffer) \in Byte
         /\ rxBuffer' \in Seq(Byte) /\ stream' \in Seq(Byte)
         /\ Len(stream') = Len(stream) + 1
         /\ stream'[Len(stream')] = Head(rxBuffer)
         /\ \A i \in 1 .. Len(stream) : stream'[i] = stream[i]
<1>1. rxBuffer \in Seq(Byte) /\ rxBuffer # <<>> /\ stream \in Seq(Byte)
  BY DEF TypeOK, NextByte
<1>2. Head(rxBuffer) \in Byte /\ Tail(rxBuffer) \in Seq(Byte)
  BY <1>1, HeadTailProperties
<1>3. rxBuffer' = Tail(rxBuffer) /\ stream' = Append(stream, Head(rxBuffer))
  BY DEF NextByte
<1> QED
  BY <1>1, <1>2, <1>3

\* Where the parser is after one more byte.
LEMMA ParserType ==
  ASSUME TypeOK, NEW b \in Byte,
         MatchPreamble(b) \/ TakeCmd(b) \/ TakeLength(b) \/ TakeParam(b)
  PROVE  /\ uIdx' \in 0 .. 260
         /\ iCmd' \in Byte /\ iLength' \in Byte /\ param' \in Seq(Byte)
         /\ uIdx' > Preamble + 1 =>
              Len(param') = uIdx' - Preamble - 2 /\ Len(param') < iLength'
         /\ received' \in Seq([cmd : Byte, param : Seq(Byte)])
<1> DEFINE Message == [cmd : Byte, param : Seq(Byte)]
<1> USE PreambleLength
<1>1. /\ uIdx \in 0 .. 260 /\ received \in Seq(Message)
      /\ iCmd \in Byte /\ iLength \in Byte /\ param \in Seq(Byte)
      /\ uIdx > Preamble + 1 =>
           Len(param) = uIdx - Preamble - 2 /\ Len(param) < iLength
  BY DEF TypeOK
<1>2. CASE MatchPreamble(b)
  BY <1>1, <1>2 DEF MatchPreamble
<1>3. CASE TakeCmd(b)
  BY <1>1, <1>3 DEF TakeCmd
<1>4. CASE TakeLength(b)
  <2>1. param' = <<>> /\ Len(<<>>) = 0 /\ <<>> \in Seq(Byte)
    BY <1>4, EmptySeq DEF TakeLength
  <2>2. [cmd |-> iCmd, param |-> <<>>] \in Message
    BY <1>1, <2>1
  <2>3. Append(received, [cmd |-> iCmd, param |-> <<>>]) \in Seq(Message)
    BY <1>1, <2>2
  <2>4. received' \in Seq(Message)
    BY <1>1, <1>4, <2>3 DEF TakeLength, Hand
  <2>5. /\ iLength' = b /\ iCmd' = iCmd
        /\ uIdx' = 0 \/ (uIdx' = Preamble + 2 /\ b # 0)
    BY <1>1, <1>4 DEF TakeLength, Hand
  <2>6. uIdx' \in 0 .. 260 /\ iCmd' \in Byte /\ iLength' \in Byte
    BY <1>1, <2>5 DEF Byte
  <2>7. Len(param') = 0
    BY <2>1
  <2>8. uIdx' > Preamble + 1 => Len(param') = uIdx' - Preamble - 2 /\ Len(param') < iLength'
    BY <2>5, <2>7 DEF Byte
  <2> QED
    BY <2>1, <2>4, <2>6, <2>8, Zenon
<1>5. CASE TakeParam(b)
  <2>1. param' = Append(param, b)
    BY <1>5 DEF TakeParam
  <2>2. param' \in Seq(Byte) /\ Len(param') = Len(param) + 1
    BY <1>1, <2>1
  <2>3. Append(received, [cmd |-> iCmd, param |-> param']) \in Seq(Message)
    <3>1. [cmd |-> iCmd, param |-> param'] \in Message
      BY <1>1, <2>2
    <3> QED
      BY <1>1, <3>1
  <2>4. received' \in Seq(Message)
    BY <1>1, <1>5, <2>3 DEF TakeParam, Hand
  <2>5. /\ uIdx \in Nat /\ uIdx >= 6 /\ iLength \in 0 .. 255
        /\ Len(param) = uIdx - 6 /\ iLength' = iLength /\ iCmd' = iCmd
    BY <1>1, <1>5 DEF TakeParam, Byte
  <2>6. uIdx' = 0 \/ (uIdx' = uIdx + 1 /\ uIdx - 6 < iLength - 1)
    BY <1>5, <2>5 DEF TakeParam, Hand
  <2>7. /\ uIdx' \in 0 .. 260
        /\ uIdx' > 5 => Len(param') = uIdx' - 6 /\ Len(param') < iLength
    <3>1. CASE uIdx' = 0
      BY <3>1
    <3>2. CASE uIdx' = uIdx + 1 /\ uIdx - 6 < iLength - 1
      <4>1. Len(param') = uIdx - 5
        BY <2>2, <2>5
      <4> QED
        BY <2>5, <3>2, <4>1
    <3> QED
      BY <2>6, <3>1, <3>2
  <2>8. uIdx' > Preamble + 1 =>
          Len(param') = uIdx' - Preamble - 2 /\ Len(param') < iLength'
    <3>1. ASSUME uIdx' > Preamble + 1
          PROVE  Len(param') = uIdx' - Preamble - 2 /\ Len(param') < iLength'
      <4>1. uIdx' > 5
        BY <3>1, <2>7
      <4>2. Len(param') = uIdx' - 6 /\ Len(param') < iLength
        BY <4>1, <2>7
      <4>3. uIdx' - Preamble - 2 = uIdx' - 6
        BY <2>7
      <4> QED
        BY <2>5, <4>2, <4>3
    <3> QED
      BY <3>1
  <2>9. iCmd' \in Byte /\ iLength' \in Byte
    BY <1>1, <2>5
  <2> QED
    BY <2>2, <2>4, <2>7, <2>8, <2>9
<1> QED
  BY <1>2, <1>3, <1>4, <1>5

\* What the history says of the units that were looked at.
LEMMA AccountType ==
  ASSUME TypeOK, Account
  PROVE  passed' \in Nat /\ arrived' \subseteq 1 .. passed'
<1>1. passed \in Nat /\ arrived \subseteq 1 .. passed
  BY DEF TypeOK
<1>2. CASE LastByte
  <2>1. passed' = passed + 1 /\ arrived' \subseteq arrived \cup {passed + 1}
    BY <1>2 DEF Account
  <2> QED
    BY <1>1, <2>1
<1>3. CASE ~LastByte
  BY <1>1, <1>3 DEF Account, Arrives
<1> QED
  BY <1>2, <1>3

LEMMA TypeStep ==
  ASSUME TypeOK, [Next]_vars
  PROVE  TypeOK'
<1>1. CASE Sending
  <2>1. PICK u \in Units : Send(u)
    BY <1>1 DEF Sending
  <2>2. line' \in Seq(Byte)
    BY <2>1, UnitBytes DEF Send, TypeOK
  <2>3. BytesSent + Len(Bytes(u)) \in Nat
    BY UnitBytes, LenProperties DEF BytesSent, TypeOK
  <2>4. due' \in Seq([unit : Units, end : Nat])
    BY <2>1, <2>3 DEF Send, TypeOK
  <2> QED
    BY <2>1, <2>2, <2>4 DEF Send, TypeOK, parser
<1>2. CASE Read
  <2>1. line \in Seq(Byte)
    BY DEF TypeOK
  <2>2. rxBuffer' \in Seq(Byte) /\ line' \in Seq(Byte)
    BY <1>2, <2>1 DEF Read
  <2> QED
    BY <1>2, <2>2 DEF Read, TypeOK, parser, history
<1>3. CASE Parse
  <2>1. NextByte /\ Account
    BY <1>3 DEF Parse
  <2>2. Head(rxBuffer) \in Byte /\ rxBuffer' \in Seq(Byte) /\ stream' \in Seq(Byte)
    BY <2>1, ByteTaken
  <2>3. /\ uIdx' \in 0 .. 260
        /\ iCmd' \in Byte /\ iLength' \in Byte /\ param' \in Seq(Byte)
        /\ uIdx' > Preamble + 1 =>
             Len(param') = uIdx' - Preamble - 2 /\ Len(param') < iLength'
        /\ received' \in Seq([cmd : Byte, param : Seq(Byte)])
    BY <1>3, <2>2, ParserType DEF Parse
  <2>4. /\ line' \in Seq(Byte) /\ due' \in Seq([unit : Units, end : Nat])
        /\ passed' \in Nat /\ arrived' \subseteq 1 .. passed'
    BY <2>1, AccountType DEF NextByte, TypeOK
  <2> QED
    BY <2>2, <2>3, <2>4 DEF TypeOK, Preamble
<1>4. CASE UNCHANGED vars
  BY <1>4 DEF vars, parser, history, TypeOK
<1> QED
  BY <1>1, <1>2, <1>3, <1>4, SendingSteps DEF Next, Quiet

IInv == TypeOK /\ RecognisedIsRead

\* One more byte: either the search starts anew, or the byte is the next one of
\* the message and the earlier ones stay what they were.
LEMMA RecognisedStep ==
  ASSUME IInv, [Next]_vars
  PROVE  RecognisedIsRead'
<1> USE PreambleLength
<1>1. TypeOK /\ RecognisedIsRead
  BY DEF IInv
<1>2. CASE Parse
  <2> DEFINE b == Head(rxBuffer)
  <2>1. NextByte /\ b \in Byte /\ stream \in Seq(Byte)
    BY <1>1, <1>2, ByteTaken DEF Parse, TypeOK
  <2>2. /\ Len(stream') = Len(stream) + 1 /\ Len(stream) \in Nat
        /\ stream'[Len(stream')] = b
        /\ \A i \in 1 .. Len(stream) : stream'[i] = stream[i]
    BY <1>1, <2>1, ByteTaken
  <2>3. CASE uIdx' = 0
    BY <2>2, <2>3 DEF RecognisedIsRead
  <2>4. ASSUME uIdx' = uIdx + 1,
               \A i \in 1 .. uIdx : Recognised(i)' = Recognised(i),
               \A k \in Nat : k = uIdx + 1 => Recognised(k)' = b
        PROVE  RecognisedIsRead'
    <3>1. uIdx \in Nat /\ uIdx <= Len(stream)
      BY <1>1 DEF TypeOK, RecognisedIsRead
    <3>2. ASSUME NEW i \in 1 .. uIdx
          PROVE  stream'[Len(stream') - uIdx' + i] = Recognised(i)'
      <4>1. stream[Len(stream) - uIdx + i] = Recognised(i)
        BY <1>1 DEF RecognisedIsRead
      <4>2. /\ Len(stream') - uIdx' + i = Len(stream) - uIdx + i
            /\ Len(stream) - uIdx + i \in 1 .. Len(stream)
        BY <2>2, <2>4, <3>1
      <4> QED
        BY <2>2, <2>4, <4>1, <4>2
    <3>3. Len(stream') - uIdx' + (uIdx + 1) = Len(stream')
      BY <2>2, <2>4, <3>1
    <3>4. uIdx' <= Len(stream')
      BY <2>2, <2>4, <3>1
    <3>5. ASSUME NEW i \in 1 .. uIdx'
          PROVE  stream'[Len(stream') - uIdx' + i] = Recognised(i)'
      <4>1. i \in 1 .. uIdx \/ i = uIdx + 1
        BY <2>4, <3>1
      <4>2. CASE i = uIdx + 1
        <5>1. Recognised(i)' = b
          BY <2>4, <3>1, <4>2
        <5>2. Len(stream') - uIdx' + i = Len(stream')
          BY <3>3, <4>2
        <5> QED
          BY <2>2, <5>1, <5>2
      <4> QED
        BY <3>2, <4>1, <4>2
    <3> QED
      BY <3>4, <3>5 DEF RecognisedIsRead
  <2>5. CASE MatchPreamble(b)
    <3>1. uIdx \in Nat /\ uIdx < 4
      BY <1>1, <2>5 DEF MatchPreamble, TypeOK
    <3>2. uIdx' = 0 \/ (uIdx' = uIdx + 1 /\ CmdPreamble[uIdx + 1] = b)
      BY <2>5 DEF MatchPreamble
    <3>3. \A i \in 1 .. uIdx : Recognised(i)' = Recognised(i)
      BY <3>1 DEF Recognised, Preamble
    <3>4. \A k \in Nat : k = uIdx + 1 => Recognised(k)' = CmdPreamble[uIdx + 1]
      BY <3>1 DEF Recognised, Preamble
    <3> QED
      BY <2>3, <2>4, <3>2, <3>3, <3>4
  <2>6. CASE TakeCmd(b)
    <3>1. uIdx = 4 /\ uIdx' = uIdx + 1 /\ iCmd' = b
      BY <2>6 DEF TakeCmd
    <3>2. \A i \in 1 .. uIdx : Recognised(i)' = Recognised(i)
      BY <3>1 DEF Recognised, Preamble
    <3>3. \A k \in Nat : k = uIdx + 1 => Recognised(k)' = b
      BY <3>1 DEF Recognised, Preamble
    <3> QED
      BY <2>4, <3>1, <3>2, <3>3
  <2>7. CASE TakeLength(b)
    <3>1. uIdx = 5 /\ iCmd' = iCmd /\ iLength' = b
      BY <2>7 DEF TakeLength
    <3>2. uIdx' = 0 \/ uIdx' = uIdx + 1
      BY <2>7 DEF TakeLength, Hand
    <3>3. \A i \in 1 .. uIdx : Recognised(i)' = Recognised(i)
      BY <3>1 DEF Recognised, Preamble
    <3>4. \A k \in Nat : k = uIdx + 1 => Recognised(k)' = b
      BY <3>1 DEF Recognised, Preamble
    <3> QED
      BY <2>3, <2>4, <3>2, <3>3, <3>4
  <2>8. CASE TakeParam(b)
    <3>1. param' = Append(param, b) /\ param \in Seq(Byte)
      BY <1>1, <2>8 DEF TakeParam, TypeOK
    <3>2. uIdx \in Nat /\ uIdx >= Preamble + 2 /\ Len(param) = uIdx - Preamble - 2
      BY <1>1, <2>8 DEF TakeParam, TypeOK
    <3>3. /\ \A i \in 1 .. Len(param) : param'[i] = param[i]
          /\ param'[Len(param) + 1] = b
      BY <2>1, <3>1
    <3>4. iCmd' = iCmd /\ iLength' = iLength /\ (uIdx' = 0 \/ uIdx' = uIdx + 1)
      BY <2>8 DEF TakeParam, Hand
    <3>5. \A i \in 1 .. uIdx : Recognised(i)' = Recognised(i)
      BY <3>2, <3>3, <3>4 DEF Recognised
    <3>6. ASSUME NEW k \in Nat, k = uIdx + 1 PROVE Recognised(k)' = b
      <4>1. /\ ~(k <= 4) /\ k # 5 /\ k # 6
            /\ k - 4 - 2 = Len(param) + 1
        BY <3>2, <3>6
      <4>2. Recognised(k)' = param'[k - 4 - 2]
        BY <4>1 DEF Recognised, Preamble
      <4> QED
        BY <3>3, <4>1, <4>2
    <3> QED
      BY <2>3, <2>4, <3>4, <3>5, <3>6
  <2> QED
    BY <1>2, <2>5, <2>6, <2>7, <2>8 DEF Parse
<1>3. CASE ~Parse
  <2>1. UNCHANGED <<uIdx, iCmd, iLength, param, stream>>
    BY <1>3, SendingSteps DEF Next, Sending, Send, Read, Quiet, vars, parser, history
  <2> QED
    BY <1>1, <2>1 DEF RecognisedIsRead, Recognised
<1> QED
  BY <1>2, <1>3

LEMMA Inductive == Spec => []IInv
<1>1. Init => IInv
  <2> SUFFICES ASSUME Init PROVE IInv
    OBVIOUS
  <2>1. TypeOK
    <3>1. /\ line \in Seq(Byte) /\ rxBuffer \in Seq(Byte) /\ stream \in Seq(Byte)
          /\ param \in Seq(Byte) /\ received \in Seq([cmd : Byte, param : Seq(Byte)])
      BY EmptySeq DEF Init
    <3>2. due \in Seq([unit : Units, end : Nat])
      BY EmptySeq DEF Init
    <3>3. uIdx = 0 /\ iCmd = 0 /\ iLength = 0 /\ passed = 0 /\ arrived = {}
      BY DEF Init
    <3> QED
      BY <3>1, <3>2, <3>3, PreambleLength DEF TypeOK, Byte
  <2>2. RecognisedIsRead
    BY EmptySeq DEF Init, RecognisedIsRead
  <2> QED
    BY <2>1, <2>2 DEF IInv
<1>2. ASSUME IInv, [Next]_vars PROVE IInv'
  BY <1>2, TypeStep, RecognisedStep DEF IInv
<1> QED
  BY <1>1, <1>2, PTL DEF Spec

-----------------------------------------------------------------------------
(* The units on the line.                                                  *)

\* The bytes of the line from the first one on, looked at or not.
ByteAt(p) ==
  IF p <= Len(stream) THEN stream[p]
  ELSE IF p <= Len(stream) + Len(rxBuffer) THEN rxBuffer[p - Len(stream)]
  ELSE line[p - Len(stream) - Len(rxBuffer)]

Sent == 1 .. Len(due)
UnitLen(k) == Len(Bytes(due[k].unit))

\* The units follow each other with nothing between them, and each has its bytes
\* on the line.
UnitOnLine(k) ==
  /\ Start(k) \in Nat /\ due[k].end = Start(k) + UnitLen(k) /\ due[k].end <= BytesSent
  /\ \A j \in 1 .. UnitLen(k) : ByteAt(Start(k) + j) = Bytes(due[k].unit)[j]
LineInv == (\A k \in Sent : UnitOnLine(k)) /\ BytesSent = Start(Len(due) + 1)

\* The parser is at a byte of the first unit that has not passed.
PlaceInv ==
  /\ passed <= Len(due) /\ Start(passed + 1) <= Len(stream)
  /\ passed < Len(due) => Len(stream) < due[passed + 1].end
  /\ \A i \in 1 .. passed : due[i].end <= Len(stream)

\* A unit and its place do not change once it is sent.
LEMMA UnitFacts ==
  ASSUME TypeOK, NEW k \in Sent
  PROVE  /\ due[k].unit \in Units /\ due[k].end \in Nat
         /\ UnitLen(k) \in Nat \ {0} /\ k \in Nat /\ k >= 1
<1>1. due[k] \in [unit : Units, end : Nat]
  BY ElementOfSeq DEF TypeOK, Sent
<1>2. due[k].unit \in Units /\ due[k].end \in Nat
  BY <1>1
<1> QED
  BY <1>2, UnitBytes DEF UnitLen, Sent

LEMMA SameStart ==
  ASSUME due' = due
  PROVE  Sent' = Sent /\ \A k : Start(k)' = Start(k) /\ UnitLen(k)' = UnitLen(k)
BY DEF Sent, Start, UnitLen

\* The line when something is put on it.
LEMMA LineGrows ==
  ASSUME TypeOK, NEW s \in Seq(Byte), line' = line \o s, UNCHANGED <<stream, rxBuffer>>
  PROVE  /\ BytesSent \in Nat /\ BytesSent' = BytesSent + Len(s)
         /\ \A p \in 1 .. BytesSent : ByteAt(p)' = ByteAt(p)
         /\ \A p \in BytesSent + 1 .. BytesSent + Len(s) : ByteAt(p)' = s[p - BytesSent]
<1>1. line \in Seq(Byte) /\ rxBuffer \in Seq(Byte) /\ stream \in Seq(Byte)
  BY DEF TypeOK
<1>2. Len(stream) \in Nat /\ Len(rxBuffer) \in Nat /\ Len(line) \in Nat /\ Len(s) \in Nat
  BY <1>1, LenProperties
<1>3. /\ Len(line') = Len(line) + Len(s)
      /\ \A i \in 1 .. Len(line) : line'[i] = line[i]
      /\ \A i \in 1 .. Len(s) : line'[Len(line) + i] = s[i]
  BY <1>1, Concatenated
<1>4. BytesSent \in Nat /\ BytesSent' = BytesSent + Len(s)
  BY <1>2, <1>3 DEF BytesSent
<1>5. ASSUME NEW p \in 1 .. BytesSent PROVE ByteAt(p)' = ByteAt(p)
  BY <1>2, <1>3 DEF ByteAt, BytesSent
<1>6. ASSUME NEW p \in BytesSent + 1 .. BytesSent + Len(s)
      PROVE  ByteAt(p)' = s[p - BytesSent]
  <2>1. /\ ~(p <= Len(stream)) /\ ~(p <= Len(stream) + Len(rxBuffer))
        /\ p - Len(stream) - Len(rxBuffer) = Len(line) + (p - BytesSent)
        /\ p - BytesSent \in 1 .. Len(s)
    BY <1>2 DEF BytesSent
  <2>2. ByteAt(p)' = line'[p - Len(stream) - Len(rxBuffer)]
    BY <2>1 DEF ByteAt
  <2> QED
    BY <1>3, <2>1, <2>2
<1> QED
  BY <1>4, <1>5, <1>6

\* The line when read() or the loop takes something from it.
LEMMA LineMoves ==
  ASSUME TypeOK, Read \/ NextByte
  PROVE  /\ BytesSent \in Nat /\ BytesSent' = BytesSent
         /\ \A p \in 1 .. BytesSent : ByteAt(p)' = ByteAt(p)
<1>1. line \in Seq(Byte) /\ rxBuffer \in Seq(Byte) /\ stream \in Seq(Byte)
  BY DEF TypeOK
<1>2. Len(stream) \in Nat /\ Len(rxBuffer) \in Nat /\ Len(line) \in Nat
  BY <1>1, LenProperties
<1>3. CASE Read
  <2>1. PICK n \in 1 .. Len(line) :
          rxBuffer' = SubSeq(line, 1, n) /\ line' = SubSeq(line, n + 1, Len(line))
    BY <1>3 DEF Read
  <2>2. /\ Len(rxBuffer') = n /\ Len(line') = Len(line) - n
        /\ \A i \in 1 .. n : rxBuffer'[i] = line[i]
        /\ \A i \in 1 .. Len(line) - n : line'[i] = line[n + i]
    BY <1>1, <1>2, <2>1
  <2>3. Len(rxBuffer) = 0 /\ stream' = stream
    BY <1>3 DEF Read, history
  <2>4. BytesSent' = BytesSent
    BY <1>2, <2>2, <2>3 DEF BytesSent
  <2>5. ASSUME NEW p \in 1 .. BytesSent PROVE ByteAt(p)' = ByteAt(p)
    <3>1. CASE p <= Len(stream)
      BY <2>3, <3>1 DEF ByteAt
    <3>2. CASE p > Len(stream)
      <4> DEFINE q == p - Len(stream)
      <4>1. q \in 1 .. Len(line) /\ ByteAt(p) = line[q]
        BY <1>2, <2>3, <3>2 DEF ByteAt, BytesSent
      <4>2. ByteAt(p)' = IF q <= n THEN rxBuffer'[q] ELSE line'[q - n]
        BY <1>2, <2>2, <2>3, <3>2 DEF ByteAt
      <4>3. q > n => q - n \in 1 .. Len(line) - n /\ n + (q - n) = q
        BY <4>1
      <4> QED
        BY <2>2, <4>1, <4>2, <4>3
    <3> QED
      BY <1>2, <3>1, <3>2
  <2> QED
    BY <1>2, <2>4, <2>5 DEF BytesSent
<1>4. CASE NextByte
  <2>1. /\ Len(stream') = Len(stream) + 1 /\ stream'[Len(stream) + 1] = Head(rxBuffer)
        /\ \A i \in 1 .. Len(stream) : stream'[i] = stream[i]
    BY <1>4, ByteTaken
  <2>2. /\ rxBuffer # <<>> /\ rxBuffer' = Tail(rxBuffer) /\ line' = line
        /\ Head(rxBuffer) = rxBuffer[1]
    BY <1>1, <1>4 DEF NextByte
  <2>3. /\ Len(rxBuffer) > 0 /\ Len(rxBuffer') = Len(rxBuffer) - 1
        /\ \A i \in 1 .. Len(rxBuffer) - 1 : rxBuffer'[i] = rxBuffer[i + 1]
    BY <1>1, <1>2, <2>2
  <2>4. BytesSent' = BytesSent
    BY <1>2, <2>1, <2>2, <2>3 DEF BytesSent
  <2>5. ASSUME NEW p \in 1 .. BytesSent PROVE ByteAt(p)' = ByteAt(p)
    <3>1. CASE p <= Len(stream)
      BY <1>2, <2>1, <3>1 DEF ByteAt
    <3>2. CASE p = Len(stream) + 1
      BY <1>2, <2>1, <2>2, <2>3, <3>2 DEF ByteAt
    <3>3. CASE p > Len(stream) + 1 /\ p <= Len(stream) + Len(rxBuffer)
      <4>1. /\ p - Len(stream) - 1 \in 1 .. Len(rxBuffer) - 1
            /\ p - Len(stream) - 1 + 1 = p - Len(stream)
            /\ p - Len(stream') = p - Len(stream) - 1
        BY <1>2, <2>1, <3>3
      <4>2. ByteAt(p)' = rxBuffer'[p - Len(stream')]
        BY <1>2, <2>1, <2>3, <3>3 DEF ByteAt
      <4>3. ByteAt(p) = rxBuffer[p - Len(stream)]
        BY <1>2, <3>3 DEF ByteAt
      <4> QED
        BY <2>3, <4>1, <4>2, <4>3
    <3>4. CASE p > Len(stream) + Len(rxBuffer)
      <4>1. p - Len(stream') - Len(rxBuffer') = p - Len(stream) - Len(rxBuffer)
        BY <1>2, <2>1, <2>3
      <4>2. ByteAt(p)' = line'[p - Len(stream') - Len(rxBuffer')]
        BY <1>2, <2>1, <2>3, <3>4 DEF ByteAt
      <4>3. ByteAt(p) = line[p - Len(stream) - Len(rxBuffer)]
        BY <1>2, <2>3, <3>4 DEF ByteAt
      <4> QED
        BY <2>2, <4>1, <4>2, <4>3
    <3> QED
      BY <1>2, <3>1, <3>2, <3>3, <3>4
  <2> QED
    BY <1>2, <2>4, <2>5 DEF BytesSent
<1> QED
  BY <1>3, <1>4

\* A unit that was sent before stays where it is.
LEMMA UnitStays ==
  ASSUME TypeOK, NEW k \in Sent, UnitOnLine(k),
         BytesSent \in Nat, BytesSent' \in Nat, BytesSent <= BytesSent',
         \A p \in 1 .. BytesSent : ByteAt(p)' = ByteAt(p),
         due'[k] = due[k], Start(k)' = Start(k)
  PROVE  UnitOnLine(k)'
<1>1. UnitLen(k)' = UnitLen(k) /\ UnitLen(k) \in Nat
  BY UnitFacts DEF UnitLen
<1>2. /\ Start(k) \in Nat /\ due[k].end = Start(k) + UnitLen(k) /\ due[k].end <= BytesSent
      /\ \A j \in 1 .. UnitLen(k) : ByteAt(Start(k) + j) = Bytes(due[k].unit)[j]
  BY DEF UnitOnLine
<1>3. ASSUME NEW j \in 1 .. UnitLen(k)
      PROVE  ByteAt(Start(k) + j)' = Bytes(due'[k].unit)[j]
  <2>1. PICK p : p = Start(k) + j
    OBVIOUS
  <2>2. p \in 1 .. BytesSent /\ p = Start(k)' + j
    BY <1>1, <1>2, <2>1
  <2>3. ByteAt(p)' = ByteAt(p)
    BY <2>2
  <2> QED
    BY <1>2, <2>1, <2>2, <2>3
<1>4. due'[k].end <= BytesSent'
  BY <1>1, <1>2
<1> QED
  BY <1>1, <1>2, <1>3, <1>4 DEF UnitOnLine

\* What one more unit changes.
LEMMA UnitSent ==
  ASSUME TypeOK, LineInv, NEW u \in Units, Send(u)
  PROVE  /\ LineInv'
         /\ Len(due) \in Nat /\ Len(due') = Len(due) + 1
         /\ due'[Len(due) + 1].unit = u
         /\ \A k \in Sent : due'[k] = due[k]
         /\ \A k \in 1 .. Len(due) + 1 : Start(k)' = Start(k)
         /\ due'[Len(due) + 1].end > BytesSent /\ BytesSent \in Nat
         /\ due'[Len(due) + 1].end \in Nat /\ due' \in Seq([unit : Units, end : Nat])
<1> DEFINE new == [unit |-> u, end |-> BytesSent + Len(Bytes(u))]
<1>1. /\ Bytes(u) \in Seq(Byte) /\ Len(Bytes(u)) \in Nat \ {0}
      /\ line' = line \o Bytes(u) /\ UNCHANGED <<stream, rxBuffer>>
  BY UnitBytes DEF Send
<1>2. /\ BytesSent \in Nat /\ BytesSent' = BytesSent + Len(Bytes(u))
      /\ \A p \in 1 .. BytesSent : ByteAt(p)' = ByteAt(p)
      /\ \A p \in BytesSent + 1 .. BytesSent + Len(Bytes(u)) :
           ByteAt(p)' = Bytes(u)[p - BytesSent]
  BY <1>1, LineGrows
<1>3. due' = Append(due, new) /\ due \in Seq([unit : Units, end : Nat])
  BY DEF Send, TypeOK
<1>4. new \in [unit : Units, end : Nat]
  BY <1>1, <1>2
<1>5. PICK N \in Nat : N = Len(due) + 1
  BY <1>3, LenProperties
<1>6. /\ Len(due) \in Nat /\ Len(due') = N /\ due'[N] = new
      /\ \A k \in Sent : due'[k] = due[k]
      /\ due' \in Seq([unit : Units, end : Nat])
  BY <1>3, <1>4, <1>5, AppendProperties, LenProperties DEF Sent
<1>7. due'[N].unit = u /\ due'[N].end = BytesSent' /\ BytesSent' \in Nat
  BY <1>1, <1>2, <1>6
<1> HIDE DEF new
<1>8. Sent' = Sent \cup {N}
  BY <1>5, <1>6 DEF Sent
<1>9. ASSUME NEW k \in 1 .. N PROVE Start(k)' = Start(k)
  <2>1. k = 1 \/ k - 1 \in Sent
    BY <1>5, <1>6 DEF Sent
  <2> QED
    BY <1>6, <2>1 DEF Start
<1>10. Start(N) = BytesSent /\ N \in 1 .. N
  BY <1>5, <1>6 DEF LineInv
<1>11. ASSUME NEW k \in Sent PROVE UnitOnLine(k)'
  <2>1. UnitOnLine(k) /\ due'[k] = due[k]
    BY <1>6 DEF LineInv
  <2>2. Start(k)' = Start(k)
    BY <1>5, <1>6, <1>9 DEF Sent
  <2>3. BytesSent' \in Nat /\ BytesSent <= BytesSent'
    BY <1>1, <1>2
  <2> QED
    BY <1>2, <2>1, <2>2, <2>3, UnitStays
<1>12. UnitOnLine(N)'
  <2>1. Start(N)' = BytesSent /\ UnitLen(N)' = Len(Bytes(u))
    BY <1>7, <1>9, <1>10 DEF UnitLen
  <2>2. ASSUME NEW j \in 1 .. Len(Bytes(u)) PROVE ByteAt(Start(N) + j)' = Bytes(u)[j]
    <3>1. PICK p : p = BytesSent + j
      OBVIOUS
    <3>2. p \in BytesSent + 1 .. BytesSent + Len(Bytes(u)) /\ p - BytesSent = j
      BY <1>1, <1>2, <3>1
    <3>3. ByteAt(p)' = Bytes(u)[j]
      BY <1>2, <3>2
    <3> QED
      BY <2>1, <3>1, <3>3
  <2>3. Start(N)' \in Nat /\ due'[N].end = Start(N)' + UnitLen(N)' /\ due'[N].end <= BytesSent'
    BY <1>1, <1>2, <1>7, <2>1
  <2> QED
    BY <1>7, <2>1, <2>2, <2>3 DEF UnitOnLine
<1>13. BytesSent' = Start(Len(due) + 1)'
  <2>1. Start(Len(due) + 1)' = due'[Len(due')].end
    BY <1>5, <1>6 DEF Start
  <2> QED
    BY <1>6, <1>7, <2>1
<1>14. LineInv'
  BY <1>8, <1>11, <1>12, <1>13 DEF LineInv
<1> QED
  BY <1>1, <1>2, <1>5, <1>6, <1>7, <1>9, <1>14

\* What read() or the loop takes does not change the line.
LEMMA LineTaken ==
  ASSUME TypeOK, LineInv, Read \/ NextByte
  PROVE  LineInv' /\ due' = due /\ BytesSent' = BytesSent /\ BytesSent \in Nat
<1>1. due' = due
  BY DEF Read, NextByte, history
<1>2. /\ BytesSent \in Nat /\ BytesSent' = BytesSent
      /\ \A p \in 1 .. BytesSent : ByteAt(p)' = ByteAt(p)
  BY LineMoves
<1>3. Sent' = Sent /\ \A k : Start(k)' = Start(k)
  BY <1>1, SameStart
<1>4. ASSUME NEW k \in Sent PROVE UnitOnLine(k)'
  BY <1>1, <1>2, <1>3, UnitStays DEF LineInv
<1>5. BytesSent' = Start(Len(due) + 1)'
  BY <1>1, <1>2 DEF LineInv, Start
<1> QED
  BY <1>1, <1>2, <1>3, <1>4, <1>5 DEF LineInv

LEMMA LineSame ==
  ASSUME LineInv, UNCHANGED vars
  PROVE  LineInv'
BY DEF LineInv, UnitOnLine, UnitLen, Start, Sent, ByteAt, BytesSent, vars, history

LEMMA LineStep ==
  ASSUME TypeOK, LineInv, [Next]_vars
  PROVE  LineInv'
<1>1. CASE Sending
  BY <1>1, UnitSent DEF Sending
<1>2. CASE Read \/ Parse
  BY <1>2, LineTaken DEF Parse
<1>3. CASE UNCHANGED vars
  BY <1>3, LineSame
<1> QED
  BY <1>1, <1>2, <1>3, SendingSteps DEF Next, Quiet

-----------------------------------------------------------------------------
(* One byte of the loop.                                                   *)

LEMMA NextByteAt ==
  ASSUME TypeOK, NextByte
  PROVE  /\ Len(stream) \in Nat /\ Len(stream') = Len(stream) + 1
         /\ Len(stream) + 1 \in 1 .. BytesSent
         /\ Head(rxBuffer) = ByteAt(Len(stream) + 1) /\ Head(rxBuffer) \in Byte
<1>1. /\ stream \in Seq(Byte) /\ rxBuffer \in Seq(Byte) /\ line \in Seq(Byte)
      /\ rxBuffer # <<>>
  BY DEF TypeOK, NextByte
<1>2. /\ Len(stream) \in Nat /\ Len(line) \in Nat /\ Len(rxBuffer) \in Nat \ {0}
      /\ Head(rxBuffer) = rxBuffer[1]
  BY <1>1, LenProperties, EmptySeq
<1>3. Len(stream) + 1 \in 1 .. BytesSent
  BY <1>2 DEF BytesSent
<1>4. ByteAt(Len(stream) + 1) = rxBuffer[1]
  BY <1>2 DEF ByteAt
<1> QED
  BY <1>2, <1>3, <1>4, ByteTaken

\* When something is handed on, the search for a preamble starts again.
LEMMA HandStep ==
  ASSUME TypeOK, Parse
  PROVE  received' = received \/ (uIdx' = 0 /\ \E x : received' = Append(received, x))
BY DEF Parse, MatchPreamble, TakeCmd, TakeLength, TakeParam, Hand

\* What is recognised inside a unit, when it is all of it so far, is its beginning.
LEMMA RecognisedOfUnit ==
  ASSUME TypeOK, RecognisedIsRead, LineInv, NEW k \in Sent,
         Start(k) <= Len(stream), Len(stream) < due[k].end, uIdx = Len(stream) - Start(k)
  PROVE  \A i \in 1 .. uIdx : Recognised(i) = Bytes(due[k].unit)[i]
<1>1. /\ Start(k) \in Nat /\ due[k].end = Start(k) + UnitLen(k) /\ UnitLen(k) \in Nat
      /\ \A j \in 1 .. UnitLen(k) : ByteAt(Start(k) + j) = Bytes(due[k].unit)[j]
  BY UnitFacts DEF LineInv, UnitOnLine
<1>2. Len(stream) \in Nat
  BY LenProperties DEF TypeOK
<1> TAKE i \in 1 .. uIdx
<1>3. /\ i \in 1 .. UnitLen(k) /\ Len(stream) - uIdx + i = Start(k) + i
      /\ Start(k) + i <= Len(stream)
  BY <1>1, <1>2
<1>4. ByteAt(Start(k) + i) = Bytes(due[k].unit)[i]
  BY <1>1, <1>3
<1>5. ByteAt(Start(k) + i) = stream[Start(k) + i]
  BY <1>3 DEF ByteAt
<1>6. stream[Len(stream) - uIdx + i] = Recognised(i)
  BY DEF RecognisedIsRead
<1> QED
  BY <1>3, <1>4, <1>5, <1>6

\* A byte of a message that is recognised so far.  The last one hands it on.
LEMMA NextOfMessage ==
  ASSUME TypeOK, RecognisedIsRead, LineInv, Parse,
         NEW k \in Sent, Start(k) <= Len(stream), Len(stream) < due[k].end,
         IsMessage(due[k].unit), uIdx = Len(stream) - Start(k)
  PROVE  IF uIdx + 1 < UnitLen(k)
         THEN uIdx' = uIdx + 1 /\ received' = received
         ELSE uIdx' = 0 /\ received' = Append(received, due[k].unit.what)
<1> DEFINE m == due[k].unit.what
           b == Head(rxBuffer)
<1>1. NextByte /\ (MatchPreamble(b) \/ TakeCmd(b) \/ TakeLength(b) \/ TakeParam(b))
  BY DEF Parse
<1>2. /\ UnitLen(k) \in Nat /\ Start(k) \in Nat /\ m \in Messages
      /\ due[k].end = Start(k) + UnitLen(k) /\ Bytes(due[k].unit) = Frame(m)
      /\ \A j \in 1 .. UnitLen(k) : ByteAt(Start(k) + j) = Frame(m)[j]
  BY UnitFacts, UnitBytes DEF LineInv, UnitOnLine
<1>3. Len(stream) \in Nat /\ b \in Byte /\ b = ByteAt(Len(stream) + 1)
  BY <1>1, NextByteAt
<1>4. uIdx \in Nat /\ uIdx + 1 <= UnitLen(k)
  BY <1>2, <1>3
<1>5. b = Frame(m)[uIdx + 1]
  <2>1. uIdx + 1 \in 1 .. UnitLen(k) /\ Start(k) + (uIdx + 1) = Len(stream) + 1
    BY <1>2, <1>3, <1>4
  <2> QED
    BY <1>2, <1>3, <2>1
<1>6. \A i \in 1 .. uIdx : Recognised(i) = Frame(m)[i]
  BY <1>2, RecognisedOfUnit
<1>7. /\ m \in [cmd : Byte, param : Seq(Byte)] /\ UnitLen(k) = 6 + Len(m.param)
      /\ \A i \in 1 .. 4 : Frame(m)[i] = CmdPreamble[i]
      /\ Frame(m)[5] = m.cmd /\ Frame(m)[6] = Len(m.param)
      /\ \A i \in 1 .. Len(m.param) : Frame(m)[6 + i] = m.param[i]
  BY <1>2, FrameShape DEF UnitLen
<1>8. m.param \in Seq(Byte) /\ Len(m.param) \in Nat /\ m.cmd \in Byte
  BY <1>7, LenProperties
<1>9. /\ iCmd \in Byte /\ iLength \in Byte /\ param \in Seq(Byte)
      /\ uIdx > 5 => Len(param) = uIdx - 6
  BY PreambleLength DEF TypeOK
<1> HIDE DEF m, b
<1>10. Preamble = 4
  BY PreambleLength
<1>11. CASE MatchPreamble(b)
  <2>1. uIdx <= 3 /\ uIdx + 1 \in 1 .. 4
    BY <1>4, <1>10, <1>11 DEF MatchPreamble
  <2>2. b = CmdPreamble[uIdx + 1]
    BY <1>5, <1>7, <2>1
  <2>3. uIdx + 1 < UnitLen(k)
    BY <1>7, <1>8, <2>1
  <2> QED
    BY <1>11, <2>2, <2>3 DEF MatchPreamble
<1>12. CASE TakeCmd(b)
  <2>1. uIdx = 4
    BY <1>10, <1>12 DEF TakeCmd
  <2>2. uIdx + 1 < UnitLen(k)
    BY <1>7, <1>8, <2>1
  <2> QED
    BY <1>12, <2>2 DEF TakeCmd
<1>13. CASE TakeLength(b)
  <2>1. uIdx = 5
    BY <1>10, <1>13 DEF TakeLength
  <2>2. b = Len(m.param) /\ iCmd = m.cmd
    <3>1. Recognised(5) = iCmd
      BY <1>10 DEF Recognised
    <3>2. Recognised(5) = Frame(m)[5]
      BY <1>6, <2>1
    <3> QED
      BY <1>5, <1>7, <2>1, <3>1, <3>2
  <2>3. CASE b = 0
    <3>1. m.param = <<>>
      BY <1>8, <2>2, <2>3, EmptySeq
    <3>2. [cmd |-> iCmd, param |-> <<>>] = m
      BY <1>7, <2>2, <3>1
    <3>3. received' = Append(received, [cmd |-> iCmd, param |-> <<>>]) /\ uIdx' = 0
      BY <1>13, <2>3 DEF TakeLength, Hand
    <3>4. ~(uIdx + 1 < UnitLen(k))
      BY <1>7, <2>1, <2>2, <2>3
    <3> QED
      BY <3>2, <3>3, <3>4 DEF m
  <2>4. CASE b # 0
    <3>1. uIdx + 1 < UnitLen(k)
      BY <1>7, <1>8, <2>1, <2>2, <2>4
    <3> QED
      BY <1>13, <2>4, <3>1 DEF TakeLength
  <2> QED
    BY <2>3, <2>4
<1>14. CASE TakeParam(b)
  <2>1. uIdx >= 6 /\ uIdx - 5 \in 1 .. Len(m.param) /\ Len(param) = uIdx - 6
    BY <1>4, <1>7, <1>8, <1>9, <1>10, <1>14 DEF TakeParam
  <2>2. iCmd = m.cmd /\ iLength = Len(m.param)
    <3>1. Recognised(5) = iCmd /\ Recognised(6) = iLength
      BY <1>10 DEF Recognised
    <3>2. Recognised(5) = Frame(m)[5] /\ Recognised(6) = Frame(m)[6]
      BY <1>4, <1>6, <2>1
    <3> QED
      BY <1>7, <3>1, <3>2
  <2>3. ASSUME NEW i \in 1 .. Len(param) PROVE param[i] = m.param[i]
    <3>1. 6 + i \in 1 .. uIdx /\ i \in 1 .. Len(m.param)
      BY <1>4, <1>8, <2>1
    <3>2. Recognised(6 + i) = param[i]
      <4>1. ~(6 + i <= 4) /\ 6 + i # 5 /\ 6 + i # 6 /\ 6 + i - 4 - 2 = i
        BY <1>4, <2>1
      <4>2. Recognised(6 + i) = param[6 + i - 4 - 2]
        BY <1>10, <4>1 DEF Recognised
      <4> QED
        BY <4>1, <4>2
    <3>3. Frame(m)[6 + i] = m.param[i]
      BY <1>7, <3>1
    <3> QED
      BY <1>6, <3>1, <3>2, <3>3
  <2>4. b = m.param[uIdx - 5]
    <3>1. 6 + (uIdx - 5) = uIdx + 1
      BY <1>4
    <3> QED
      BY <1>5, <1>7, <2>1, <3>1
  <2>5. /\ param' = Append(param, b) /\ param' \in Seq(Byte) /\ Len(param') = uIdx - 5
        /\ \A i \in 1 .. Len(param) : param'[i] = param[i]
        /\ param'[uIdx - 5] = b
    <3>1. param' = Append(param, b) /\ b \in Byte
      BY <1>3, <1>14 DEF TakeParam, b
    <3>2. /\ param' \in Seq(Byte) /\ Len(param') = Len(param) + 1
          /\ \A i \in 1 .. Len(param) : param'[i] = param[i]
          /\ param'[Len(param) + 1] = b
      BY <1>9, <3>1, AppendProperties
    <3>3. Len(param) + 1 = uIdx - 5
      BY <1>4, <2>1
    <3> QED
      BY <3>1, <3>2, <3>3
  <2>6. uIdx - 6 >= iLength - 1 <=> ~(uIdx + 1 < UnitLen(k))
    BY <1>4, <1>7, <1>8, <2>2
  <2>7. CASE uIdx + 1 < UnitLen(k)
    <3>1. ~(uIdx - Preamble - 2 >= iLength - 1)
      BY <1>4, <1>10, <2>6, <2>7
    <3> QED
      BY <1>14, <2>7, <3>1 DEF TakeParam
  <2>8. CASE ~(uIdx + 1 < UnitLen(k))
    <3>1. uIdx - Preamble - 2 >= iLength - 1
      BY <1>4, <1>10, <2>6, <2>8
    <3>2. Len(m.param) = uIdx - 5
      BY <1>4, <1>7, <1>8, <2>8
    <3>3. ASSUME NEW i \in 1 .. Len(m.param) PROVE param'[i] = m.param[i]
      <4>1. i \in 1 .. Len(param) \/ i = uIdx - 5
        BY <1>4, <2>1, <3>2
      <4> QED
        BY <2>3, <2>4, <2>5, <4>1
    <3>4. param' = m.param
      BY <1>8, <2>5, <3>2, <3>3, SeqEqual
    <3>5. [cmd |-> iCmd, param |-> param'] = m
      BY <1>7, <2>2, <3>4
    <3>6. received' = Append(received, [cmd |-> iCmd, param |-> param']) /\ uIdx' = 0
      BY <1>14, <3>1 DEF TakeParam, Hand
    <3> QED
      BY <2>8, <3>5, <3>6 DEF m
  <2> QED
    BY <2>7, <2>8
<1> QED
  BY <1>1, <1>11, <1>12, <1>13, <1>14

-----------------------------------------------------------------------------
(* In step and out of step.                                                *)

\* How far into the first unit that has not passed the parser has looked, and
\* whether that unit is a message.
Offset == Len(stream) - Start(passed + 1)
Reading == passed < Len(due) /\ IsMessage(due[passed + 1].unit)

\* In step, all of a message so far is recognised, and nothing between two units.
\* Out of step, that was so from the message's first byte on, or the bytes before it
\* look like the beginning of another message.
StepInv ==
  /\ ~Astray /\ (Offset = 0 \/ Reading) => uIdx = Offset
  /\ Reading /\ Offset > 0 => uIdx = Offset \/ ReadsAsBeginning(Start(passed + 1))

\* All that is needed of the place on the line and of the search, beside the line.
SearchInv == PlaceInv /\ StepInv /\ LostOnlyOutOfStep

ParserInv == IInv /\ LineInv /\ SearchInv

LEMMA PlaceFacts ==
  ASSUME TypeOK, LineInv, PlaceInv
  PROVE  /\ Len(stream) \in Nat /\ Len(due) \in Nat /\ passed \in Nat
         /\ Start(passed + 1) \in Nat /\ Offset \in Nat
<1>1. Len(stream) \in Nat /\ Len(due) \in Nat /\ passed \in Nat
  BY LenProperties DEF TypeOK
<1>2. Start(passed + 1) \in Nat
  <2>1. passed = 0 \/ passed \in Sent
    BY <1>1 DEF PlaceInv, Sent
  <2>2. CASE passed \in Sent
    <3>1. due[passed].end \in Nat /\ passed >= 1
      BY <2>2, UnitFacts
    <3> QED
      BY <1>1, <3>1 DEF Start
  <2> QED
    BY <2>1, <2>2 DEF Start
<1> QED
  BY <1>1, <1>2 DEF Offset, PlaceInv

\* What counts as recognised looks like the beginning of a message.
LEMMA RecognisedReads ==
  ASSUME TypeOK, RecognisedIsRead, uIdx > 0
  PROVE  ReadsAsBeginning(Len(stream))
<1> USE PreambleLength
<1>1. uIdx \in Nat /\ Len(stream) \in Nat /\ iLength \in Byte
  BY LenProperties DEF TypeOK
<1>2. uIdx \in 1 .. Len(stream)
  BY <1>1 DEF RecognisedIsRead
<1>3. ASSUME NEW i \in 1 .. uIdx, i <= Preamble
      PROVE  stream[Len(stream) - uIdx + i] = CmdPreamble[i]
  BY <1>3 DEF RecognisedIsRead, Recognised
<1>4. ASSUME uIdx > Preamble + 1
      PROVE  uIdx < Preamble + 2 + stream[Len(stream) - uIdx + Preamble + 2]
  <2>1. 6 \in 1 .. uIdx /\ Recognised(6) = iLength
    BY <1>1, <1>4 DEF Recognised
  <2>2. stream[Len(stream) - uIdx + 6] = iLength
    BY <2>1 DEF RecognisedIsRead
  <2>3. uIdx < 6 + iLength
    BY <1>1, <1>4, LenProperties DEF TypeOK, Byte
  <2>4. Len(stream) - uIdx + Preamble + 2 = Len(stream) - uIdx + 6
    BY <1>1
  <2> QED
    BY <2>2, <2>3, <2>4
<1> QED
  BY <1>2, <1>3, <1>4 DEF ReadsAsBeginning

\* What was looked at stays what it was.
LEMMA ReadsStays ==
  ASSUME TypeOK, NextByte, NEW q \in Nat, q <= Len(stream), ReadsAsBeginning(q)
  PROVE  ReadsAsBeginning(q)'
<1> USE PreambleLength
<1>1. PICK n \in 1 .. q :
        /\ \A i \in 1 .. n : i <= Preamble => stream[q - n + i] = CmdPreamble[i]
        /\ n > Preamble + 1 => n < Preamble + 2 + stream[q - n + Preamble + 2]
  BY DEF ReadsAsBeginning
<1>2. \A i \in 1 .. Len(stream) : stream'[i] = stream[i]
  BY ByteTaken
<1>3. Len(stream) \in Nat
  BY LenProperties DEF TypeOK
<1>4. ASSUME NEW i \in 1 .. n, i <= Preamble PROVE stream'[q - n + i] = CmdPreamble[i]
  <2>1. q - n + i \in 1 .. Len(stream)
    BY <1>3
  <2> QED
    BY <1>1, <1>2, <1>4, <2>1
<1>5. ASSUME n > Preamble + 1 PROVE n < Preamble + 2 + stream'[q - n + Preamble + 2]
  <2>1. q - n + Preamble + 2 \in 1 .. Len(stream)
    BY <1>3, <1>5
  <2> QED
    BY <1>1, <1>2, <1>5, <2>1
<1>6. Preamble' = Preamble
  BY DEF Preamble
<1> QED
  BY <1>1, <1>4, <1>5, <1>6 DEF ReadsAsBeginning

\* What was lost so far keeps its reason.
LEMMA LostStay ==
  ASSUME TypeOK, PlaceInv, LineInv, NextByte, LostOnlyOutOfStep,
         NEW i \in (1 .. passed) \ arrived, IsMessage(due[i].unit)
  PROVE  i > 1 /\ i - 1 \notin arrived /\ i - 1 \in 1 .. passed /\ ReadsAsBeginning(Start(i))'
<1>1. i > 1 /\ i - 1 \notin arrived /\ ReadsAsBeginning(Start(i))
  BY DEF LostOnlyOutOfStep
<1>2. passed \in Nat /\ Len(due) \in Nat /\ Len(stream) \in Nat /\ passed <= Len(due)
  BY PlaceFacts DEF PlaceInv
<1>3. i - 1 \in 1 .. passed
  BY <1>1, <1>2
<1>4. Start(i) = due[i - 1].end
  BY <1>1 DEF Start
<1>5. Start(i) \in Nat /\ Start(i) <= Len(stream)
  <2>1. i - 1 \in Sent
    BY <1>2, <1>3 DEF Sent
  <2> QED
    BY <1>3, <1>4, <2>1, UnitFacts DEF PlaceInv
<1>6. PICK q : q = Start(i)
  OBVIOUS
<1>7. ReadsAsBeginning(q)'
  BY <1>1, <1>5, <1>6, ReadsStays
<1>8. Start(i)' = Start(i)
  BY SameStart DEF NextByte
<1> QED
  BY <1>1, <1>3, <1>6, <1>7, <1>8 DEF ReadsAsBeginning

\* The unit that the next byte is of.
LEMMA NextUnit ==
  ASSUME TypeOK, LineInv, PlaceInv, NextByte
  PROVE  /\ passed + 1 \in Sent /\ passed < Len(due)
         /\ Start(passed + 1) <= Len(stream) /\ Len(stream) < due[passed + 1].end
<1>1. Len(stream) < BytesSent /\ BytesSent \in Nat
  <2>1. Len(stream) \in Nat /\ Len(stream) + 1 \in 1 .. BytesSent
    BY NextByteAt
  <2>2. BytesSent \in Nat
    BY LineTaken
  <2> QED
    BY <2>1, <2>2
<1>2. Len(stream) \in Nat /\ Len(due) \in Nat /\ passed \in Nat
  BY PlaceFacts
<1>3. passed # Len(due)
  <2>1. ASSUME passed = Len(due) PROVE FALSE
    BY <1>1, <1>2, <2>1 DEF LineInv, PlaceInv
  <2> QED
    BY <2>1
<1>4. passed < Len(due)
  BY <1>2, <1>3 DEF PlaceInv
<1> QED
  BY <1>2, <1>4 DEF PlaceInv, Sent

\* A byte of a unit that is not its last one.
LEMMA InnerByte ==
  ASSUME TypeOK, RecognisedIsRead, LineInv, SearchInv, Parse, ~LastByte
  PROVE  /\ SearchInv' /\ passed' = passed /\ arrived' = arrived /\ due' = due
         /\ received' = received \/ Astray \/ ~IsMessage(due[passed + 1].unit)
<1>1. NextByte /\ Account /\ PlaceInv /\ StepInv /\ LostOnlyOutOfStep
  BY DEF Parse, SearchInv
<1>2. due' = due /\ passed' = passed /\ arrived' = arrived
  BY <1>1 DEF NextByte, Account, Arrives
<1>3. PICK k : k = passed + 1
  OBVIOUS
<1>4. /\ k \in Sent /\ passed < Len(due) /\ Start(k) <= Len(stream)
      /\ Len(stream) < due[k].end
  BY <1>1, <1>3, NextUnit
<1>5. /\ Len(stream) \in Nat /\ Len(stream') = Len(stream) + 1 /\ passed \in Nat
      /\ Start(k) \in Nat /\ Len(due) \in Nat
  BY <1>1, <1>3, PlaceFacts, NextByteAt
<1>6. /\ due[k].end \in Nat /\ UnitLen(k) \in Nat /\ due[k].end = Start(k) + UnitLen(k)
      /\ due[k].end # Len(stream) + 1
  BY <1>3, <1>4, UnitFacts DEF LineInv, UnitOnLine, LastByte
<1>7. Sent' = Sent /\ \A i : Start(i)' = Start(i)
  BY <1>2, SameStart
<1>8. PlaceInv'
  <2>1. ASSUME NEW i \in 1 .. passed PROVE due[i].end <= Len(stream')
    <3>1. i \in Sent /\ due[i].end <= Len(stream)
      BY <1>1, <1>4, <1>5, <2>1 DEF PlaceInv, Sent
    <3>2. due[i].end \in Nat
      BY <3>1, UnitFacts
    <3> QED
      BY <1>5, <3>1, <3>2
  <2>2. Start(k) <= Len(stream') /\ Len(stream') < due[k].end
    BY <1>4, <1>5, <1>6
  <2>3. Start(passed + 1)' = Start(k)
    BY <1>2, <1>3, <1>7
  <2> QED
    BY <1>1, <1>2, <1>3, <2>1, <2>2, <2>3 DEF PlaceInv
<1>9. Offset = Len(stream) - Start(k) /\ Offset' = Offset + 1 /\ Offset \in Nat
  BY <1>1, <1>2, <1>3, <1>5, <1>7, PlaceFacts DEF Offset
<1>10. /\ Astray' <=> Astray
       /\ Reading' <=> Reading
       /\ Reading <=> IsMessage(due[k].unit)
  BY <1>2, <1>3, <1>4 DEF Astray, Reading
<1>11. ASSUME IsMessage(due[k].unit), uIdx = Offset
       PROVE  uIdx' = Offset' /\ received' = received
  <2>1. uIdx + 1 < UnitLen(k)
    BY <1>4, <1>5, <1>6, <1>9, <1>11
  <2> QED
    BY <1>4, <1>9, <1>11, <2>1, NextOfMessage
<1>12. ASSUME Reading, uIdx # Offset PROVE ReadsAsBeginning(Start(k))'
  <2>1. ReadsAsBeginning(Start(k))
    <3>1. CASE Offset > 0
      BY <1>1, <1>3, <1>12, <3>1 DEF StepInv
    <3>2. CASE Offset = 0
      <4>1. uIdx > 0 /\ Start(k) = Len(stream)
        BY <1>5, <1>9, <1>12, <3>2 DEF TypeOK
      <4> QED
        BY <4>1, RecognisedReads
    <3> QED
      BY <1>9, <3>1, <3>2
  <2>2. PICK q : q = Start(k)
    OBVIOUS
  <2>3. ReadsAsBeginning(q)'
    BY <1>1, <1>4, <1>5, <2>1, <2>2, ReadsStays
  <2> QED
    BY <1>7, <2>2, <2>3 DEF ReadsAsBeginning
<1>13. StepInv'
  <2>1. ASSUME ~Astray', Offset' = 0 \/ Reading' PROVE uIdx' = Offset'
    <3>1. ~Astray /\ Reading
      BY <1>9, <1>10, <2>1
    <3>2. uIdx = Offset
      BY <1>1, <3>1 DEF StepInv
    <3> QED
      BY <1>10, <1>11, <3>1, <3>2
  <2>2. ASSUME Reading', uIdx' # Offset' PROVE ReadsAsBeginning(Start(passed + 1))'
    <3>1. Reading /\ uIdx # Offset
      BY <1>10, <1>11, <2>2
    <3>2. ReadsAsBeginning(Start(k))'
      BY <1>12, <3>1
    <3> QED
      BY <1>2, <1>3, <1>7, <3>2 DEF ReadsAsBeginning
  <2> QED
    BY <2>1, <2>2 DEF StepInv
<1>14. LostOnlyOutOfStep'
  <2> SUFFICES ASSUME NEW i \in (1 .. passed) \ arrived, IsMessage(due[i].unit)
               PROVE  i > 1 /\ i - 1 \notin arrived /\ ReadsAsBeginning(Start(i))'
    BY <1>2 DEF LostOnlyOutOfStep
  <2> QED
    BY <1>1, LostStay
<1>15. received' = received \/ Astray \/ ~IsMessage(due[k].unit)
  BY <1>1, <1>10, <1>11 DEF StepInv
<1> QED
  BY <1>2, <1>3, <1>8, <1>13, <1>14, <1>15 DEF SearchInv

\* The last byte of a unit.
LEMMA FinalByte ==
  ASSUME TypeOK, RecognisedIsRead, LineInv, SearchInv, Parse, LastByte
  PROVE  /\ SearchInv' /\ passed' = passed + 1 /\ due' = due
         /\ passed < Len(due) /\ passed \in Nat /\ Len(due) \in Nat
         /\ \/ /\ IsMessage(due[passed + 1].unit) /\ ~Astray'
               /\ received' = Append(received, due[passed + 1].unit.what)
            \/ /\ ~IsMessage(due[passed + 1].unit) \/ Astray
               /\ Astray'
<1>1. NextByte /\ Account /\ PlaceInv /\ StepInv /\ LostOnlyOutOfStep
  BY DEF Parse, SearchInv
<1>2. due' = due /\ passed' = passed + 1
  BY <1>1 DEF NextByte, Account
<1>3. PICK k : k = passed + 1
  OBVIOUS
<1>4. /\ k \in Sent /\ passed < Len(due) /\ Start(k) <= Len(stream)
      /\ Len(stream) < due[k].end
  BY <1>1, <1>3, NextUnit
<1>5. /\ Len(stream) \in Nat /\ Len(stream') = Len(stream) + 1 /\ passed \in Nat
      /\ Start(k) \in Nat /\ Len(due) \in Nat /\ arrived \subseteq 1 .. passed
  BY <1>1, <1>3, PlaceFacts, NextByteAt DEF TypeOK
<1>6. /\ UnitLen(k) \in Nat /\ due[k].end = Start(k) + UnitLen(k)
      /\ due[k].end = Len(stream')
  BY <1>3, <1>4, <1>5, UnitFacts DEF LineInv, UnitOnLine, LastByte
<1>7. Sent' = Sent /\ (\A i : Start(i)' = Start(i)) /\ Start(k + 1) = Len(stream')
  <2>1. k + 1 # 1 /\ (k + 1) - 1 = k
    BY <1>3, <1>5
  <2> QED
    BY <1>2, <1>6, <2>1, SameStart DEF Start
<1>8. PlaceInv'
  <2>1. ASSUME NEW i \in 1 .. k PROVE due[i].end <= Len(stream')
    <3>1. CASE i = k
      BY <1>5, <1>6, <3>1
    <3>2. CASE i # k
      <4>1. i \in 1 .. passed /\ i \in Sent
        BY <1>3, <1>4, <1>5, <3>2 DEF Sent
      <4> QED
        BY <1>1, <1>5, <4>1, UnitFacts DEF PlaceInv
    <3> QED
      BY <3>1, <3>2
  <2>2. ASSUME k < Len(due) PROVE Len(stream') < due[k + 1].end
    <3>1. k + 1 \in Sent
      BY <1>3, <1>5, <2>2 DEF Sent
    <3>2. /\ UnitLen(k + 1) \in Nat \ {0}
          /\ due[k + 1].end = Start(k + 1) + UnitLen(k + 1)
      BY <3>1, UnitFacts DEF LineInv, UnitOnLine
    <3> QED
      BY <1>5, <1>7, <3>2
  <2>3. passed' = k /\ k <= Len(due) /\ Start(passed + 1)' = Len(stream')
    <3>1. Start(passed + 1)' = Start(k + 1)'
      BY <1>2, <1>3 DEF Start
    <3> QED
      BY <1>2, <1>3, <1>4, <1>5, <1>7, <3>1
  <2> QED
    BY <1>2, <1>5, <2>1, <2>2, <2>3 DEF PlaceInv
<1>9. Offset' = 0 /\ Offset = Len(stream) - Start(k) /\ Offset \in Nat
  <2>1. Start(passed + 1)' = Start(k + 1)
    BY <1>2, <1>3, <1>7 DEF Start
  <2> QED
    BY <1>1, <1>3, <1>5, <1>7, <2>1, PlaceFacts DEF Offset
<1>10. /\ Reading <=> IsMessage(due[k].unit)
       /\ arrived' = IF Arrives THEN arrived \cup {k} ELSE arrived
       /\ k \notin arrived /\ passed' = k
       /\ Astray' <=> ~Arrives
  <2>1. Reading <=> IsMessage(due[k].unit)
    BY <1>3, <1>4 DEF Reading
  <2>2. arrived' = IF Arrives THEN arrived \cup {k} ELSE arrived
    BY <1>1, <1>3 DEF Account
  <2>3. k \notin arrived /\ k # 0 /\ passed' = k
    BY <1>2, <1>3, <1>5
  <2> QED
    BY <2>1, <2>2, <2>3 DEF Astray
<1>11. ASSUME Reading, uIdx = Offset PROVE Arrives
  <2>1. ~(uIdx + 1 < UnitLen(k))
    BY <1>4, <1>5, <1>6, <1>9, <1>11
  <2>2. received' = Append(received, due[k].unit.what)
    BY <1>4, <1>9, <1>10, <1>11, <2>1, NextOfMessage
  <2> QED
    BY <1>3, <1>10, <1>11, <2>2 DEF Arrives
<1>12. ASSUME Reading, ~Arrives
       PROVE  Astray /\ ReadsAsBeginning(Start(k))'
  <2>1. uIdx # Offset
    BY <1>11, <1>12
  <2>2. Astray
    BY <1>1, <1>12, <2>1 DEF StepInv
  <2>3. ReadsAsBeginning(Start(k))
    <3>1. CASE Offset > 0
      BY <1>1, <1>3, <1>12, <2>1, <3>1 DEF StepInv
    <3>2. CASE Offset = 0
      <4>1. uIdx > 0 /\ Start(k) = Len(stream)
        BY <1>5, <1>9, <2>1, <3>2 DEF TypeOK
      <4> QED
        BY <4>1, RecognisedReads
    <3> QED
      BY <1>9, <3>1, <3>2
  <2>4. PICK q : q = Start(k)
    OBVIOUS
  <2>5. ReadsAsBeginning(q)'
    BY <1>1, <1>4, <1>5, <2>3, <2>4, ReadsStays
  <2> QED
    BY <1>7, <2>2, <2>4, <2>5 DEF ReadsAsBeginning
<1>13. ASSUME Arrives PROVE uIdx' = 0
  <2>1. received' = Append(received, due[passed + 1].unit.what)
    BY <1>13 DEF Arrives
  <2>2. received' # received
    <3>1. Len(received') = Len(received) + 1 /\ Len(received) \in Nat
      BY <2>1 DEF TypeOK
    <3> QED
      BY <3>1
  <2> QED
    BY <2>2, HandStep
<1>14. StepInv'
  BY <1>9, <1>10, <1>13 DEF StepInv
<1>15. LostOnlyOutOfStep'
  <2> SUFFICES ASSUME NEW i \in (1 .. k) \ arrived', IsMessage(due[i].unit)
               PROVE  i > 1 /\ i - 1 \notin arrived' /\ ReadsAsBeginning(Start(i))'
    BY <1>2, <1>10 DEF LostOnlyOutOfStep
  <2>1. CASE i = k
    <3>1. ~Arrives /\ Reading /\ arrived' = arrived
      BY <1>10, <2>1
    <3>2. Astray /\ ReadsAsBeginning(Start(k))'
      BY <1>12, <3>1
    <3>3. passed # 0 /\ passed \notin arrived /\ k - 1 = passed
      BY <1>3, <1>5, <3>2 DEF Astray
    <3> QED
      BY <1>3, <1>5, <2>1, <3>1, <3>2, <3>3
  <2>2. CASE i # k
    <3>1. i \in (1 .. passed) \ arrived
      BY <1>3, <1>5, <1>10, <2>2
    <3>2. /\ i > 1 /\ i - 1 \notin arrived /\ i - 1 \in 1 .. passed
          /\ ReadsAsBeginning(Start(i))'
      BY <1>1, <3>1, LostStay
    <3>3. i - 1 # k
      BY <1>3, <1>5, <3>2
    <3> QED
      BY <1>10, <3>2, <3>3
  <2> QED
    BY <2>1, <2>2
<1>16. /\ Arrives => IsMessage(due[k].unit) /\ received' = Append(received, due[k].unit.what)
       /\ ~Arrives => ~IsMessage(due[k].unit) \/ Astray
  BY <1>3, <1>10, <1>12 DEF Arrives
<1> QED
  BY <1>2, <1>3, <1>4, <1>5, <1>8, <1>10, <1>14, <1>15, <1>16 DEF SearchInv

\* One more unit on the line.
LEMMA SendingStep ==
  ASSUME TypeOK, LineInv, SearchInv, NEW u \in Units, Send(u)
  PROVE  SearchInv'
<1>1. PlaceInv /\ StepInv /\ LostOnlyOutOfStep
  BY DEF SearchInv
<1>2. UNCHANGED <<stream, uIdx, passed, arrived>>
  BY DEF Send, parser
<1>3. /\ Len(due) \in Nat /\ Len(due') = Len(due) + 1
      /\ \A k \in 1 .. Len(due) : due'[k] = due[k]
      /\ \A k \in 1 .. Len(due) + 1 : Start(k)' = Start(k)
      /\ due'[Len(due) + 1].end > BytesSent /\ BytesSent \in Nat
      /\ due'[Len(due) + 1].end \in Nat
  BY UnitSent DEF Sent
<1>4. /\ Len(stream) \in Nat /\ passed \in Nat /\ Start(passed + 1) \in Nat
      /\ passed <= Len(due) /\ Offset \in Nat
  BY <1>1, PlaceFacts DEF PlaceInv
<1>5. Len(stream) <= BytesSent
  BY <1>3, <1>4, LenProperties DEF BytesSent, TypeOK
<1>6. Start(passed + 1)' = Start(passed + 1)
  <2>1. passed + 1 \in 1 .. Len(due) + 1
    BY <1>3, <1>4
  <2>2. PICK k : k = passed + 1
    OBVIOUS
  <2>3. Start(k)' = Start(k)
    BY <1>3, <2>1, <2>2
  <2> QED
    BY <1>2, <2>2, <2>3 DEF Start
<1>7. Offset' = Offset /\ (Astray' <=> Astray)
  BY <1>2, <1>6 DEF Offset, Astray
<1>8. passed < Len(due) =>
        due'[passed + 1] = due[passed + 1] /\ (Reading' <=> Reading)
  <2> SUFFICES ASSUME passed < Len(due)
               PROVE  due'[passed + 1] = due[passed + 1] /\ (Reading' <=> Reading)
    OBVIOUS
  <2>1. passed + 1 \in 1 .. Len(due) /\ due'[passed + 1] = due[passed + 1]
    BY <1>3, <1>4
  <2> QED
    BY <1>2, <1>3, <1>4, <2>1 DEF Reading
<1>9. passed = Len(due) => Offset = 0
  BY <1>1, <1>4, <1>5 DEF LineInv, PlaceInv, Offset
<1>10. PlaceInv'
  <2>1. Len(stream) < due'[passed + 1].end
    BY <1>1, <1>3, <1>4, <1>5, <1>8 DEF PlaceInv
  <2>2. \A i \in 1 .. passed : due'[i].end <= Len(stream)
    BY <1>1, <1>3, <1>4 DEF PlaceInv
  <2>3. passed' <= Len(due') /\ Start(passed + 1)' <= Len(stream')
    BY <1>1, <1>2, <1>3, <1>4, <1>6 DEF PlaceInv
  <2> QED
    BY <1>2, <2>1, <2>2, <2>3 DEF PlaceInv
<1>11. StepInv'
  <2>1. ReadsAsBeginning(Start(passed + 1))' <=> ReadsAsBeginning(Start(passed + 1))
    BY <1>2, <1>6 DEF ReadsAsBeginning, Preamble
  <2>2. CASE passed < Len(due)
    BY <1>1, <1>2, <1>7, <1>8, <2>1, <2>2 DEF StepInv
  <2>3. CASE passed = Len(due)
    <3>1. Offset' = 0 /\ Offset = 0
      BY <1>7, <1>9, <2>3
    <3> QED
      BY <1>1, <1>2, <1>7, <3>1 DEF StepInv
  <2> QED
    BY <1>3, <1>4, <2>2, <2>3
<1>12. LostOnlyOutOfStep'
  <2> SUFFICES ASSUME NEW i \in (1 .. passed) \ arrived, IsMessage(due'[i].unit)
               PROVE  i > 1 /\ i - 1 \notin arrived /\ ReadsAsBeginning(Start(i))'
    BY <1>2 DEF LostOnlyOutOfStep
  <2>1. i \in 1 .. Len(due) /\ i \in 1 .. Len(due) + 1
    BY <1>3, <1>4
  <2>2. due'[i] = due[i] /\ Start(i)' = Start(i)
    BY <1>3, <2>1
  <2>3. i > 1 /\ i - 1 \notin arrived /\ ReadsAsBeginning(Start(i))
    BY <1>1, <2>2 DEF LostOnlyOutOfStep
  <2> QED
    BY <1>2, <2>2, <2>3 DEF ReadsAsBeginning, Preamble
<1> QED
  BY <1>10, <1>11, <1>12 DEF SearchInv

\* Steps that neither send nor look at a byte.
LEMMA SearchSame ==
  ASSUME SearchInv, UNCHANGED <<stream, uIdx, history>>
  PROVE  SearchInv'
BY DEF SearchInv, PlaceInv, StepInv, LostOnlyOutOfStep, Reading, Offset, Astray, Start,
   ReadsAsBeginning, Preamble, history

LEMMA SearchStep ==
  ASSUME TypeOK, RecognisedIsRead, LineInv, SearchInv, [Next]_vars
  PROVE  SearchInv'
<1>1. CASE Sending
  BY <1>1, SendingStep DEF Sending
<1>2. CASE Read \/ UNCHANGED vars
  <2>1. UNCHANGED <<stream, uIdx, history>>
    BY <1>2 DEF Read, vars, parser, history
  <2> QED
    BY <2>1, SearchSame
<1>3. CASE Parse
  BY <1>3, InnerByte, FinalByte
<1> QED
  BY <1>1, <1>2, <1>3, SendingSteps DEF Next, Quiet

LEMMA ParserInductive == Spec => []ParserInv
<1>1. Init => LineInv /\ SearchInv
  <2> SUFFICES ASSUME Init PROVE LineInv /\ SearchInv
    OBVIOUS
  <2>1. /\ due = <<>> /\ stream = <<>> /\ rxBuffer = <<>> /\ line = <<>> /\ uIdx = 0
        /\ passed = 0 /\ Len(due) = 0 /\ Len(stream) = 0 /\ Sent = {} /\ BytesSent = 0
    BY EmptySeq DEF Init, Sent, BytesSent
  <2>2. LineInv /\ PlaceInv
    BY <2>1 DEF LineInv, PlaceInv, Start
  <2>3. StepInv /\ LostOnlyOutOfStep
    BY <2>1 DEF StepInv, LostOnlyOutOfStep, Offset, Reading, Start
  <2> QED
    BY <2>2, <2>3 DEF SearchInv
<1>2. IInv /\ LineInv /\ SearchInv /\ [Next]_vars => LineInv' /\ SearchInv'
  BY LineStep, SearchStep DEF IInv
<1> QED
  BY <1>1, <1>2, Inductive, PTL DEF Spec, ParserInv

-----------------------------------------------------------------------------
(* The channel.                                                            *)

\* The units on the way, when c of them have passed.
Window(D, c) == [i \in 1 .. Len(D) - c |-> D[i + c].unit]

LEMMA WindowType ==
  ASSUME NEW D \in Seq([unit : Units, end : Nat]), NEW c \in 0 .. Len(D)
  PROVE  /\ Window(D, c) \in Seq(Units) /\ Len(Window(D, c)) = Len(D) - c
         /\ \A i \in 1 .. Len(D) - c : Window(D, c)[i] = D[i + c].unit
<1>1. Len(D) \in Nat
  BY LenProperties
<1>2. ASSUME NEW i \in 1 .. Len(D) - c PROVE D[i + c].unit \in Units
  <2>1. i + c \in 1 .. Len(D)
    BY <1>1
  <2>2. D[i + c] \in [unit : Units, end : Nat]
    BY <2>1, ElementOfSeq
  <2> QED
    BY <2>2
<1>3. PICK n \in Nat : n = Len(D) - c
  BY <1>1
<1>4. Window(D, c) = [i \in 1 .. n |-> D[i + c].unit]
  BY <1>3 DEF Window
<1>5. Window(D, c) \in Seq(Units) /\ Len(Window(D, c)) = n
  BY <1>2, <1>3, <1>4
<1>6. \A i \in 1 .. n : Window(D, c)[i] = D[i + c].unit
  BY <1>4
<1> QED
  BY <1>3, <1>5, <1>6

LEMMA UnderwayIs == Underway = Window(due, passed) /\ Underway' = Window(due', passed')
BY DEF Underway, Window

\* A unit is sent.
LEMMA UnderwayGrows ==
  ASSUME TypeOK, LineInv, PlaceInv, NEW u \in Units, Send(u)
  PROVE  Underway' = Append(Underway, u)
<1>1. /\ Len(due) \in Nat /\ Len(due') = Len(due) + 1 /\ due'[Len(due) + 1].unit = u
      /\ \A k \in 1 .. Len(due) : due'[k] = due[k]
  BY UnitSent DEF Sent
<1>2. /\ due \in Seq([unit : Units, end : Nat]) /\ due' \in Seq([unit : Units, end : Nat])
      /\ passed' = passed
  BY UnitSent DEF TypeOK, Send
<1>3. passed \in 0 .. Len(due)
  BY <1>1 DEF PlaceInv, TypeOK
<1>4. PICK n \in Nat : n = Len(due) - passed
  <2>1. Len(due) - passed \in Nat
    BY <1>1, <1>3
  <2> QED
    BY <2>1
<1>5. /\ Underway \in Seq(Units) /\ Len(Underway) = n
      /\ \A i \in 1 .. n : Underway[i] = due[i + passed].unit
  BY <1>2, <1>3, <1>4, UnderwayIs, WindowType
<1>6. /\ Underway' \in Seq(Units) /\ Len(Underway') = n + 1
      /\ \A i \in 1 .. n + 1 : Underway'[i] = due'[i + passed].unit
  <2>1. passed \in 0 .. Len(due') /\ Len(due') - passed = n + 1
    BY <1>1, <1>3, <1>4
  <2> QED
    BY <1>2, <2>1, UnderwayIs, WindowType
<1>7. /\ Append(Underway, u) \in Seq(Units) /\ Len(Append(Underway, u)) = n + 1
      /\ \A i \in 1 .. n : Append(Underway, u)[i] = Underway[i]
      /\ Append(Underway, u)[n + 1] = u
  BY <1>5, AppendProperties
<1>8. ASSUME NEW i \in 1 .. n + 1 PROVE Underway'[i] = Append(Underway, u)[i]
  <2>1. CASE i \in 1 .. n
    <3>1. i + passed \in 1 .. Len(due)
      BY <1>1, <1>3, <1>4, <2>1
    <3> QED
      BY <1>1, <1>5, <1>6, <1>7, <2>1, <3>1
  <2>2. CASE i = n + 1
    <3>1. i + passed = Len(due) + 1
      BY <1>1, <1>3, <1>4, <2>2
    <3> QED
      BY <1>1, <1>6, <1>7, <2>2, <3>1
  <2>3. i \in 1 .. n \/ i = n + 1
    BY <1>4
  <2> QED
    BY <2>1, <2>2, <2>3
<1> QED
  BY <1>6, <1>7, <1>8, SeqEqual

\* There is a unit on the way while a byte is looked at.
LEMMA UnderwayHead ==
  ASSUME TypeOK, passed < Len(due)
  PROVE  /\ Underway \in Seq(Units) /\ Underway # <<>>
         /\ Head(Underway) = due[passed + 1].unit
<1>1. /\ due \in Seq([unit : Units, end : Nat]) /\ Len(due) \in Nat
      /\ passed \in 0 .. Len(due)
  BY LenProperties DEF TypeOK
<1>2. /\ Underway \in Seq(Units) /\ Len(Underway) = Len(due) - passed
      /\ \A i \in 1 .. Len(due) - passed : Underway[i] = due[i + passed].unit
  BY <1>1, UnderwayIs, WindowType
<1>3. 1 \in 1 .. Len(due) - passed /\ 1 + passed = passed + 1 /\ Len(Underway) # 0
  BY <1>1, <1>2
<1>4. Underway # <<>>
  BY <1>3, EmptySeq
<1> QED
  BY <1>2, <1>3, <1>4

\* The last byte of a unit takes it off the way.
LEMMA UnderwayShrinks ==
  ASSUME TypeOK, passed < Len(due), passed' = passed + 1, due' = due
  PROVE  Underway' = Tail(Underway)
<1>1. /\ due \in Seq([unit : Units, end : Nat]) /\ Len(due) \in Nat
      /\ passed \in Nat /\ passed \in 0 .. Len(due) /\ passed + 1 \in 0 .. Len(due)
  BY LenProperties DEF TypeOK
<1>2. PICK n \in Nat : n = Len(due) - (passed + 1)
  <2>1. Len(due) - (passed + 1) \in Nat
    BY <1>1
  <2> QED
    BY <2>1
<1>3. /\ Underway \in Seq(Units) /\ Len(Underway) = n + 1
      /\ \A i \in 1 .. n + 1 : Underway[i] = due[i + passed].unit
  <2>1. n + 1 = Len(due) - passed
    BY <1>1, <1>2
  <2> QED
    BY <1>1, <2>1, UnderwayIs, WindowType
<1>4. /\ Underway' \in Seq(Units) /\ Len(Underway') = n
      /\ \A i \in 1 .. n : Underway'[i] = due[i + (passed + 1)].unit
  BY <1>1, <1>2, UnderwayIs, WindowType
<1>5. /\ Tail(Underway) \in Seq(Units) /\ Len(Tail(Underway)) = n
      /\ \A i \in 1 .. n : Tail(Underway)[i] = Underway[i + 1]
  <2>1. Underway # <<>>
    BY <1>1, UnderwayHead
  <2> QED
    BY <1>3, <2>1, HeadTailProperties
<1>6. ASSUME NEW i \in 1 .. n PROVE Underway'[i] = Tail(Underway)[i]
  <2>1. i + 1 \in 1 .. n + 1 /\ i + 1 + passed = i + (passed + 1)
    BY <1>1
  <2> QED
    BY <1>3, <1>4, <1>5, <2>1
<1> QED
  BY <1>4, <1>5, <1>6, SeqEqual

\* What is handed on is received by the channel, or strays into it.
LEMMA StrayStep ==
  ASSUME TypeOK, Parse
  PROVE  received' = received \/ Channel!Stray
<1>1. ASSUME NEW x, received' = Append(received, x) PROVE Channel!Stray
  <2>1. received \in Seq([cmd : Byte, param : Seq(Byte)])
    BY DEF TypeOK
  <2>2. received' \in Seq([cmd : Byte, param : Seq(Byte)])
    BY TypeStep DEF TypeOK, Next
  <2>3. /\ Len(received) \in Nat /\ Len(received') = Len(received) + 1
        /\ \A i \in 1 .. Len(received) : received'[i] = received[i]
    BY <1>1, <2>1
  <2>4. SubSeq(received', 1, Len(received)) = received
    BY <2>1, <2>2, <2>3
  <2> QED
    BY <2>3, <2>4 DEF Channel!Stray
<1> QED
  BY <1>1, HandStep

LEMMA ChannelStep ==
  ASSUME ParserInv, [Next]_vars
  PROVE  Channel!Next \/ UNCHANGED <<Underway, received, Astray>>
<1>1. TypeOK /\ RecognisedIsRead /\ LineInv /\ SearchInv /\ PlaceInv
  BY DEF ParserInv, IInv, SearchInv
<1>2. CASE Sending
  <2>1. PICK u \in Units : Send(u)
    BY <1>2 DEF Sending
  <2>2. Underway' = Append(Underway, u)
    BY <1>1, <2>1, UnderwayGrows
  <2>3. UNCHANGED <<received, Astray>>
    BY <2>1 DEF Send, Astray
  <2> QED
    BY <2>2, <2>3 DEF Channel!Next, Channel!Send, Channel!Units, Units
<1>3. CASE Read \/ UNCHANGED vars
  BY <1>3 DEF Read, vars, history, Underway, Astray
<1>4. CASE Parse
  <2>1. /\ passed < Len(due) /\ Underway # <<>>
        /\ Head(Underway) = due[passed + 1].unit
    BY <1>1, <1>4, NextUnit, UnderwayHead DEF Parse
  <2>2. Channel!IsMessage(Head(Underway)) <=> IsMessage(due[passed + 1].unit)
    BY <2>1 DEF Channel!IsMessage, IsMessage
  <2>3. received' = received \/ Channel!Stray
    BY <1>1, <1>4, StrayStep
  <2>4. CASE LastByte
    <3>1. /\ passed' = passed + 1 /\ due' = due
          /\ \/ /\ IsMessage(due[passed + 1].unit) /\ ~Astray'
                /\ received' = Append(received, due[passed + 1].unit.what)
             \/ /\ ~IsMessage(due[passed + 1].unit) \/ Astray
                /\ Astray'
      BY <1>1, <1>4, <2>4, FinalByte
    <3>2. Underway' = Tail(Underway)
      BY <1>1, <2>1, <3>1, UnderwayShrinks
    <3>3. ASSUME IsMessage(due[passed + 1].unit), ~Astray',
                 received' = Append(received, due[passed + 1].unit.what)
          PROVE  Channel!Receive
      <4>1. Astray' = FALSE
        BY <3>3 DEF Astray
      <4> QED
        BY <2>1, <2>2, <3>2, <3>3, <4>1 DEF Channel!Receive
    <3>4. ASSUME ~IsMessage(due[passed + 1].unit) \/ Astray, Astray' PROVE Channel!Lose
      <4>1. Astray' = TRUE
        BY <3>4 DEF Astray
      <4> QED
        BY <2>1, <2>2, <2>3, <3>2, <3>4, <4>1 DEF Channel!Lose, Channel!OutOfStep
    <3> QED
      BY <3>1, <3>3, <3>4 DEF Channel!Next
  <2>5. CASE ~LastByte
    <3>1. /\ passed' = passed /\ arrived' = arrived /\ due' = due
          /\ received' = received \/ Astray \/ ~IsMessage(due[passed + 1].unit)
      BY <1>1, <1>4, <2>5, InnerByte
    <3>2. UNCHANGED <<Underway, Astray>>
      BY <3>1 DEF Underway, Astray
    <3> QED
      BY <2>1, <2>2, <2>3, <3>1, <3>2 DEF Channel!Next, Channel!MisRead, Channel!OutOfStep
  <2> QED
    BY <2>4, <2>5
<1> QED
  BY <1>2, <1>3, <1>4, SendingSteps DEF Next, Quiet

-----------------------------------------------------------------------------
(* The theorems.                                                           *)

\* runReceiveThread(): paramBuffer is never overrun, whatever is on the line.
THEOREM BufferSuffices == Spec => []TypeOK
<1>1. IInv => TypeOK
  BY DEF IInv
<1> QED
  BY Inductive, <1>1, PTL

\* runReceiveThread(): what counts as recognised are the last bytes of the line,
\* so every message that is handed on stood there in one piece.
THEOREM MessagesStoodOnLine == Spec => []RecognisedIsRead
<1>1. IInv => RecognisedIsRead
  BY DEF IInv
<1> QED
  BY Inductive, <1>1, PTL

\* runReceiveThread(): a message is lost only behind noise or another lost message,
\* and only when the bytes before it look like the beginning of a message.
THEOREM LostOnlyOutOfStepCorrect == Spec => []LostOnlyOutOfStep
<1>1. ParserInv => LostOnlyOutOfStep
  BY DEF ParserInv, SearchInv
<1> QED
  BY ParserInductive, <1>1, PTL

\* runReceiveThread(): the messages of the stick arrive in order, at most once and
\* unchanged; between noise and the next one received some may be lost, and others
\* handed on that were none.
THEOREM ImplementsChannelCorrect == Spec => ImplementsChannel
<1>1. Init => Channel!Init
  <2> SUFFICES ASSUME Init PROVE Underway = <<>> /\ received = <<>> /\ Astray = FALSE
    BY DEF Channel!Init
  <2>1. due = <<>> /\ Len(due) = 0 /\ passed = 0 /\ received = <<>>
    BY DEF Init
  <2>2. Underway = <<>>
    BY <2>1 DEF Underway
  <2> QED
    BY <2>1, <2>2 DEF Astray
<1>2. ParserInv /\ [Next]_vars => [Channel!Next]_<<Underway, received, Astray>>
  BY ChannelStep
<1> QED
  BY <1>1, <1>2, ParserInductive, PTL DEF Spec, ImplementsChannel, Channel!Spec
=============================================================================
