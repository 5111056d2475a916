------------------------------- MODULE TcpLine -------------------------------
(***************************************************************************)
(* TCPSocket::recvline() of src/src/lib/socket/socketlib.cpp: lines cut    *)
(* from a stream one byte at a time.  The stream is fixed by what the peer *)
(* sends; a byte of text is known by its place in it.                      *)
(***************************************************************************)
EXTENDS Integers, Sequences

CONSTANTS
  Streams,  \* what the peer may send: sequences over "CR", "LF" and "text"
  Rooms,    \* the sizes a caller's buffer may have
  MaxLines  \* bound: the calls of recvline()

ASSUME RoomsAssumption == Rooms \subseteq Nat /\ MaxLines \in Nat
ASSUME StreamsAssumption == \A s \in Streams : s \in Seq({"CR", "LF", "text"})

VARIABLES
  stream,    \* what the peer sends
  consumed,  \* how much of it recv() has returned
  reading,   \* recvline() is running
  maxbytes,  \* the room left in its buffer
  text,      \* the places of the bytes in the buffer
  lines      \* what the calls so far have returned, and why they returned

lineVars == <<stream, consumed, reading, maxbytes, text, lines>>

LineInit ==
  /\ stream \in Streams /\ consumed = 0
  /\ reading = FALSE /\ maxbytes = 0 /\ text = <<>> /\ lines = <<>>

CallRecvLine(room) ==
  /\ ~reading /\ Len(lines) < MaxLines
  /\ reading' = TRUE /\ maxbytes' = room /\ text' = <<>>
  /\ UNCHANGED <<stream, consumed, lines>>

\* The loop is left: the text is terminated, if there is room, and returned.
LineEnds(why) ==
  /\ reading' = FALSE
  /\ lines' = Append(lines, [text |-> text, why |-> why])
  /\ UNCHANGED <<stream, maxbytes, text>>

BufferFull ==
  /\ reading /\ maxbytes <= 1
  /\ LineEnds("full") /\ UNCHANGED consumed

\* The end of the stream, a reset connection or a signal.
RecvNothing ==
  /\ reading /\ maxbytes > 1
  /\ LineEnds("nothing") /\ UNCHANGED consumed

Arrives(byte) ==
  /\ reading /\ maxbytes > 1 /\ consumed < Len(stream)
  /\ consumed' = consumed + 1 /\ stream[consumed'] = byte

RecvCR == Arrives("CR") /\ LineEnds("CR")

\* Mutant: every line feed is taken for the second half of "\r\n".
RecvLFSkipped ==
  /\ Arrives("LF")
  /\ UNCHANGED <<stream, reading, maxbytes, text, lines>>

\* A line feed ends a text, and is otherwise taken for the second half of "\r\n".
RecvLF ==
  /\ Arrives("LF")
  /\ IF text # <<>> THEN LineEnds("LF")
     ELSE UNCHANGED <<stream, reading, maxbytes, text, lines>>

RecvText ==
  /\ Arrives("text")
  /\ text' = Append(text, consumed') /\ maxbytes' = maxbytes - 1
  /\ UNCHANGED <<stream, reading, lines>>

LineStep ==
  \/ \E room \in Rooms : CallRecvLine(room)
  \/ BufferFull \/ RecvNothing \/ RecvCR \/ RecvLF \/ RecvText

-----------------------------------------------------------------------------
(* Properties.                                                             *)

Places(t) == {t[i] : i \in DOMAIN t}
Texts == {lines[i].text : i \in DOMAIN lines} \cup {text}

\* The lines of recvline() carry the text of the stream: every byte of text received
\* is in a line, the lines keep the order of the stream, none runs across a line end,
\* and text is cut between two bytes only where the buffer was full or recv() had
\* nothing to give.
LinesAsSent ==
  /\ UNION {Places(t) : t \in Texts} = {p \in 1..consumed : stream[p] = "text"}
  /\ \A t \in Texts : \A i \in 1..(Len(t) - 1) : t[i + 1] = t[i] + 1
  /\ \A i \in DOMAIN lines : \A j \in (i + 1)..Len(lines) :
       \A p \in Places(lines[i].text), q \in Places(lines[j].text) : p < q
  /\ \A i \in DOMAIN lines :
       lines[i].text # <<>> /\ lines[i].why \notin {"full", "nothing"}
         => stream[lines[i].text[Len(lines[i].text)] + 1] = lines[i].why
=============================================================================
