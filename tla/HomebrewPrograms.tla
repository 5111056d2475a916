-------------------------- MODULE HomebrewPrograms --------------------------
(***************************************************************************)
(* main() of parrot.cpp and dmrrec.cpp (src/src/software/                  *)
(* homebrewclient-test) as the application of HomebrewClient: parrot sends *)
(* back what it has received for some seconds, dmrrec records to a file or *)
(* plays one.  The program and its options are chosen at the start.  A     *)
(* step of main() is one call of the client together with what main() does *)
(* around it; SIGINT may come between any two steps.                       *)
(***************************************************************************)
EXTENDS HomebrewClient, HomebrewPacket

CONSTANTS
  Programs,  \* the programs to run
  Overrides, \* -did: 0, a private call's number, or a group's as a negative one
  RecTime,   \* -rtime
  OwnId,     \* -id, the bits of the repeater's number
  Content,   \* the bytes of each DMR packet that the server sends
  Tape       \* the packets of the file that dmrrec plays

ASSUME ProgramsAssumption == Programs \subseteq {"parrot", "record", "play"}
ASSUME OptionsAssumption ==
  Overrides \subseteq Int /\ RecTime \in Nat /\ OwnId \in Int32
ASSUME PacketsAssumption ==
  Content \in [1 .. MaxPackets -> Data] /\ Tape \in Seq(Data)

VARIABLES
  program,     \* the program that runs, with dmrrec's two modes told apart
  loop,        \* bLoopMode
  override,    \* iDstIdOverride
  place,       \* what main() does next
  secs,        \* i, the seconds of recording that are left
  exitRequest, \* g_bExitRequest
  taken,       \* packets getRxPacket() had returned before the last call
  pos,         \* packets read from the file since rewind()
  out          \* packets main() has sent or, to record, written

optionVars == <<program, loop, override>>
progVars == <<optionVars, place, secs, exitRequest, taken, pos, out>>
allVars == <<vars, progVars>>

Places == {"configure", "connect", "connected", "file", "second", "take", "taken",
           "rewind", "read", "close", "destroy", "done"}

\* main() is not inside a call of the client.
Calls(p) == At(Main, "app") /\ place = p
Then(p) == place' = p

Magnitude(n) == IF n < 0 THEN -n ELSE n
BitsOf(n) == {i \in Bits(31) : (n \div 2 ^ i) % 2 = 1}

\* What main() changes in a packet before it sends it.
Readdressed(d) ==
  LET own == SetRptId(d, OwnId)
  IN  IF override = 0 THEN own
      ELSE SetGroupCall(SetDstId(own, BitsOf(Magnitude(override))), override < 0)

-----------------------------------------------------------------------------
(* Start and end.                                                          *)

\* The options are parsed and the setters called.
Configure ==
  /\ Calls("configure") /\ Then("connect")
  /\ \E c \in Configs : AppConfigure(c)
  /\ UNCHANGED <<optionVars, secs, exitRequest, taken, pos, out>>

Connect ==
  /\ Calls("connect") /\ Then("connected")
  /\ \E h \in Hosts, d \in Dialects : AppOpen(h, d)
  /\ UNCHANGED <<optionVars, secs, exitRequest, taken, pos, out>>

\* open() refuses a number of -sd that is no dialect, before it does anything.
ConnectRefused ==
  /\ Calls("connect") /\ Then("destroy")
  /\ UNCHANGED <<vars, optionVars, secs, exitRequest, taken, pos, out>>

\* The result of open(); it returns true when it has started the thread.
Connected ==
  /\ Calls("connected")
  /\ IF threadState = "IDLE" THEN Then("destroy") /\ UNCHANGED secs
     ELSE IF program = "parrot" THEN Then("second") /\ secs' = RecTime
     ELSE Then("file") /\ UNCHANGED secs
  /\ UNCHANGED <<vars, optionVars, exitRequest, taken, pos, out>>

Close ==
  /\ Calls("close") /\ AppClose("close") /\ Then("destroy")
  /\ UNCHANGED <<optionVars, secs, exitRequest, taken, pos, out>>

\* The return from main() destroys the client.
Return ==
  /\ Calls("destroy") /\ AppClose("destroy") /\ Then("done")
  /\ UNCHANGED <<optionVars, secs, exitRequest, taken, pos, out>>

-----------------------------------------------------------------------------
(* Recording: parrot waits, dmrrec empties the queue every second.         *)

\* dmrrec opens its file, which may fail.
FileOpen ==
  /\ Calls("file")
  /\ \/ Then("close") /\ UNCHANGED secs
     \/ program = "record" /\ Then("second") /\ secs' = RecTime
     \/ program = "play" /\ Then("rewind") /\ UNCHANGED secs
  /\ UNCHANGED <<vars, optionVars, exitRequest, taken, pos, out>>

\* Mutant: the loop runs for i = 0 as well.
SecondTooMany ==
  /\ Calls("second") /\ secs >= 0 /\ ~exitRequest
  /\ secs' = secs - 1
  /\ IF program = "record" THEN Then("take") ELSE UNCHANGED place
  /\ UNCHANGED <<vars, optionVars, exitRequest, taken, pos, out>>

Second ==
  /\ Calls("second") /\ secs > 0 /\ ~exitRequest
  /\ secs' = secs - 1
  /\ IF program = "record" THEN Then("take") ELSE UNCHANGED place
  /\ UNCHANGED <<vars, optionVars, exitRequest, taken, pos, out>>

SecondsOver ==
  /\ Calls("second") /\ (secs = 0 \/ exitRequest)
  /\ Then(IF program = "parrot" /\ ~exitRequest THEN "take" ELSE "close")
  /\ UNCHANGED <<vars, optionVars, secs, exitRequest, taken, pos, out>>

Take ==
  /\ Calls("take") /\ AppGet /\ Then("taken")
  /\ taken' = Len(delivered)
  /\ UNCHANGED <<optionVars, secs, exitRequest, pos, out>>

\* Mutant: the result is not tested for NULL.
GotUntested == delivered # <<>>

\* getRxPacket() has not returned NULL.
Got == Len(delivered) > taken
Taken == Content[delivered[Len(delivered)].id]

Record ==
  /\ Calls("taken") /\ Got /\ ~exitRequest /\ program = "record"
  /\ out' = Append(out, Taken) /\ Then("take")
  /\ UNCHANGED <<vars, optionVars, secs, exitRequest, taken, pos>>

Replay ==
  /\ Calls("taken") /\ Got /\ ~exitRequest /\ program = "parrot"
  /\ AppSend
  /\ out' = Append(out, Readdressed(Taken)) /\ Then("take")
  /\ UNCHANGED <<optionVars, secs, exitRequest, taken, pos>>

\* Mutant: parrot starts over although SIGINT has ended its replay.
AgainAnyway == loop

\* The condition of the outer loop of parrot and of dmrrec's playing.
Again == loop /\ ~exitRequest

\* The queue is empty, or SIGINT has come; then a packet that was taken is
\* neither handled nor deleted.
TakesOver ==
  /\ Calls("taken") /\ (~Got \/ exitRequest)
  /\ IF program = "record" THEN Then("second") /\ UNCHANGED secs
     ELSE IF Again THEN Then("second") /\ secs' = RecTime
     ELSE Then("close") /\ UNCHANGED secs
  /\ UNCHANGED <<vars, optionVars, exitRequest, taken, pos, out>>

-----------------------------------------------------------------------------
(* Playing a file.                                                         *)

\* Each round sends the whole file; out keeps the packets of the last round.
Rewind ==
  /\ Calls("rewind") /\ Then("read")
  /\ pos' = 0 /\ out' = <<>>
  /\ UNCHANGED <<vars, optionVars, secs, exitRequest, taken>>

Play ==
  /\ Calls("read") /\ pos < Len(Tape) /\ ~exitRequest
  /\ AppSend
  /\ pos' = pos + 1 /\ out' = Append(out, Readdressed(Tape[pos + 1]))
  /\ UNCHANGED <<optionVars, place, secs, exitRequest, taken>>

PlayOver ==
  /\ Calls("read") /\ (pos = Len(Tape) \/ exitRequest)
  /\ Then(IF Again THEN "rewind" ELSE "close")
  /\ UNCHANGED <<vars, optionVars, secs, exitRequest, taken, pos, out>>

\* SignalHandler(), which is installed before open().
Interrupt ==
  /\ ~aborted /\ place \notin {"configure", "done"} /\ ~exitRequest
  /\ exitRequest' = TRUE
  /\ UNCHANGED <<vars, optionVars, place, secs, taken, pos, out>>

-----------------------------------------------------------------------------
(* The specification.                                                      *)

ProgInit ==
  /\ Init
  /\ program \in Programs
  /\ loop \in BOOLEAN /\ override \in Overrides
  /\ program = "record" => ~loop /\ override = 0
  /\ place = "configure"
  /\ secs = 0 /\ exitRequest = FALSE /\ taken = 0
  /\ pos = 0 /\ out = <<>>

ProgStep ==
  \/ Configure \/ Connect \/ ConnectRefused \/ Connected \/ Close \/ Return
  \/ FileOpen \/ Second \/ SecondsOver
  \/ Take \/ Record \/ Replay \/ TakesOver
  \/ Rewind \/ Play \/ PlayOver

ClientStep == (MainStep \/ RxStep \/ Tick \/ Terminated) /\ UNCHANGED progVars

ProgNext == ProgStep \/ Interrupt \/ ClientStep

ProgSpec == ProgInit /\ [][ProgNext]_allVars

\* main() goes on, and so do the threads; nobody need press CTRL+C.
FairProgSpec ==
  /\ ProgSpec
  /\ WF_allVars(ProgStep)
  /\ WF_allVars(MainStep /\ UNCHANGED progVars)
  /\ WF_allVars(RxStep /\ UNCHANGED progVars)

-----------------------------------------------------------------------------
(* Properties.                                                             *)

\* The type invariant; the client's own variables are those of HomebrewClient.
ProgTypeOK ==
  /\ program \in Programs /\ loop \in BOOLEAN /\ override \in Overrides
  /\ place \in Places
  /\ secs \in 0 .. RecTime /\ exitRequest \in BOOLEAN
  /\ taken \in Nat /\ pos \in 0 .. Len(Tape)
  /\ out \in Seq(Data)

\* Packets main() has got, from the server or from the file of this round.
Input ==
  IF program = "play" THEN SubSeq(Tape, 1, pos)
  ELSE [i \in 1 .. Len(delivered) |-> Content[delivered[i].id]]

\* What main() sends or writes is what it got, each packet once and in the order
\* of their arrival; only SIGINT can make it drop one, the last.
RecordingKept ==
  /\ Len(out) \in {Len(Input), Len(Input) - 1}
  /\ Len(out) < Len(Input) => exitRequest \/ place = "taken"
  /\ \A i \in 1 .. Len(out) :
       SeqNum(out[i]) = SeqNum(Input[i]) /\ StreamId(out[i]) = StreamId(Input[i])

\* A packet is sent with this repeater's number and, with -did, to that number as
\* the kind of call its sign asks for; every other field is as it was received.
\* The recording keeps all of them.
AddressedAs(f, d) ==
  IF program = "record" THEN Get(d, f)
  ELSE CASE f = "RptId" -> OwnId
         [] override # 0 /\ f = "DstId" -> BitsOf(Magnitude(override)) \cap Room(f)
         [] override # 0 /\ f = "GroupCall" -> IF override < 0 THEN {0} ELSE {}
         [] OTHER -> Get(d, f)
ReplayReaddressed ==
  \A i \in 1 .. Len(out), f \in Fields : Get(out[i], f) = AddressedAs(f, Input[i])

\* When main() has returned, on whichever of its ways, the server has a logout for
\* every login, and no receive thread is left.
EndsLoggedOut ==
  pc[Main] = "destroyed" =>
    /\ pc[Rx] = "none"
    /\ \A s \in 1 .. opens : "RPTL" \in SentOn(s) => "RPTCL" \in SentOn(s)

\* Without -loop every program comes to its end, and with it once CTRL+C has been
\* pressed: no wait for the queue, the clock, the file or the thread is for ever,
\* as long as the queue does not overflow.
ProgramEnds ==
  (exitRequest \/ ~loop) ~> (aborted \/ pc[Main] = "destroyed")
=============================================================================
