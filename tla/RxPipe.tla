------------------------------- MODULE RxPipe -------------------------------
(***************************************************************************)
(* What HomebrewClient promises about the DMR packets it receives: a       *)
(* first-in first-out pipe from the network to the application.  Packets   *)
(* are numbered in the order of their arrival.  A pipe that holds more     *)
(* than Limit packets may drop its oldest.                                 *)
(***************************************************************************)
EXTENDS Naturals, Sequences

CONSTANT Limit

VARIABLES
  pipe,     \* numbers of the packets accepted and neither handed out nor dropped
  accepted, \* number of packets accepted
  handed    \* numbers of the packets handed to the application

pipeVars == <<pipe, accepted, handed>>

PipeInit ==
  /\ pipe = <<>>
  /\ accepted = 0
  /\ handed = <<>>

Accept ==
  /\ accepted' = accepted + 1
  /\ pipe' = Append(pipe, accepted + 1)
  /\ UNCHANGED handed

Deliver ==
  /\ pipe # <<>>
  /\ handed' = Append(handed, Head(pipe))
  /\ pipe' = Tail(pipe)
  /\ UNCHANGED accepted

DropOldest ==
  /\ Len(pipe) > Limit
  /\ pipe' = Tail(pipe)
  /\ UNCHANGED <<accepted, handed>>

PipeNext == Accept \/ Deliver \/ DropOldest

PipeSpec == PipeInit /\ [][PipeNext]_pipeVars
=============================================================================
