----------------------------- MODULE DV4Server ------------------------------
(***************************************************************************)
(* main() of src/src/hardware/dv4mini/dv4mini-server.cpp as the            *)
(* application of DV4Mini: it opens the stick, plays a file or watches the *)
(* signal strength, and returns.  Its locals mini and fsink are destroyed  *)
(* by the return in the opposite order of their declarations.  The         *)
(* options of the command line are chosen where main() asks for them.      *)
(***************************************************************************)
EXTENDS DV4Mini

CONSTANT FileBlocks \* bound: blocks of the file that is played

\* main() makes only calls of the driver that DV4Mini knows.
ASSUME ServerCommandsAssumption ==
  {"SETADFQRG", "LED_ON", "ADFWRITE", "FLUSHTXBUF"} \subseteq AppCommands
ASSUME BlocksAssumption == FileBlocks \in Nat

VARIABLES
  place,   \* what main() does next
  fsink,   \* the FileSink: "none", "alive" or "destroyed"
  blocks,  \* blocks read from the file to play
  failure  \* the call that made main() return 1: "no", "open", "sink" or "file"

serverVars == <<place, fsink, blocks, failure>>
allVars == <<vars, serverVars>>

Places == {"open", "opened", "led", "sink", "rxSink", "file", "play", "flush",
           "close", "return", "destroy", "done"}

\* main() is not inside a call of the driver.
Calls(p) == At(Main, "app") /\ place = p
Then(p) == place' = p

Open ==
  /\ Calls("open") /\ AppOpen /\ Then("opened")
  /\ UNCHANGED <<fsink, blocks, failure>>

\* setFrequency(), or the return after a failed open(): there is no sink yet.
Opened ==
  /\ Calls("opened")
  /\ \/ /\ result /\ AppCommand("SETADFQRG") /\ Then("led")
        /\ UNCHANGED failure
     \/ /\ ~result /\ Then("destroy") /\ failure' = "open"
        /\ UNCHANGED vars
  /\ UNCHANGED <<fsink, blocks>>

SwitchLed ==
  /\ Calls("led") /\ AppCommand("LED_ON") /\ Then("sink")
  /\ UNCHANGED <<fsink, blocks, failure>>

\* The sink is declared, and with -w its file is opened.
DeclareSink ==
  /\ Calls("sink")
  /\ fsink' = "alive"
  /\ \/ Then("rxSink") /\ UNCHANGED failure
     \/ Then("return") /\ failure' = "sink"
     \/ Then("file") /\ UNCHANGED failure
  /\ UNCHANGED <<vars, blocks>>

SetSink ==
  /\ Calls("rxSink") /\ AppSetSink /\ Then("file")
  /\ UNCHANGED <<fsink, blocks, failure>>

\* With -tx the file is opened; without it main() sleeps and prints the RSSI.
OpenFile ==
  /\ Calls("file")
  /\ \/ Then("play") /\ UNCHANGED failure
     \/ Then("return") /\ failure' = "file"
     \/ Then("close") /\ UNCHANGED failure
  /\ UNCHANGED <<vars, fsink, blocks>>

\* One round of the loop that plays the file, or its end.
Play ==
  /\ Calls("play")
  /\ \/ /\ blocks < FileBlocks /\ blocks' = blocks + 1
        /\ AppCommand("ADFWRITE") /\ UNCHANGED place
     \/ Then("flush") /\ UNCHANGED <<vars, blocks>>
  /\ UNCHANGED <<fsink, failure>>

\* Mutant: main() returns without close() after it has played the file.
FlushThenReturn ==
  /\ Calls("flush") /\ AppCommand("FLUSHTXBUF") /\ Then("return")
  /\ UNCHANGED <<fsink, blocks, failure>>

Flush ==
  /\ Calls("flush") /\ AppCommand("FLUSHTXBUF") /\ Then("close")
  /\ UNCHANGED <<fsink, blocks, failure>>

Close ==
  /\ Calls("close") /\ AppClose("close") /\ Then("return")
  /\ UNCHANGED <<fsink, blocks, failure>>

\* The return destroys the sink, then the driver.
Return ==
  /\ Calls("return")
  /\ fsink' = "destroyed" /\ Then("destroy")
  /\ UNCHANGED <<vars, blocks, failure>>

\* Mutant: the driver is destroyed without close().
DestroyUnclosed ==
  /\ Calls("destroy") /\ Then("done")
  /\ Goto(Main, "destroyed")
  /\ UNCHANGED <<op, stateVars, objVars, sendVars, batch, stickVars, endVars,
                 fsink, blocks, failure>>

Destroy ==
  /\ Calls("destroy") /\ AppClose("destroy") /\ Then("done")
  /\ UNCHANGED <<fsink, blocks, failure>>

-----------------------------------------------------------------------------
(* The specification.                                                      *)

ServerInit ==
  /\ Init
  /\ place = "open"
  /\ fsink = "none" /\ blocks = 0 /\ failure = "no"

ServerStep ==
  \/ Open \/ Opened \/ SwitchLed \/ DeclareSink \/ SetSink \/ OpenFile
  \/ Play \/ Flush \/ Close \/ Return \/ Destroy

DriverStep ==
  /\ MainStep \/ WdStep \/ RxStep \/ StickAnswers \/ Unplug \/ Terminated
  /\ UNCHANGED serverVars

ServerNext == ServerStep \/ DriverStep

\* main() goes on, and the driver does under its own fairness.
ServerSpec ==
  /\ ServerInit /\ [][ServerNext]_allVars
  /\ WF_allVars(ServerStep) /\ Fairness

-----------------------------------------------------------------------------
(* Properties.                                                             *)

\* The receive thread writes to the sink only while that exists, except on one
\* way out of main(): the return after the file to play could not be opened.
SinkOutlivesReceiver ==
  pc[Rx] = "put" /\ fsink # "alive" => failure = "file"

\* main() returns, with an orderly end of the threads, or the process is ended by
\* an assertion or by the second join of a thread.
ServerEnds == <>(dead # "no" \/ pc[Main] = "destroyed")

\* When main() has returned no thread is left and the LED is off.
CleanEnd ==
  pc[Main] = "destroyed" =>
    /\ pc[Wd] \in NotRunning /\ pc[Rx] \in NotRunning
    /\ port = "closed" /\ (plugged => ~led)
=============================================================================
