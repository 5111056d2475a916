----------------------------- MODULE MCOptParse -----------------------------
(* A small instance of OptParse for TLC. *)
EXTENDS OptParse

Dash(t) == [lead |-> "-", text |-> t]
At(t) == [lead |-> "@", text |-> t]
Text(t) == [lead |-> "", text |-> t]

MCMapOrder == <<Dash("f"), Dash("p"), Text("in"), Text("out")>>
MCId == (Dash("f") :> 4) @@ (Dash("p") :> 3) @@ (Text("in") :> 2) @@ (Text("out") :> 1)
MCNeedsParam == {Dash("p")}
MCRequired == {Text("in")}
MCDefault == [o \in ToSet(MCMapOrder) |-> IF o = Dash("p") THEN Text("x") ELSE NoText]

CommandWords ==
  {Dash("f"), Dash("p"), Dash("unknown"), At("a"), At("b"), At("loop"), At("none"),
   Text("x"), Text("y")}
MCWords == CommandWords \cup ToSet(MCMapOrder)
MCCommandLines == BoundedSeq(CommandWords, 3)

MCFiles ==
  [a |-> <<<<Dash("p"), Text("y")>>, BadLine, <<Dash("f")>>>>,
   b |-> <<<<At("a"), Text("x")>>, <<>>, <<Dash("p")>>>>,
   loop |-> <<<<At("loop"), Dash("f")>>>>]
=============================================================================
