------------------------------ MODULE OptParse ------------------------------
(***************************************************************************)
(* Opt: the command line and the option files it names, read into a table  *)
(* of options.  parse() keeps the words it still has to read in a vector;  *)
(* a word @name puts the words of a file behind all that are waiting.      *)
(*                                                                         *)
(* A word is its first character ("-", "@" or anything else) with the rest *)
(* of its text.  A line of a file is what wordexp() makes of it: words, or *)
(* BadLine when wordexp() reports an error.                                *)
(***************************************************************************)
EXTENDS Integers, Sequences, SequencesExt, Relation

CONSTANTS
  MapOrder,      \* names of the options, in the order of std::map
  Id,            \* the number a program gives to each of them
  NeedsParam,    \* those registered with bNeedsParam
  Required,      \* those registered with bIsRequired
  Default,       \* default parameter of each option
  Words,         \* words that occur on command lines and in files
  NoText,        \* the empty string
  Files,         \* the lines of each file that can be opened, by name
  BadLine,       \* a line that wordexp() rejects
  CommandLines,  \* what argv[1] and the following may be
  MaxWords       \* bound: parse() is followed for so many words

Names == ToSet(MapOrder)

ASSUME NamesAssumption ==
  /\ MapOrder \in Seq(Words)
  /\ \A o \in Names : o.lead # "@"
  /\ \A i, j \in 1 .. Len(MapOrder) : MapOrder[i] = MapOrder[j] => i = j
ASSUME IdAssumption == \A o, p \in Names : Id[o] = Id[p] => o = p
ASSUME FilesAssumption ==
  \A f \in DOMAIN Files : Files[f] \in Seq({BadLine} \cup Seq(Words))
ASSUME CommandLinesAssumption == \A line \in CommandLines : line \in Seq(Words)

VARIABLES
  pc,       \* "register", "parse" or "done"
  table,    \* m_OptMap: the options registered so far
  args,     \* the vector args
  success,  \* what parse() has returned
  cmdline,  \* history: the command line
  taken     \* history: the words erased from the front of args

vars == <<pc, table, args, success, cmdline, taken>>

-----------------------------------------------------------------------------
(* The program registers its options and calls parse().                    *)

Entry ==
  [isSet : BOOLEAN, param : Words \cup {NoText} \cup {Default[o] : o \in Names}]

NewEntry(o) == [isSet |-> FALSE, param |-> Default[o]]

RegisterOpt(o) ==
  /\ pc = "register"
  /\ table' = [p \in DOMAIN table \cup {o} |->
                 IF p = o THEN NewEntry(o) ELSE table[p]]
  /\ UNCHANGED <<pc, args, success, cmdline, taken>>

Parse(line) ==
  /\ pc = "register"
  /\ pc' = "parse"
  /\ args' = line /\ cmdline' = line
  /\ UNCHANGED <<table, success, taken>>

-----------------------------------------------------------------------------
(* One turn of the loop of parse().                                        *)

\* Erases the first n words of args.
Erase(n) == SubSeq(args, n + 1, Len(args))

Reading(lead) ==
  /\ pc = "parse" /\ args # <<>> /\ Len(taken) < MaxWords
  /\ Head(args).lead = lead

Taking(n) ==
  /\ args' = Erase(n)
  /\ taken' = taken \o SubSeq(args, 1, n)

Return(result) == pc' = "done" /\ success' = result

GoOn == UNCHANGED <<pc, success>>

UnknownOption ==
  /\ Reading("-") /\ Head(args) \notin DOMAIN table
  /\ Taking(1) /\ Return(FALSE)
  /\ UNCHANGED <<table, cmdline>>

Flag ==
  /\ Reading("-") /\ Head(args) \in DOMAIN table \ NeedsParam
  /\ table' = [table EXCEPT ![Head(args)].isSet = TRUE]
  /\ Taking(1) /\ GoOn
  /\ UNCHANGED cmdline

\* The parameter is the next word, whatever its first character.
OptionWithParam ==
  /\ Reading("-") /\ Head(args) \in DOMAIN table \cap NeedsParam
  /\ Len(args) > 1
  /\ table' = [table EXCEPT ![Head(args)] = [isSet |-> TRUE, param |-> args[2]]]
  /\ Taking(2) /\ GoOn
  /\ UNCHANGED cmdline

MissingParam ==
  /\ Reading("-") /\ Head(args) \in DOMAIN table \cap NeedsParam
  /\ Len(args) = 1
  /\ table' = [table EXCEPT ![Head(args)].isSet = TRUE]
  /\ Taking(1) /\ Return(FALSE)
  /\ UNCHANGED cmdline

\* loadFile() leaves out the lines that wordexp() does not accept.
FileWords(f) ==
  FlattenSeq([i \in DOMAIN Files[f] |->
                IF Files[f][i] = BadLine THEN <<>> ELSE Files[f][i]])

\* Mutant: the words of the file are read first.
LoadFileInFront(f, waiting) == FileWords(f) \o waiting

LoadFile(f, waiting) == waiting \o FileWords(f)

OptionFile ==
  /\ Reading("@") /\ Head(args).text \in DOMAIN Files
  /\ args' = LoadFile(Head(args).text, Erase(1))
  /\ taken' = Append(taken, Head(args))
  /\ GoOn
  /\ UNCHANGED <<table, cmdline>>

UnreadableFile ==
  /\ Reading("@") /\ Head(args).text \notin DOMAIN Files
  /\ Taking(1) /\ Return(FALSE)
  /\ UNCHANGED <<table, cmdline>>

\* Mutant: options that have a value are not skipped.
UnsetOrNot ==
  {i \in DOMAIN MapOrder : MapOrder[i] \in DOMAIN table /\ MapOrder[i].lead # "-"}

\* Options without a dash that have no value yet, by their places in the map.
Unset ==
  {i \in DOMAIN MapOrder : /\ MapOrder[i] \in DOMAIN table /\ MapOrder[i].lead # "-"
                           /\ ~table[MapOrder[i]].isSet}

PlainWord ==
  /\ Reading("") /\ Unset # {}
  /\ table' = [table EXCEPT ![MapOrder[Min(Unset)]] =
                 [isSet |-> TRUE, param |-> Head(args)]]
  /\ Taking(1) /\ GoOn
  /\ UNCHANGED cmdline

\* Mutant: the search for an option does not give up.
UnassignableForever ==
  /\ Reading("") /\ Unset = {}
  /\ UNCHANGED vars

Unassignable ==
  /\ Reading("") /\ Unset = {}
  /\ Taking(1) /\ Return(FALSE)
  /\ UNCHANGED <<table, cmdline>>

CheckRequired ==
  /\ pc = "parse" /\ args = <<>>
  /\ Return(\A o \in DOMAIN table \cap Required : table[o].isSet)
  /\ UNCHANGED <<table, args, cmdline, taken>>

-----------------------------------------------------------------------------
(* The getters, by the number of the option.                               *)

HasId(id) ==
  {i \in DOMAIN MapOrder : MapOrder[i] \in DOMAIN table /\ Id[MapOrder[i]] = id}
Found(id) == table[MapOrder[Min(HasId(id))]]
Get(id) == HasId(id) # {} /\ Found(id).isSet
GetString(id) == IF HasId(id) = {} THEN NoText ELSE Found(id).param

-----------------------------------------------------------------------------
(* The specification.                                                      *)

Init ==
  /\ pc = "register"
  /\ table = [o \in {} |-> NewEntry(o)]
  /\ args = <<>>
  /\ success = FALSE
  /\ cmdline = <<>>
  /\ taken = <<>>

ParseStep ==
  \/ UnknownOption \/ Flag \/ OptionWithParam \/ MissingParam
  \/ OptionFile \/ UnreadableFile
  \/ PlainWord \/ Unassignable
  \/ CheckRequired

Next ==
  \/ \E o \in Names : RegisterOpt(o)
  \/ \E line \in CommandLines : Parse(line)
  \/ ParseStep

\* One thread, which does not wait for anything.
Spec == Init /\ [][Next]_vars /\ WF_vars(ParseStep)

-----------------------------------------------------------------------------
(* Properties.                                                             *)

\* The grammar, on the words read so far: a word is a parameter when the word
\* before it is an option that needs one; the other words are options.
TakesParam(w) == w.lead = "-" /\ w \in NeedsParam
OptionPlacesOf(s) ==
  LET isOption[i \in 1 .. Len(s)] ==
        i = 1 \/ ~(isOption[i - 1] /\ TakesParam(s[i - 1]))
  IN  {i \in 1 .. Len(s) : isOption[i]}

OptionPlaces == OptionPlacesOf(taken)
Places(o) == {i \in OptionPlaces : taken[i] = o}
PlainPlaces == {i \in OptionPlaces : taken[i].lead = ""}

\* An option with a dash is set when it was given, and has the parameter it was
\* given last, wherever that stood, also when it came from a file.
DashAsWritten(o) ==
  LET params == {i + 1 : i \in Places(o)} \cap DOMAIN taken
  IN  /\ Get(Id[o]) <=> Places(o) # {}
      /\ GetString(Id[o]) =
           IF o \in NeedsParam /\ params # {} THEN taken[Max(params)] ELSE Default[o]

\* The options without a dash have the plain words, in the order of their names.
Before(o) ==
  {i \in DOMAIN MapOrder : /\ MapOrder[i] \in DOMAIN table /\ MapOrder[i].lead # "-"
                           /\ \E j \in DOMAIN MapOrder : i < j /\ MapOrder[j] = o}
Assigned(o) ==
  {i \in PlainPlaces : Cardinality({j \in PlainPlaces : j < i}) = Cardinality(Before(o))}
PlainAsWritten(o) ==
  /\ Get(Id[o]) <=> Assigned(o) # {}
  /\ GetString(Id[o]) = IF Assigned(o) # {} THEN taken[Min(Assigned(o))] ELSE Default[o]

\* At every moment, also when parse() has failed, the getters answer what the
\* words read so far say.
OptionsAsWritten ==
  \A o \in DOMAIN table :
    IF o.lead = "-" THEN DashAsWritten(o) ELSE PlainAsWritten(o)

\* No word is dropped, read twice or read out of turn: what was read and what is
\* waiting are the command line and, behind it, the files in the order in which
\* they were named.  So what a file says prevails over the command line.
Brought(s) ==
  FlattenSeq([i \in DOMAIN s |->
    IF i \in OptionPlacesOf(s) /\ s[i].lead = "@" /\ s[i].text \in DOMAIN Files
      THEN FileWords(s[i].text) ELSE <<>>])
FilesBehindCommandLine ==
  pc # "register" => taken \o args = cmdline \o Brought(taken)

\* parse() returns, unless a file that it could read names itself, directly or
\* through other files.
FilesIn(s) == {w.text : w \in {v \in ToSet(s) : v.lead = "@"}} \cap DOMAIN Files
Includes == [p \in (DOMAIN Files) \X (DOMAIN Files) |-> p[2] \in FilesIn(FileWords(p[1]))]
Reaches == TransitiveClosure(Includes, DOMAIN Files)
NamesItself(f) ==
  Reaches[f, f] \/ \E g \in DOMAIN Files : Reaches[f, g] /\ Reaches[g, g]
ParseEnds ==
  pc = "parse" /\ (\A f \in FilesIn(args) : ~NamesItself(f)) ~> pc = "done"

=============================================================================
