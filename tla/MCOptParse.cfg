\* All command lines of up to three words.  A file that includes itself is read
\* until the bound, so a state without successors is part of the behaviour.
SPECIFICATION Spec
CONSTANTS
  MapOrder <- MCMapOrder
  Id <- MCId
  NeedsParam <- MCNeedsParam
  Required <- MCRequired
  Default <- MCDefault
  Words <- MCWords
  NoText = NoText
  Files <- MCFiles
  BadLine = BadLine
  CommandLines <- MCCommandLines
  MaxWords = 21
INVARIANTS OptionsAsWritten FilesBehindCommandLine
PROPERTIES ParseEnds
CHECK_DEADLOCK FALSE
