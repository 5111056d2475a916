\* Messages of up to six parameter bytes with noise between them.
SPECIFICATION Spec
CONSTANTS
  CmdPreamble <- MCPreamble
  Messages <- MCMessages
  Noise <- MCNoise
  BufferSize = 5
  MaxUnits = 4
INVARIANTS TypeOK RecognisedIsRead LostOnlyOutOfStep
PROPERTIES ImplementsChannel
