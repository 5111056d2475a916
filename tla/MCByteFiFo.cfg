\* Rings of up to three bytes.
SPECIFICATION Spec
CONSTANTS
  Unset = Unset
  Bytes <- MCBytes
  Sizes <- MCSizes
  Blocks <- MCBlocks
  MaxGet = 4
INVARIANTS IndicesAgree
PROPERTIES ImplementsQueue
