\* main() with a file of up to one block, in every interleaving with the driver.
SPECIFICATION ServerSpec
CONSTANTS
  AppCommands <- MCAppCommands
  Batches <- MCBatches
  SimModes = {TRUE, FALSE}
  WatchdogPeriod = 1
  MaxOpens = 1
  FileBlocks = 1
INVARIANTS SinkOutlivesReceiver CleanEnd
PROPERTIES ServerEnds
