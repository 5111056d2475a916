\* Two sessions of the application with the stick.
SPECIFICATION Spec
CONSTANTS
  AppCommands = {"LED_ON"}
  Batches <- MCBatches
  SimModes = {TRUE, FALSE}
  WatchdogPeriod = 1
  MaxOpens = 2
INVARIANTS
  TypeOK WholeCommands PortOpenWhileRunning WatchdogOutlivesReceiver
  LedOffAfterClose StrayJoinNeedsClose
