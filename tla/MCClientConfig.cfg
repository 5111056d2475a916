\* A repeater on a mountain.
SPECIFICATION Spec
CONSTANTS
  Hosts = {h1}
  NoAddr = NoAddr
  Dialects = {"MMDVM"}
  Configs <- Tall
  MaxQueue = 1
  MaxOpens = 1
  MaxPackets = 0
  MaxTime = 1
INVARIANT NoAssertFails
