\* A network that also duplicates datagrams.
SPECIFICATION SessionSpec
CONSTANTS
  Hosts = {h1}
  Server = h1
  Duplication = TRUE
  NoAddr = NoAddr
  Dialects = {"MMDVM"}
  Configs = {}
  MaxQueue = 1
  MaxOpens = 1
  MaxPackets = 1
  MaxTime = 1
INVARIANT ReadyMeansConnected
