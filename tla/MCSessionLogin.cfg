\* Two sessions on a network that reorders datagrams and delivers each that is
\* read for.
SPECIFICATION FairSessionSpec
CONSTANTS
  Hosts = {h1}
  Server = h1
  Duplication = FALSE
  NoAddr = NoAddr
  Dialects = {"MMDVM"}
  Configs = {}
  MaxQueue = 1
  MaxOpens = 2
  MaxPackets = 0
  MaxTime = 1
INVARIANTS HandshakeInStep NoGhostConnection
PROPERTIES LoginCompletes
