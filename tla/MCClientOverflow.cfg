\* One packet more than the queue takes.
SPECIFICATION FairSpec
CONSTANTS
  Hosts = {h1}
  NoAddr = NoAddr
  Dialects = {"MMDVM"}
  Configs = {}
  MaxQueue = 1
  MaxOpens = 1
  MaxPackets = 3
  MaxTime = 1
PROPERTIES CallsReturn
CHECK_DEADLOCK FALSE
