\* The three programs, with no more packets than the queue takes.
SPECIFICATION FairProgSpec
CONSTANTS
  Hosts = {h1}
  NoAddr = NoAddr
  Dialects = {"MMDVM"}
  Configs <- MCConfigs
  MaxQueue = 1
  MaxOpens = 1
  MaxPackets = 2
  MaxTime = 1
  Programs = {"parrot", "record", "play"}
  Overrides <- MCOverrides
  RecTime = 2
  OwnId <- MCOwnId
  Content <- MCContent
  Tape <- MCTape
INVARIANTS ProgTypeOK RecordingKept ReplayReaddressed EndsLoggedOut
PROPERTIES ProgramEnds NoticeStops
