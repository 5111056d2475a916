\* Two sessions, two hosts, both dialects, and more packets than the queue takes:
\* the receive thread can block on its own lock, so a state without successors
\* is part of the behaviour.
SPECIFICATION Spec
CONSTANTS
  Hosts = {h1, h2}
  NoAddr = NoAddr
  Dialects = {"CLASSIC", "MMDVM"}
  Configs = {}
  MaxQueue = 1
  MaxOpens = 2
  MaxPackets = 3
  MaxTime = 2
SYMMETRY HostSymmetry
INVARIANTS
  TypeOK SelfDeadlockOnlyWhenFull AssertsHold JoinedBeforeReuse WireMatchesPhase
  ClosedSessionsLoggedOut SenderChecked
PROPERTIES LogoutIsLast ImplementsPipe
CHECK_DEADLOCK FALSE
