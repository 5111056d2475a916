SPECIFICATION SocketProgramsSpec
CONSTANTS
  o1 = o1
  o2 = o2
  u1 = u1
  u2 = u2
  peer1 = peer1
  peer2 = peer2
  Objects = {o1, o2}
  Users = {u1, u2}
  Fds <- TwoFds
  Ports <- ThreePorts
  Foreign <- TakenPorts
  MainThread = u1
  Sock = o1
  Peers = {peer1, peer2}
  Sizes <- SizeRange
  BufferSize = 2
  LocalPorts <- ProxyPorts
  MaxSends = 3
  Streams <- FiveBytes
  Rooms <- FewRooms
  MaxLines = 4
CHECK_DEADLOCK FALSE
INVARIANTS DescriptorsOwned StrayOnlyWhileClosing EchoToSender LinesAsSent
