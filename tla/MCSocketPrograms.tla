--------------------------- MODULE MCSocketPrograms ---------------------------
EXTENDS SocketPrograms

CONSTANTS o1, o2, u1, u2, peer1, peer2

Symbols == {"CR", "LF", "text"}
FiveBytes == UNION {[1..n -> Symbols] : n \in 0..5}
FewRooms == 0..3
ThreePorts == {1, 2, 3}
TakenPorts == {3}
TwoFds == {3, 4}
ProxyPorts == {1, 3}
SizeRange == 0..3
=============================================================================
