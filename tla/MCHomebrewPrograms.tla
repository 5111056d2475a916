------------------------ MODULE MCHomebrewPrograms -------------------------
(* A small instance of HomebrewPrograms for TLC. *)
EXTENDS HomebrewPrograms

\* The programs' own defaults, and a repeater 1200 m above the sea.
Default == [NewConfig EXCEPT !.txPower = 2, !.location = 0, !.description = 0]
MCConfigs == {Default, [Default EXCEPT !.height = IntLength(1200)]}

\* Packets in which no two fields agree, of which the first is a private call.
Pattern(n) ==
  [k \in Offsets |-> {i \in Bits(8) : ((k * 37 + n * 101) \div 2 ^ i) % 2 = 1}]
MCContent == [n \in 1 .. MaxPackets |-> Pattern(n)]
MCTape == <<Pattern(3), Pattern(4)>>
MCOverrides == {0, 70000, -9}
MCOwnId == {0, 1, 2, 7, 9, 10, 12, 14, 15, 17, 20}  \* 1234567
=============================================================================
