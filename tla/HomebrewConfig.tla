--------------------------- MODULE HomebrewConfig ---------------------------
(***************************************************************************)
(* The configuration datagram (RPTC) that runReceiveThread() of            *)
(* src/src/lib/homebrew/homebrewclient.cpp prints from the members the     *)
(* application has set.  The server finds a value by its column, so the    *)
(* datagram must have one length; the formats pad a value that is shorter  *)
(* than its column and do not cut one that is longer.  A configuration is  *)
(* reduced to the number of characters each value prints.                  *)
(***************************************************************************)
EXTENDS Integers, FiniteSets

Columns == {"callsign", "rxFreq", "txFreq", "txPower", "colorCode", "latitude",
            "longitude", "height", "location", "description", "url", "software",
            "package"}
Config == [Columns -> Nat]

\* Mutant: the column of the description is one too short.
NarrowWidth == [callsign |-> 8, rxFreq |-> 9, txFreq |-> 9, txPower |-> 2,
                colorCode |-> 2, latitude |-> 8, longitude |-> 9, height |-> 3,
                location |-> 20, description |-> 19, url |-> 124,
                software |-> 40, package |-> 40]

\* The minimum widths of the format.
Width == [callsign |-> 8, rxFreq |-> 9, txFreq |-> 9, txPower |-> 2,
          colorCode |-> 2, latitude |-> 8, longitude |-> 9, height |-> 3,
          location |-> 20, description |-> 20, url |-> 124, software |-> 40,
          package |-> 40]

Printed(c, f) == IF c[f] < Width[f] THEN Width[f] ELSE c[f]

\* iTxBytes: "RPTC", the four bytes of the repeater's number, the columns.
ConfigLength(c) ==
  4 + 4 + Printed(c, "callsign") + Printed(c, "rxFreq") + Printed(c, "txFreq")
  + Printed(c, "txPower") + Printed(c, "colorCode") + Printed(c, "latitude")
  + Printed(c, "longitude") + Printed(c, "height") + Printed(c, "location")
  + Printed(c, "description") + Printed(c, "url") + Printed(c, "software")
  + Printed(c, "package")

AssertedLength == 302
Fits(c) == \A f \in Columns : c[f] <= Width[f]

\* What %d prints of an int.
IntLength(n) ==
  LET digits(m) == 1 + Cardinality({k \in 1 .. 9 : 10 ^ k <= m})
  IN  IF n < 0 THEN 1 + digits(-n) ELSE digits(n)

\* The values the constructor sets: "NOCALL", colour code 1, "Nowhere", "Test
\* Repeater", zeros (as 0, +0.0000) and empty texts.
NewConfig == [callsign |-> 6, rxFreq |-> IntLength(0), txFreq |-> IntLength(0),
              txPower |-> IntLength(0), colorCode |-> IntLength(1),
              latitude |-> 7, longitude |-> 7, height |-> IntLength(0),
              location |-> 7, description |-> 13, url |-> 0, software |-> 0,
              package |-> 0]
=============================================================================
