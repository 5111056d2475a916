----------------------- MODULE HomebrewProgramsProofs -----------------------
(***************************************************************************)
(* Proofs about parrot and dmrrec, for every recording, file and option:   *)
(* the programs are applications of the client, so that what is proved of  *)
(* the client holds of them, and what they send or write is what they got. *)
(* Before them, what they rely on: the setters of HomebrewPacket write what*)
(* the getters read, for every packet and every value.                     *)
(***************************************************************************)
EXTENDS HomebrewPrograms, HomebrewClientProofs

-----------------------------------------------------------------------------
(* The bits of HomebrewPacket.                                             *)

\* A byte cut out of a number and put back to its place.
LEMMA ByteInPlace ==
  ASSUME NEW v \in SUBSET Int, NEW n \in Nat
  PROVE  ShiftLeft(ByteAt(v, n), n) = v \cap (n .. n + 7)
<1> DEFINE s == ShiftLeft(ByteAt(v, n), n)
<1>1. ASSUME NEW i \in s PROVE i \in v \cap (n .. n + 7)
  BY <1>1 DEF ShiftLeft, ByteAt, Bits
<1>2. ASSUME NEW i \in v \cap (n .. n + 7) PROVE i \in s
  <2>1. i - n \in Bits(8) /\ (i - n) + n = i
    BY DEF Bits
  <2>2. i - n \in ByteAt(v, n)
    BY <2>1 DEF ByteAt
  <2> QED
    BY <2>1, <2>2 DEF ShiftLeft
<1> QED
  BY <1>1, <1>2

LEMMA ByteType ==
  ASSUME NEW v, NEW n \in Nat
  PROVE  ByteAt(v, n) \in Byte
BY DEF ByteAt, Byte

LEMMA Write24Bytes ==
  ASSUME NEW d \in Data, NEW k \in 4 .. 17, NEW v \in SUBSET Int
  PROVE  /\ Write24(d, k, v) \in Data
         /\ Write24(d, k, v)[k] = ByteAt(v, 16)
         /\ Write24(d, k, v)[k + 1] = ByteAt(v, 8)
         /\ Write24(d, k, v)[k + 2] = ByteAt(v, 0)
         /\ \A o \in Offsets \ {k, k + 1, k + 2} : Write24(d, k, v)[o] = d[o]
<1>1. /\ k \in Offsets /\ k + 1 \in Offsets /\ k + 2 \in Offsets
      /\ k # k + 1 /\ k # k + 2 /\ k + 1 # k + 2
  BY DEF Offsets
<1>2. ByteAt(v, 16) \in Byte /\ ByteAt(v, 8) \in Byte /\ ByteAt(v, 0) \in Byte
  BY ByteType
<1> QED
  BY <1>1, <1>2 DEF Write24, Data

LEMMA Write32Bytes ==
  ASSUME NEW d \in Data, NEW k \in 4 .. 16, NEW v \in SUBSET Int
  PROVE  /\ Write32(d, k, v) \in Data
         /\ Write32(d, k, v)[k] = ByteAt(v, 24)
         /\ Write32(d, k, v)[k + 1] = ByteAt(v, 16)
         /\ Write32(d, k, v)[k + 2] = ByteAt(v, 8)
         /\ Write32(d, k, v)[k + 3] = ByteAt(v, 0)
         /\ \A o \in Offsets \ {k, k + 1, k + 2, k + 3} : Write32(d, k, v)[o] = d[o]
<1> DEFINE m == k + 1
           u == Write24(d, m, v)
<1>1. m \in 4 .. 17 /\ m + 1 = k + 2 /\ m + 2 = k + 3
  OBVIOUS
<1>2. /\ u \in Data
      /\ u[k + 1] = ByteAt(v, 16) /\ u[k + 2] = ByteAt(v, 8) /\ u[k + 3] = ByteAt(v, 0)
      /\ \A o \in Offsets \ {k + 1, k + 2, k + 3} : u[o] = d[o]
  <2> HIDE DEF m
  <2>1. /\ u \in Data
        /\ u[m] = ByteAt(v, 16) /\ u[m + 1] = ByteAt(v, 8) /\ u[m + 2] = ByteAt(v, 0)
        /\ \A o \in Offsets \ {m, m + 1, m + 2} : u[o] = d[o]
    BY <1>1, Write24Bytes, Zenon
  <2> HIDE DEF u
  <2> QED
    BY <1>1, <2>1 DEF m
<1>3. /\ k \in Offsets /\ k + 1 \in Offsets /\ k + 2 \in Offsets /\ k + 3 \in Offsets
      /\ k # k + 1 /\ k # k + 2 /\ k # k + 3
  BY DEF Offsets
<1>4. ByteAt(v, 24) \in Byte
  BY ByteType
<1>5. Write32(d, k, v) = [u EXCEPT ![k] = ByteAt(v, 24)]
  BY DEF Write32
<1> HIDE DEF u
<1> QED
  BY <1>2, <1>3, <1>4, <1>5 DEF Data

\* A number of three, or four, bytes is read as it was written.
LEMMA WriteRead24 ==
  ASSUME NEW d \in Data, NEW k \in 4 .. 17, NEW v \in SUBSET Int
  PROVE  Read24(Write24(d, k, v), k) = v \cap Bits(24)
<1> DEFINE w == Write24(d, k, v)
<1>1. Read24(w, k) = ShiftLeft(ByteAt(v, 16), 16) \cup ShiftLeft(ByteAt(v, 8), 8)
                       \cup ByteAt(v, 0)
  <2>1. w[k] = ByteAt(v, 16) /\ w[k + 1] = ByteAt(v, 8) /\ w[k + 2] = ByteAt(v, 0)
    BY Write24Bytes, Zenon
  <2> HIDE DEF w
  <2> QED
    BY <2>1 DEF Read24
<1>2. /\ ShiftLeft(ByteAt(v, 16), 16) = v \cap (16 .. 23)
      /\ ShiftLeft(ByteAt(v, 8), 8) = v \cap (8 .. 15)
  BY ByteInPlace, 16 + 7 = 23, 8 + 7 = 15
<1>3. ByteAt(v, 0) = v \cap (0 .. 7)
  BY DEF ByteAt, Bits
<1>4. Bits(24) = (0 .. 7) \cup (8 .. 15) \cup (16 .. 23)
  BY DEF Bits
<1> HIDE DEF w
<1> QED
  BY <1>1, <1>2, <1>3, <1>4 DEF w

LEMMA WriteRead32 ==
  ASSUME NEW d \in Data, NEW k \in 4 .. 16, NEW v \in SUBSET Int
  PROVE  Read32(Write32(d, k, v), k) = v \cap Bits(32)
<1> DEFINE w == Write32(d, k, v)
<1>1. Read32(w, k) = ShiftLeft(ByteAt(v, 24), 24) \cup ShiftLeft(ByteAt(v, 16), 16)
                       \cup ShiftLeft(ByteAt(v, 8), 8) \cup ByteAt(v, 0)
  <2>1. /\ w[k] = ByteAt(v, 24) /\ w[k + 1] = ByteAt(v, 16)
        /\ w[k + 2] = ByteAt(v, 8) /\ w[k + 3] = ByteAt(v, 0)
    BY Write32Bytes, Zenon
  <2>2. k + 1 + 1 = k + 2 /\ k + 1 + 2 = k + 3
    OBVIOUS
  <2> HIDE DEF w
  <2>3. Read24(w, k + 1) = ShiftLeft(ByteAt(v, 16), 16)
                             \cup ShiftLeft(ByteAt(v, 8), 8) \cup ByteAt(v, 0)
    BY <2>1, <2>2 DEF Read24
  <2> QED
    BY <2>1, <2>3 DEF Read32
<1>2. /\ ShiftLeft(ByteAt(v, 24), 24) = v \cap (24 .. 31)
      /\ ShiftLeft(ByteAt(v, 16), 16) = v \cap (16 .. 23)
      /\ ShiftLeft(ByteAt(v, 8), 8) = v \cap (8 .. 15)
  BY ByteInPlace, 24 + 7 = 31, 16 + 7 = 23, 8 + 7 = 15
<1>3. ByteAt(v, 0) = v \cap (0 .. 7)
  BY DEF ByteAt, Bits
<1>4. Bits(32) = (0 .. 7) \cup (8 .. 15) \cup (16 .. 23) \cup (24 .. 31)
  BY DEF Bits
<1> HIDE DEF w
<1> QED
  BY <1>1, <1>2, <1>3, <1>4 DEF w

-----------------------------------------------------------------------------
(* Fields.                                                                 *)

\* The bytes a field is read from.
BytesOf(f) ==
  CASE f = "SeqNum" -> {4}
    [] f = "SrcId" -> {5, 6, 7}
    [] f = "DstId" -> {8, 9, 10}
    [] f = "RptId" -> {11, 12, 13, 14}
    [] f = "StreamId" -> {16, 17, 18, 19}
    [] OTHER -> {15}
Flags == {"Slot", "GroupCall", "FrameType", "VoiceSeqOrDataType"}

LEMMA GetLocal ==
  ASSUME NEW d \in Data, NEW e \in Data, NEW f \in Fields,
         \A o \in BytesOf(f) : e[o] = d[o]
  PROVE  Get(e, f) = Get(d, f)
<1>1. CASE f = "SeqNum"
  BY <1>1 DEF BytesOf, Get, SeqNum
<1>2. CASE f = "SrcId"
  BY <1>2, 5 + 1 = 6, 5 + 2 = 7 DEF BytesOf, Get, SrcId, Read24
<1>3. CASE f = "DstId"
  BY <1>3, 8 + 1 = 9, 8 + 2 = 10 DEF BytesOf, Get, DstId, Read24
<1>4. CASE f = "RptId"
  BY <1>4, 11 + 1 = 12, 12 + 1 = 13, 12 + 2 = 14 DEF BytesOf, Get, RptId, Read32, Read24
<1>5. CASE f = "StreamId"
  BY <1>5, 16 + 1 = 17, 17 + 1 = 18, 17 + 2 = 19
  DEF BytesOf, Get, StreamId, Read32, Read24
<1>6. CASE f \in Flags
  BY <1>6 DEF Flags, BytesOf, Get, Slot, IsGroupCall, FrameType, VoiceSeqOrDataType
<1> QED
  BY <1>1, <1>2, <1>3, <1>4, <1>5, <1>6 DEF Fields, Flags

\* A setter that writes only the bytes of its field, which it shares with no other
\* field, leaves the other fields alone.
LEMMA OwnBytes ==
  ASSUME NEW d \in Data, NEW e \in Data, NEW f \in Fields \ Flags,
         \A o \in Offsets \ BytesOf(f) : e[o] = d[o]
  PROVE  \A g \in Fields \ {f} : Get(e, g) = Get(d, g)
<1> SUFFICES ASSUME NEW g \in Fields \ {f} PROVE Get(e, g) = Get(d, g)
  OBVIOUS
<1>1. BytesOf(g) \subseteq Offsets \ BytesOf(f)
  BY DEF BytesOf, Fields, Flags, Offsets
<1> QED
  BY <1>1, GetLocal

LEMMA SetNumber24 ==
  ASSUME NEW d \in Data, NEW v \in SUBSET Int
  PROVE  /\ SetSrcId(d, v) \in Data /\ SetDstId(d, v) \in Data
         /\ SrcId(SetSrcId(d, v)) = v \cap Bits(24)
         /\ DstId(SetDstId(d, v)) = v \cap Bits(24)
         /\ \A g \in Fields \ {"SrcId"} : Get(SetSrcId(d, v), g) = Get(d, g)
         /\ \A g \in Fields \ {"DstId"} : Get(SetDstId(d, v), g) = Get(d, g)
<1>1. 5 \in 4 .. 17 /\ 8 \in 4 .. 17
  OBVIOUS
<1>2. /\ Write24(d, 5, v) \in Data
      /\ \A o \in Offsets \ {5, 5 + 1, 5 + 2} : Write24(d, 5, v)[o] = d[o]
  BY <1>1, Write24Bytes, Zenon
<1>3. /\ Write24(d, 8, v) \in Data
      /\ \A o \in Offsets \ {8, 8 + 1, 8 + 2} : Write24(d, 8, v)[o] = d[o]
  BY <1>1, Write24Bytes, Zenon
<1>4. SrcId(SetSrcId(d, v)) = v \cap Bits(24) /\ DstId(SetDstId(d, v)) = v \cap Bits(24)
  BY <1>1, WriteRead24, Zenon DEF SrcId, SetSrcId, DstId, SetDstId
<1>5. {5, 5 + 1, 5 + 2} = BytesOf("SrcId") /\ {8, 8 + 1, 8 + 2} = BytesOf("DstId")
  BY DEF BytesOf
<1>6. "SrcId" \in Fields \ Flags /\ "DstId" \in Fields \ Flags
  BY DEF Fields, Flags
<1>7. \A g \in Fields \ {"SrcId"} : Get(SetSrcId(d, v), g) = Get(d, g)
  <2>1. \A o \in Offsets \ BytesOf("SrcId") : Write24(d, 5, v)[o] = d[o]
    BY <1>2, <1>5
  <2> QED
    BY <1>2, <1>6, <2>1, OwnBytes, Zenon DEF SetSrcId
<1>8. \A g \in Fields \ {"DstId"} : Get(SetDstId(d, v), g) = Get(d, g)
  <2>1. \A o \in Offsets \ BytesOf("DstId") : Write24(d, 8, v)[o] = d[o]
    BY <1>3, <1>5
  <2> QED
    BY <1>3, <1>6, <2>1, OwnBytes, Zenon DEF SetDstId
<1> QED
  BY <1>2, <1>3, <1>4, <1>7, <1>8 DEF SetSrcId, SetDstId

LEMMA SetNumber32 ==
  ASSUME NEW d \in Data, NEW v \in SUBSET Int
  PROVE  /\ SetRptId(d, v) \in Data /\ SetStreamId(d, v) \in Data
         /\ RptId(SetRptId(d, v)) = v \cap Bits(32)
         /\ StreamId(SetStreamId(d, v)) = v \cap Bits(32)
         /\ \A g \in Fields \ {"RptId"} : Get(SetRptId(d, v), g) = Get(d, g)
         /\ \A g \in Fields \ {"StreamId"} : Get(SetStreamId(d, v), g) = Get(d, g)
<1>1. 11 \in 4 .. 16 /\ 16 \in 4 .. 16
  OBVIOUS
<1>2. /\ Write32(d, 11, v) \in Data
      /\ \A o \in Offsets \ {11, 11 + 1, 11 + 2, 11 + 3} : Write32(d, 11, v)[o] = d[o]
  BY <1>1, Write32Bytes, Zenon
<1>3. /\ Write32(d, 16, v) \in Data
      /\ \A o \in Offsets \ {16, 16 + 1, 16 + 2, 16 + 3} : Write32(d, 16, v)[o] = d[o]
  BY <1>1, Write32Bytes, Zenon
<1>4. /\ RptId(SetRptId(d, v)) = v \cap Bits(32)
      /\ StreamId(SetStreamId(d, v)) = v \cap Bits(32)
  BY <1>1, WriteRead32, Zenon DEF RptId, SetRptId, StreamId, SetStreamId
<1>5. /\ {11, 11 + 1, 11 + 2, 11 + 3} = BytesOf("RptId")
      /\ {16, 16 + 1, 16 + 2, 16 + 3} = BytesOf("StreamId")
  BY DEF BytesOf
<1>6. "RptId" \in Fields \ Flags /\ "StreamId" \in Fields \ Flags
  BY DEF Fields, Flags
<1>7. \A g \in Fields \ {"RptId"} : Get(SetRptId(d, v), g) = Get(d, g)
  <2>1. \A o \in Offsets \ BytesOf("RptId") : Write32(d, 11, v)[o] = d[o]
    BY <1>2, <1>5
  <2> QED
    BY <1>2, <1>6, <2>1, OwnBytes, Zenon DEF SetRptId
<1>8. \A g \in Fields \ {"StreamId"} : Get(SetStreamId(d, v), g) = Get(d, g)
  <2>1. \A o \in Offsets \ BytesOf("StreamId") : Write32(d, 16, v)[o] = d[o]
    BY <1>3, <1>5
  <2> QED
    BY <1>3, <1>6, <2>1, OwnBytes, Zenon DEF SetStreamId
<1> QED
  BY <1>2, <1>3, <1>4, <1>7, <1>8 DEF SetRptId, SetStreamId

\* A setter of a flag changes byte 15 only.
LEMMA OnlyFlags ==
  ASSUME NEW d \in Data, NEW b \in Byte
  PROVE  /\ [d EXCEPT ![15] = b] \in Data /\ [d EXCEPT ![15] = b][15] = b
         /\ \A g \in Fields \ Flags : Get([d EXCEPT ![15] = b], g) = Get(d, g)
<1> DEFINE e == [d EXCEPT ![15] = b]
<1>1. e \in Data /\ e[15] = b /\ \A o \in Offsets \ {15} : e[o] = d[o]
  BY DEF Data, Offsets
<1>2. ASSUME NEW g \in Fields \ Flags PROVE Get(e, g) = Get(d, g)
  <2>1. BytesOf(g) \subseteq Offsets \ {15}
    BY DEF BytesOf, Fields, Flags, Offsets
  <2> HIDE DEF e
  <2> QED
    BY <1>1, <2>1, GetLocal
<1> QED
  BY <1>1, <1>2

\* What is set is what is read, and no setter but setFrameType() changes another
\* field than its own.
THEOREM SetThenGet ==
  ASSUME NEW d \in Data, NEW f \in Fields \ {"FrameType"}, NEW v \in SUBSET Room(f)
  PROVE  /\ Set(d, f, v) \in Data
         /\ \A g \in Fields : Get(Set(d, f, v), g) = IF g = f THEN v ELSE Get(d, g)
<1> DEFINE e == Set(d, f, v)
<1>1. v \in SUBSET Int
  BY DEF Room, Bits, Fields
<1>2. CASE f \in {"SrcId", "DstId"}
  <2>1. v \cap Bits(24) = v
    BY <1>2 DEF Room
  <2>2. CASE f = "SrcId"
    <3>1. e = SetSrcId(d, v)
      BY <2>2 DEF Set
    <3>2. /\ SetSrcId(d, v) \in Data /\ SrcId(SetSrcId(d, v)) = v \cap Bits(24)
          /\ \A g \in Fields \ {"SrcId"} : Get(SetSrcId(d, v), g) = Get(d, g)
      BY <1>1, SetNumber24, Zenon
    <3> HIDE DEF e
    <3>3. Get(e, "SrcId") = v
      BY <2>1, <3>1, <3>2 DEF Get
    <3> QED
      BY <2>2, <3>1, <3>2, <3>3 DEF e
  <2>3. CASE f = "DstId"
    <3>1. e = SetDstId(d, v)
      BY <2>3 DEF Set
    <3>2. /\ SetDstId(d, v) \in Data /\ DstId(SetDstId(d, v)) = v \cap Bits(24)
          /\ \A g \in Fields \ {"DstId"} : Get(SetDstId(d, v), g) = Get(d, g)
      BY <1>1, SetNumber24, Zenon
    <3> HIDE DEF e
    <3>3. Get(e, "DstId") = v
      BY <2>1, <3>1, <3>2 DEF Get
    <3> QED
      BY <2>3, <3>1, <3>2, <3>3 DEF e
  <2> QED
    BY <1>2, <2>2, <2>3
<1>3. CASE f \in {"RptId", "StreamId"}
  <2>1. v \cap Bits(32) = v
    BY <1>3 DEF Room
  <2>2. CASE f = "RptId"
    <3>1. e = SetRptId(d, v)
      BY <2>2 DEF Set
    <3>2. /\ SetRptId(d, v) \in Data /\ RptId(SetRptId(d, v)) = v \cap Bits(32)
          /\ \A g \in Fields \ {"RptId"} : Get(SetRptId(d, v), g) = Get(d, g)
      BY <1>1, SetNumber32, Zenon
    <3> HIDE DEF e
    <3>3. Get(e, "RptId") = v
      BY <2>1, <3>1, <3>2 DEF Get
    <3> QED
      BY <2>2, <3>1, <3>2, <3>3 DEF e
  <2>3. CASE f = "StreamId"
    <3>1. e = SetStreamId(d, v)
      BY <2>3 DEF Set
    <3>2. /\ SetStreamId(d, v) \in Data /\ StreamId(SetStreamId(d, v)) = v \cap Bits(32)
          /\ \A g \in Fields \ {"StreamId"} : Get(SetStreamId(d, v), g) = Get(d, g)
      BY <1>1, SetNumber32, Zenon
    <3> HIDE DEF e
    <3>3. Get(e, "StreamId") = v
      BY <2>1, <3>1, <3>2 DEF Get
    <3> QED
      BY <2>3, <3>1, <3>2, <3>3 DEF e
  <2> QED
    BY <1>3, <2>2, <2>3
<1>4. CASE f = "SeqNum"
  <2>1. e = [d EXCEPT ![4] = v] /\ v \in Byte
    BY <1>4 DEF Set, SetSeqNum, Room, Byte
  <2>2. e \in Data /\ e[4] = v /\ \A o \in Offsets \ {4} : e[o] = d[o]
    BY <2>1 DEF Data, Offsets
  <2> HIDE DEF e
  <2>3. "SeqNum" \in Fields \ Flags /\ BytesOf("SeqNum") = {4}
    BY DEF Fields, Flags, BytesOf
  <2>4. \A g \in Fields \ {"SeqNum"} : Get(e, g) = Get(d, g)
    BY <2>2, <2>3, OwnBytes
  <2>5. Get(e, "SeqNum") = v
    BY <2>2 DEF Get, SeqNum
  <2> QED
    BY <1>4, <2>2, <2>4, <2>5 DEF e
<1>5. CASE f \in Flags
  <2>1. d[15] \in Byte
    BY DEF Data, Offsets
  <2>2. PICK b \in Byte :
          /\ e = [d EXCEPT ![15] = b]
          /\ f = "Slot" => b = (d[15] \ {0}) \cup v
          /\ f = "GroupCall" => b = IF v # {} THEN d[15] \ {1} ELSE d[15] \cup {1}
          /\ f = "VoiceSeqOrDataType"
               => b = (d[15] \cap Bits(4)) \cup ShiftLeft(v \cap Bits(4), 4)
    <3>1. CASE f = "Slot"
      <4>1. (d[15] \ {0}) \cup v \in Byte /\ v \subseteq {0}
        BY <2>1, <3>1 DEF Room, Bits, Byte
      <4>2. e = [d EXCEPT ![15] = (@ \ {0}) \cup v]
        BY <3>1, <4>1 DEF Set, SetSlot
      <4> QED
        <5> HIDE DEF e
        <5> QED
          BY <3>1, <4>1, <4>2
    <3>2. CASE f = "GroupCall"
      <4> DEFINE b == IF v # {} THEN d[15] \ {1} ELSE d[15] \cup {1}
      <4>1. b \in Byte
        BY <2>1 DEF Byte, Bits
      <4>2. e = [d EXCEPT ![15] = b]
        BY <3>2 DEF Set, SetGroupCall
      <4> HIDE DEF e
      <4> QED
        BY <3>2, <4>1, <4>2
    <3>3. CASE f = "VoiceSeqOrDataType"
      <4>1. (d[15] \cap Bits(4)) \cup ShiftLeft(v \cap Bits(4), 4) \in Byte
        BY <2>1 DEF ShiftLeft, Bits, Byte
      <4> QED
        BY <3>3, <4>1 DEF Set, SetVoiceSeqOrDataType
    <3> QED
      BY <1>5, <3>1, <3>2, <3>3 DEF Flags
  <2>3. e \in Data /\ e[15] = b /\ \A g \in Fields \ Flags : Get(e, g) = Get(d, g)
    <3>1. /\ [d EXCEPT ![15] = b] \in Data /\ [d EXCEPT ![15] = b][15] = b
          /\ \A g \in Fields \ Flags : Get([d EXCEPT ![15] = b], g) = Get(d, g)
      BY OnlyFlags, Zenon
    <3> HIDE DEF e
    <3> QED
      BY <2>2, <3>1
  <2> HIDE DEF e
  <2>4. ASSUME NEW g \in Flags
        PROVE  Get(e, g) = IF g = f THEN v ELSE Get(d, g)
    <3> USE <2>1, <2>2, <2>3 DEF Get, Flags, Byte, Bits, Room
    <3>1. CASE g = "Slot"
      BY <1>5, <3>1 DEF Slot, ShiftLeft
    <3>2. CASE g = "GroupCall"
      BY <1>5, <3>2 DEF IsGroupCall, ShiftLeft
    <3>3. CASE g = "FrameType"
      BY <1>5, <3>3 DEF FrameType, ShiftLeft
    <3>4. CASE g = "VoiceSeqOrDataType"
      BY <1>5, <3>4 DEF VoiceSeqOrDataType, ShiftLeft
    <3> QED
      BY <3>1, <3>2, <3>3, <3>4
  <2> QED
    BY <1>5, <2>3, <2>4 DEF e
<1> QED
  BY <1>2, <1>3, <1>4, <1>5 DEF Fields, Flags

\* setFrameType() cannot clear a bit of the frame type, and it clears the slot, the
\* kind of the call and the voice sequence or data type.
THEOREM FrameTypeMixes ==
  ASSUME NEW d \in Data, NEW v \in SUBSET Bits(2)
  PROVE  LET e == SetFrameType(d, v)
         IN  /\ FrameType(e) = FrameType(d) \cup v
             /\ Slot(e) = {} /\ IsGroupCall(e) /\ VoiceSeqOrDataType(e) = {}
<1> DEFINE b == (d[15] \cap {2, 3}) \cup ShiftLeft(v \cap Bits(2), 2)
           e == SetFrameType(d, v)
<1>1. d[15] \in Byte /\ b \in Byte
  BY DEF Data, Offsets, Byte, Bits, ShiftLeft
<1>2. e[15] = b
  BY <1>1 DEF SetFrameType, Data, Offsets
<1> HIDE DEF e
<1>3. FrameType(e) = FrameType(d) \cup v
  <2>1. ASSUME NEW i \in FrameType(e) PROVE i \in FrameType(d) \cup v
    BY <1>1, <1>2, <2>1 DEF FrameType, Bits, ShiftLeft
  <2>2. ASSUME NEW i \in v PROVE i \in FrameType(e)
    BY <1>1, <1>2 DEF FrameType, Bits, ShiftLeft
  <2>3. ASSUME NEW i \in FrameType(d) PROVE i \in FrameType(e)
    <3>1. i \in Bits(2) /\ i + 2 \in {2, 3} /\ i + 2 \in d[15]
      BY <2>3 DEF FrameType, Bits
    <3> QED
      BY <1>2, <3>1 DEF FrameType
  <2> QED
    BY <2>1, <2>2, <2>3
<1>4. Slot(e) = {} /\ IsGroupCall(e) /\ VoiceSeqOrDataType(e) = {}
  BY <1>1, <1>2 DEF Slot, IsGroupCall, VoiceSeqOrDataType, Bits, ShiftLeft
<1> QED
  BY <1>3, <1>4 DEF e

-----------------------------------------------------------------------------
(* The programs.                                                           *)

\* Every step of a program is one that the client allows its application.
THEOREM ProgramsUseClient == ProgSpec => Spec
<1>1. ProgInit => Init
  BY DEF ProgInit
<1>2. [ProgNext]_allVars => [Next]_vars
  <2> SUFFICES ASSUME [ProgNext]_allVars PROVE Next \/ UNCHANGED vars
    OBVIOUS
  <2>1. CASE ProgStep
    BY <2>1
    DEF ProgStep, Configure, Connect, ConnectRefused, Connected, Close, Return, FileOpen,
        Second, SecondsOver, Take, Record, Replay, TakesOver, Rewind, Play, PlayOver,
        Next, AppCall, AppControl
  <2>2. CASE Interrupt
    BY <2>2 DEF Interrupt
  <2>3. CASE ClientStep
    BY <2>3 DEF ClientStep, Next
  <2>4. CASE UNCHANGED allVars
    BY <2>4 DEF allVars
  <2> QED
    BY <2>1, <2>2, <2>3, <2>4 DEF ProgNext
<1> QED
  BY <1>1, <1>2, PTL DEF ProgSpec, Spec

\* When main() has returned, on whichever of its ways, the server has a logout for
\* every login, and no receive thread is left.
THEOREM ProgramsLogOut == ProgSpec => []EndsLoggedOut
<1> DEFINE GoneInv == pc[Main] = "destroyed" => sockfd = -1
<1>1. Init => GoneInv
  BY DEF Init, Main, Rx, Threads
<1>2. FullInv /\ GoneInv /\ [Next]_vars => GoneInv'
  <2> SUFFICES ASSUME FullInv, GoneInv, [Next]_vars, pc'[Main] = "destroyed"
               PROVE  sockfd' = -1
    OBVIOUS
  <2> USE DEF FullInv, IInv, TypeOK, ThreadInv, JoinedBeforeReuse, MainPcs, RxPcs, At,
              Goto, callVars, wireVars, clockVars, pipeVars, restVars, stillVars, Main,
              Rx, Threads
  <2>1. CASE AppCall
    BY <2>1
    DEF AppCall, AppControl, AppConfigure, AppOpen, AppClose, AppSend, AppGet
  <2>2. CASE CloseIdle \/ CloseActive \/ CloseStop \/ CloseJoin
    BY <2>2 DEF CloseIdle, CloseActive, CloseStop, CloseJoin, AfterClose
  <2>3. CASE OpenResolve \/ OpenSocket \/ OpenCreate \/ Destroy
    BY <2>3 DEF OpenResolve, OpenSocket, OpenCreate, Destroy
  <2>4. ASSUME NEW t \in Threads, GetStep(t) PROVE sockfd' = -1
    BY <2>4 DEF GetStep, GetLock, GetEmpty, GetFront, GetErase, AfterGet
  <2>5. CASE RxStep
    <3>1. pc[Main] # "destroyed" /\ pc'[Main] = pc[Main]
      BY <2>5
      DEF RxStep, RxLocal, RxStart, RxLoopTest, RxLock, RxCheck, RxPush, RxLogout,
          RxCloseSocket, RxExit, RxNothing, RxReceive, RxClassic, RxAck, AckAnswered,
          AckMisfit,
          RxMasterClose, RxPong, RxData, Received, Accepted, GetStep, GetLock, GetEmpty,
          GetFront, GetErase
    <3> QED
      BY <3>1
  <2>6. CASE Tick \/ UNCHANGED vars
    BY <2>6 DEF Tick, vars
  <2> QED
    BY <2>1, <2>2, <2>3, <2>4, <2>5, <2>6 DEF Next, MainStep, Terminated
<1>3. FullInv /\ GoneInv => EndsLoggedOut
  BY DEF FullInv, IInv, TypeOK, ThreadInv, JoinedBeforeReuse, WireInv, OnWire, EndsLoggedOut
<1>4. Spec => []GoneInv
  <2> HIDE DEF GoneInv
  <2> QED
    BY <1>1, <1>2, FullInductive, PTL DEF Spec
<1> QED
  BY <1>3, <1>4, FullInductive, ProgramsUseClient, PTL

-----------------------------------------------------------------------------
(* What main() changes in a packet.                                        *)

\* What the two programs make of a packet.
Handled(d) == IF program = "record" THEN d ELSE Readdressed(d)

LEMMA ReaddressedFields ==
  ASSUME NEW d \in Data, override \in Int
  PROVE  /\ Handled(d) \in Data
         /\ \A f \in Fields : Get(Handled(d), f) = AddressedAs(f, d)
<1> DEFINE number == BitsOf(Magnitude(override))
           group == IF override < 0 THEN {0} ELSE {}
           own == SetRptId(d, OwnId)
           to == SetDstId(own, number)
           all == Set(to, "GroupCall", group)
<1>1. OwnId \in SUBSET Int /\ OwnId \cap Bits(32) = OwnId
  <2>1. OwnId \subseteq Bits(32)
    BY OptionsAssumption DEF Int32
  <2>2. Bits(32) \subseteq Int
    BY DEF Bits
  <2> QED
    BY <2>1, <2>2, Zenon
<1>2. number \in SUBSET Int
  <2>1. number \subseteq Bits(31)
    BY Zenon DEF BitsOf
  <2> HIDE DEF number
  <2> QED
    BY <2>1 DEF Bits
<1>3. /\ own \in Data /\ RptId(own) = OwnId
      /\ \A g \in Fields \ {"RptId"} : Get(own, g) = Get(d, g)
  <2>1. /\ SetRptId(d, OwnId) \in Data
        /\ RptId(SetRptId(d, OwnId)) = OwnId \cap Bits(32)
        /\ \A g \in Fields \ {"RptId"} : Get(SetRptId(d, OwnId), g) = Get(d, g)
    BY <1>1, SetNumber32, Zenon
  <2> QED
    BY <1>1, <2>1
<1> HIDE DEF own, number
<1>4. /\ to \in Data /\ DstId(to) = number \cap Bits(24)
      /\ \A g \in Fields \ {"DstId"} : Get(to, g) = Get(own, g)
  BY <1>2, <1>3, SetNumber24, Zenon
<1> HIDE DEF to
<1>5. /\ all \in Data
      /\ \A g \in Fields : Get(all, g) = IF g = "GroupCall" THEN group ELSE Get(to, g)
  <2>1. group \in SUBSET Room("GroupCall")
    BY DEF Room, Bits
  <2>2. "GroupCall" \in Fields \ {"FrameType"}
    BY DEF Fields
  <2> HIDE DEF group
  <2> QED
    BY <1>4, <2>1, <2>2, SetThenGet
<1>6. all = SetGroupCall(to, override < 0)
  BY DEF Set
<1> HIDE DEF all
<1>7. Handled(d) = IF program = "record" THEN d
                   ELSE IF override = 0 THEN own ELSE all
  BY <1>6 DEF Handled, Readdressed, own, to, number
<1>8. /\ Get(own, "RptId") = OwnId /\ Get(to, "DstId") = number \cap Bits(24)
  BY <1>3, <1>4 DEF Get
<1>9. CASE program = "record"
  <2> SUFFICES ASSUME NEW f \in Fields PROVE Get(d, f) = AddressedAs(f, d)
    BY <1>7, <1>9
  <2> QED
    BY <1>9 DEF AddressedAs
<1>10. CASE program # "record" /\ override = 0
  <2> SUFFICES ASSUME NEW f \in Fields PROVE Get(own, f) = AddressedAs(f, d)
    BY <1>3, <1>7, <1>10
  <2> QED
    BY <1>3, <1>8, <1>10 DEF AddressedAs
<1>11. CASE program # "record" /\ override # 0
  <2> SUFFICES ASSUME NEW f \in Fields PROVE Get(all, f) = AddressedAs(f, d)
    BY <1>5, <1>7, <1>11
  <2>1. Get(all, f) = IF f = "GroupCall" THEN group ELSE Get(to, f)
    BY <1>5
  <2>2. Get(to, f) = IF f = "DstId" THEN number \cap Room("DstId") ELSE Get(own, f)
    BY <1>4, <1>8 DEF Room
  <2>3. Get(own, f) = IF f = "RptId" THEN OwnId ELSE Get(d, f)
    BY <1>3, <1>8
  <2> HIDE DEF group
  <2>4. AddressedAs(f, d) = IF f = "RptId" THEN OwnId
                            ELSE IF f = "DstId" THEN number \cap Room("DstId")
                            ELSE IF f = "GroupCall" THEN group ELSE Get(d, f)
    BY <1>11 DEF AddressedAs, number, group
  <2> QED
    BY <2>1, <2>2, <2>3, <2>4
<1> QED
  BY <1>9, <1>10, <1>11

-----------------------------------------------------------------------------
(* What main() has got, and what has become of it.                         *)

\* Packets are numbered in the order of their arrival, and there is a content for
\* each of them.
DeliveredInOrder ==
  /\ Len(delivered) \in Nat /\ Len(delivered) <= MaxPackets
  /\ \A i \in 1 .. Len(delivered) : delivered[i].id = i

LEMMA InOrder == Spec => []DeliveredInOrder
<1> DEFINE Few == received <= MaxPackets
<1>1. Init => Few
  BY BoundsAssumption DEF Init
<1>2. FullInv /\ Few /\ [Next]_vars => Few'
  <2> SUFFICES ASSUME FullInv, Few, [Next]_vars PROVE Few'
    OBVIOUS
  <2>1. PipeAccepts \/ PipeDelivers \/ PipeStutters
    BY PipeStep DEF FullInv
  <2> QED
    BY <2>1, BoundsAssumption DEF PipeAccepts, PipeDelivers, PipeStutters, FullInv, IInv,
                                  TypeOK
<1>3. FullInv /\ Few /\ LosslessFifo => DeliveredInOrder
  <2> SUFFICES ASSUME FullInv, Few, LosslessFifo PROVE DeliveredInOrder
    OBVIOUS
  <2> DEFINE all == delivered \o Pipe
  <2>1. /\ delivered \in Seq(Packet) /\ Pipe \in Seq(Packet)
        /\ Len(delivered) \in Nat /\ Len(Pipe) \in Nat
        /\ received \in Nat
    BY PipeType, LenProperties DEF FullInv, IInv, TypeOK
  <2>2. /\ Len(all) = Len(delivered) + Len(Pipe)
        /\ \A i \in 1 .. Len(delivered) : all[i] = delivered[i]
        /\ all \in Seq(Packet)
    BY <2>1, ConcatProperties
  <2> HIDE DEF all
  <2>3. [i \in 1 .. Len(all) |-> all[i].id] = [i \in 1 .. received |-> i]
    BY DEF LosslessFifo, Ids, all
  <2>4. Len(all) = received
    <3> DEFINE f == [i \in 1 .. Len(all) |-> all[i].id]
               g == [i \in 1 .. received |-> i]
    <3>1. DOMAIN f = 1 .. Len(all) /\ DOMAIN g = 1 .. received
      OBVIOUS
    <3>2. 1 .. Len(all) = 1 .. received
      BY <2>3, <3>1
    <3> QED
      BY <2>1, <2>2, <3>2
  <2>5. \A i \in 1 .. Len(all) : all[i].id = i
    BY <2>3, <2>4
  <2>6. Len(delivered) <= Len(all)
    BY <2>1, <2>2
  <2>7. \A i \in 1 .. Len(delivered) : delivered[i].id = i
    BY <2>1, <2>2, <2>5, <2>6
  <2> QED
    BY <2>1, <2>4, <2>6, <2>7, BoundsAssumption DEF DeliveredInOrder
<1>4. Spec => []Few
  <2> HIDE DEF Few
  <2> QED
    BY <1>1, <1>2, FullInductive, PTL DEF Spec
<1> QED
  BY <1>3, <1>4, FullInductive, PacketsInOrder, PTL

\* Which places main() can be at, and that it is inside getRxPacket() only where
\* it waits for its result.
PlaceInv ==
  /\ program = "play" => place \notin {"second", "take", "taken"}
  /\ program = "parrot" => place \notin {"file", "rewind", "read"}
  /\ program = "record" => place \notin {"rewind", "read"} /\ override = 0
  /\ pc[Main] \in {"getLock", "getFront", "getErase"} => place = "taken"

\* The packet that the last call has returned is the only one not handled yet,
\* but for one that SIGINT has made main() drop.
CountInv ==
  /\ program = "play" => Len(out) = pos
  /\ program # "play" /\ place = "taken" =>
       /\ Len(out) = taken /\ Len(delivered) \in {taken, taken + 1}
       /\ pc[Main] \in {"getLock", "getFront", "getErase"} => Len(delivered) = taken
  /\ program # "play" /\ place # "taken" =>
       \/ Len(out) = Len(delivered)
       \/ exitRequest /\ place # "take" /\ Len(out) = Len(delivered) - 1

Source(i) == IF program = "play" THEN Tape[i] ELSE Content[i]
SourceLength == IF program = "play" THEN Len(Tape) ELSE MaxPackets

OutInv ==
  \A i \in 1 .. Len(out) :
    /\ i <= SourceLength
    /\ \A d \in Data : d = Source(i) => out[i] = Handled(d)

ProgInv == ProgTypeOK /\ PlaceInv /\ CountInv /\ OutInv

\* What the application sees of a step of the client.
LEMMA DeliveryStep ==
  IInv /\ [Next]_vars =>
    \/ /\ pc[Main] = "getErase" /\ pc'[Main] = "app"
       /\ Len(delivered') = Len(delivered) + 1
    \/ delivered' = delivered
<1> SUFFICES ASSUME IInv, [Next]_vars
             PROVE  \/ /\ pc[Main] = "getErase" /\ pc'[Main] = "app"
                       /\ Len(delivered') = Len(delivered) + 1
                    \/ delivered' = delivered
  OBVIOUS
<1>1. delivered \in Seq(Packet) /\ Pipe \in Seq(Packet)
  BY PipeType DEF IInv, TypeOK
<1>2. CASE PipeDelivers
  <2>1. Head(Pipe) \in Packet
    BY <1>1, <1>2, HeadTailProperties DEF PipeDelivers
  <2> QED
    BY <1>1, <1>2, <2>1, AppendProperties DEF PipeDelivers
<1> QED
  BY <1>2, PipeStep DEF PipeAccepts, PipeStutters

\* Only the application starts a getRxPacket() of Main.
LEMMA ClientGets ==
  IInv /\ ClientStep =>
    (pc'[Main] \in {"getLock", "getFront", "getErase"}
       => pc[Main] \in {"getLock", "getFront", "getErase"})
<1> SUFFICES ASSUME IInv, ClientStep, pc'[Main] \in {"getLock", "getFront", "getErase"}
             PROVE  pc[Main] \in {"getLock", "getFront", "getErase"}
  OBVIOUS
<1> USE DEF IInv, TypeOK, At, Goto, MainPcs, RxPcs, callVars, wireVars, clockVars, pipeVars,
            restVars, stillVars, Main, Rx, Threads
<1>1. CASE CloseIdle \/ CloseActive \/ CloseStop \/ CloseJoin
  BY <1>1 DEF CloseIdle, CloseActive, CloseStop, CloseJoin, AfterClose, ThreadInv
<1>2. CASE OpenResolve \/ OpenSocket \/ OpenCreate \/ Destroy
  BY <1>2 DEF OpenResolve, OpenSocket, OpenCreate, Destroy
<1>3. CASE GetStep(Main)
  BY <1>3 DEF GetStep, GetLock, GetEmpty, GetFront, GetErase
<1>4. CASE RxStep
  BY <1>4
  DEF RxStep, RxLocal, RxStart, RxLoopTest, RxLock, RxCheck, RxPush, RxLogout,
      RxCloseSocket, RxExit, RxNothing, RxReceive, RxClassic, RxAck, AckAnswered,
      AckMisfit,
      RxMasterClose, RxPong, RxData, Received, Accepted, GetStep, GetLock, GetEmpty,
      GetFront, GetErase
<1>5. CASE Tick \/ Terminated
  BY <1>5 DEF Tick, Terminated, vars
<1> QED
  BY <1>1, <1>2, <1>3, <1>4, <1>5 DEF ClientStep, MainStep

LEMMA PlaceStep == IInv /\ PlaceInv /\ [ProgNext]_allVars => PlaceInv'
<1> SUFFICES ASSUME IInv, PlaceInv, [ProgNext]_allVars PROVE PlaceInv'
  OBVIOUS
<1> USE DEF IInv, TypeOK, PlaceInv, optionVars, progVars, Then, Calls, At, Goto, MainPcs,
            RxPcs, callVars, wireVars, clockVars, pipeVars, restVars, stillVars, Main, Rx,
            Threads
<1>1. CASE Configure \/ Connect \/ ConnectRefused \/ Connected \/ Close \/ Return
  BY <1>1 DEF Configure, Connect, ConnectRefused, Connected, Close, Return, AppConfigure,
              AppOpen, AppClose, vars
<1>2. CASE FileOpen \/ Second \/ SecondsOver
  BY <1>2 DEF FileOpen, Second, SecondsOver, vars
<1>3. CASE Take \/ Record \/ Replay \/ TakesOver
  BY <1>3 DEF Take, Record, Replay, TakesOver, AppGet, AppSend, vars
<1>4. CASE Rewind \/ Play \/ PlayOver
  BY <1>4 DEF Rewind, Play, PlayOver, AppSend, vars
<1>5. CASE Interrupt \/ UNCHANGED allVars
  BY <1>5 DEF Interrupt, vars, allVars
<1>6. CASE ClientStep
  <2>1. UNCHANGED progVars
    BY <1>6 DEF ClientStep
  <2>2. pc'[Main] \in {"getLock", "getFront", "getErase"}
          => pc[Main] \in {"getLock", "getFront", "getErase"}
    BY <1>6, ClientGets
  <2> QED
    BY <2>1, <2>2
<1> QED
  BY <1>1, <1>2, <1>3, <1>4, <1>5, <1>6 DEF ProgNext, ProgStep

\* The steps of a program leave what has been delivered to the client's steps.
LEMMA ProgKeepsDelivered ==
  ProgStep \/ Interrupt \/ UNCHANGED allVars
    => delivered' = delivered /\ UNCHANGED optionVars
BY DEF ProgStep, Configure, Connect, ConnectRefused, Connected, Close, Return, FileOpen,
       Second, SecondsOver, Take, Record, Replay, TakesOver, Rewind, Play, PlayOver,
       Interrupt, AppConfigure, AppOpen, AppClose, AppGet, AppSend, vars, allVars, progVars,
       optionVars, callVars, pipeVars, restVars, stillVars

LEMMA CountStep ==
  FullInv /\ ProgInv /\ DeliveredInOrder /\ [ProgNext]_allVars => CountInv'
<1> SUFFICES ASSUME FullInv, ProgInv, DeliveredInOrder, [ProgNext]_allVars
             PROVE  CountInv'
  OBVIOUS
<1>1. /\ Len(out) \in Nat /\ Len(delivered) \in Nat /\ taken \in Nat /\ pos \in Nat
      /\ out \in Seq(Data)
      /\ program \in {"parrot", "record", "play"}
      /\ \A d : Len(Append(out, d)) = Len(out) + 1
  BY LenProperties, ProgramsAssumption DEF ProgInv, ProgTypeOK, DeliveredInOrder
<1>2. pc \in [Threads -> MainPcs \cup RxPcs] /\ CountInv /\ PlaceInv
  BY DEF FullInv, IInv, TypeOK, ProgInv
<1>3. PlaceInv'
  BY PlaceStep DEF FullInv, ProgInv
<1>4. CASE ClientStep
  <2>1. UNCHANGED progVars
    BY <1>4 DEF ClientStep
  <2>2. \/ /\ pc[Main] = "getErase" /\ pc'[Main] = "app"
           /\ Len(delivered') = Len(delivered) + 1
        \/ delivered' = delivered
    BY <1>4, DeliveryStep DEF ClientStep, Next, FullInv
  <2>3. pc'[Main] \in {"getLock", "getFront", "getErase"}
          => pc[Main] \in {"getLock", "getFront", "getErase"}
    BY <1>4, ClientGets DEF FullInv
  <2>4. UNCHANGED <<program, place, exitRequest, taken, pos, out>>
    BY <2>1 DEF progVars, optionVars
  <2>5. CASE pc[Main] = "getErase" /\ Len(delivered') = Len(delivered) + 1
             /\ pc'[Main] = "app"
    <3>1. place = "taken" /\ program # "play"
      BY <1>2, <2>5 DEF PlaceInv
    <3>2. Len(out) = taken /\ Len(delivered) = taken
      BY <1>2, <2>5, <3>1 DEF CountInv
    <3> QED
      BY <1>1, <2>4, <2>5, <3>1, <3>2 DEF CountInv
  <2>6. CASE delivered' = delivered
    BY <1>2, <2>3, <2>4, <2>6 DEF CountInv
  <2> QED
    BY <2>2, <2>5, <2>6
<1>5. ASSUME ProgStep \/ Interrupt \/ UNCHANGED allVars PROVE delivered' = delivered
  BY <1>5, ProgKeepsDelivered
<1> USE <1>1, <1>2, <1>5 DEF CountInv, PlaceInv, progVars, optionVars, Then, Calls, At,
                   Goto, Main, Rx, Threads
<1>6. CASE Configure \/ Connect \/ ConnectRefused \/ Connected \/ Close \/ Return
  BY <1>6 DEF ProgStep, Configure, Connect, ConnectRefused, Connected, Close, Return
<1>7. CASE FileOpen \/ Second \/ SecondsOver
  BY <1>7 DEF ProgStep, FileOpen, Second, SecondsOver
<1>8. CASE Take
  BY <1>8 DEF ProgStep, Take, AppGet
<1>9. CASE Record \/ Replay
  BY <1>9 DEF ProgStep, Record, Replay, Got, AppSend
<1>10. CASE TakesOver
  BY <1>10 DEF ProgStep, TakesOver, Got, Again
<1>11. CASE Rewind \/ Play \/ PlayOver
  BY <1>11, Len(<<>>) = 0 DEF ProgStep, Rewind, Play, PlayOver, AppSend
<1>12. CASE Interrupt
  <2>1. UNCHANGED <<pc, delivered, program, place, taken, pos, out>> /\ exitRequest' = TRUE
    BY <1>12 DEF Interrupt, vars, pipeVars
  <2> QED
    BY <2>1
<1>13. CASE UNCHANGED allVars
  <2>1. UNCHANGED <<pc, delivered, program, place, exitRequest, taken, pos, out>>
    BY <1>13 DEF allVars, vars, pipeVars
  <2> QED
    BY <2>1
<1> QED
  BY <1>4, <1>6, <1>7, <1>8, <1>9, <1>10, <1>11, <1>12, <1>13 DEF ProgNext, ProgStep

LEMMA SourceType ==
  ASSUME ProgTypeOK, NEW i \in Nat \ {0}, i <= SourceLength
  PROVE  Source(i) \in Data
BY PacketsAssumption, BoundsAssumption, ElementOfSeq DEF Source, SourceLength

\* The packet that getRxPacket() has just returned is the next to be handled.
LEMMA TakenNext ==
  ASSUME ProgInv, DeliveredInOrder, place = "taken", program # "play", Got
  PROVE  /\ Len(out) + 1 = Len(delivered) /\ Len(out) + 1 <= MaxPackets
         /\ Taken = Source(Len(out) + 1) /\ Taken \in Data
<1>1. Len(out) \in Nat /\ Len(delivered) \in Nat /\ taken \in Nat
  BY LenProperties DEF ProgInv, ProgTypeOK, DeliveredInOrder
<1>2. Len(out) + 1 = Len(delivered)
  BY <1>1 DEF ProgInv, CountInv, Got
<1>3. delivered[Len(delivered)].id = Len(delivered) /\ Len(delivered) <= MaxPackets
  BY <1>1, <1>2 DEF DeliveredInOrder
<1>4. Taken = Content[Len(delivered)]
  BY <1>3 DEF Taken
<1>5. Content[Len(delivered)] \in Data
  BY <1>1, <1>2, <1>3, BoundsAssumption, PacketsAssumption
<1> QED
  BY <1>2, <1>3, <1>4, <1>5 DEF Source

\* A step handles the next packet, starts a new round of the file, or leaves what
\* has been sent or written.
Handles ==
  \E d \in Data :
    /\ d = Source(Len(out) + 1) /\ Len(out) + 1 <= SourceLength
    /\ out' = Append(out, Handled(d))

LEMMA HandleStep ==
  ASSUME FullInv, ProgInv, DeliveredInOrder, [ProgNext]_allVars
  PROVE  /\ Handles \/ out' = <<>> \/ out' = out
         /\ UNCHANGED optionVars
<1>1. /\ pos \in Nat /\ pos <= Len(Tape) /\ Len(Tape) \in Nat
      /\ override \in Int /\ program \in {"parrot", "record", "play"}
  BY LenProperties, ProgramsAssumption, OptionsAssumption, PacketsAssumption
  DEF ProgInv, ProgTypeOK
<1>2. CASE Record \/ Replay
  <2>1. place = "taken" /\ Got /\ program # "play"
    BY <1>2 DEF Record, Replay, Calls
  <2>2. /\ Len(out) + 1 <= MaxPackets
        /\ Taken = Source(Len(out) + 1) /\ Taken \in Data
    BY <2>1, TakenNext
  <2>3. out' = Append(out, Handled(Taken))
    BY <1>2 DEF Record, Replay, Handled
  <2> QED
    BY <1>2, <2>1, <2>2, <2>3, ProgKeepsDelivered DEF ProgStep, Handles, SourceLength
<1>3. CASE Play
  <2>1. program = "play"
    BY <1>1, <1>3 DEF Play, Calls, ProgInv, PlaceInv
  <2>2. Len(out) = pos /\ pos + 1 <= SourceLength /\ pos + 1 \in Nat \ {0}
    BY <1>1, <1>3, <2>1 DEF Play, ProgInv, CountInv, SourceLength
  <2>3. Source(pos + 1) = Tape[pos + 1] /\ Source(pos + 1) \in Data
    BY <2>1, <2>2, SourceType DEF ProgInv, Source
  <2>4. out' = Append(out, Handled(Tape[pos + 1]))
    BY <1>3, <2>1 DEF Play, Handled
  <2> QED
    BY <1>3, <2>2, <2>3, <2>4, ProgKeepsDelivered DEF ProgStep, Handles
<1>4. CASE Rewind
  BY <1>4, ProgKeepsDelivered DEF ProgStep, Rewind
<1>5. CASE ClientStep
  BY <1>5 DEF ClientStep, progVars
<1>6. CASE Interrupt \/ UNCHANGED allVars
  BY <1>6, ProgKeepsDelivered DEF Interrupt, allVars, progVars
<1>7. CASE \/ Configure \/ Connect \/ ConnectRefused \/ Connected \/ Close \/ Return
           \/ FileOpen \/ Second \/ SecondsOver \/ Take \/ TakesOver \/ PlayOver
  BY <1>7, ProgKeepsDelivered
  DEF ProgStep, Configure, Connect, ConnectRefused, Connected, Close, Return, FileOpen,
      Second, SecondsOver, Take, TakesOver, PlayOver
<1> QED
  BY <1>2, <1>3, <1>4, <1>5, <1>6, <1>7 DEF ProgNext, ProgStep

LEMMA OutStep ==
  FullInv /\ ProgInv /\ DeliveredInOrder /\ [ProgNext]_allVars
    => OutInv' /\ out' \in Seq(Data)
<1> SUFFICES ASSUME FullInv, ProgInv, DeliveredInOrder, [ProgNext]_allVars
             PROVE  OutInv' /\ out' \in Seq(Data)
  OBVIOUS
<1>1. Handles \/ out' = <<>> \/ out' = out
  BY HandleStep
<1>2. UNCHANGED <<program, override>>
  BY HandleStep DEF optionVars
<1>3. SourceLength' = SourceLength /\ \A d \in Data : Handled(d)' = Handled(d)
  BY <1>2 DEF SourceLength, Handled, Readdressed
<1>4. \A i \in Nat : Source(i)' = Source(i)
  BY <1>2 DEF Source
<1>5. out \in Seq(Data) /\ Len(out) \in Nat /\ OutInv /\ override \in Int
  BY LenProperties, OptionsAssumption DEF ProgInv, ProgTypeOK
<1>6. CASE out' = out
  BY <1>3, <1>4, <1>5, <1>6 DEF OutInv
<1>7. CASE out' = <<>>
  BY <1>7 DEF OutInv
<1>8. CASE Handles
  <2>1. PICK d \in Data : /\ d = Source(Len(out) + 1) /\ Len(out) + 1 <= SourceLength
                          /\ out' = Append(out, Handled(d))
    BY <1>8 DEF Handles
  <2>2. Handled(d) \in Data
    BY <1>5, ReaddressedFields, Zenon
  <2>3. /\ out' \in Seq(Data) /\ Len(out') = Len(out) + 1
        /\ \A i \in 1 .. Len(out) : out'[i] = out[i]
        /\ out'[Len(out) + 1] = Handled(d)
    BY <1>5, <2>1, <2>2, AppendProperties
  <2>4. ASSUME NEW i \in 1 .. Len(out'), NEW c \in Data, c = Source(i)'
        PROVE  i <= SourceLength' /\ out'[i] = Handled(c)'
    <3>1. Source(i)' = Source(i) /\ Handled(c)' = Handled(c)
      BY <1>3, <1>4, <1>5, <2>3
    <3>2. CASE i \in 1 .. Len(out)
      BY <1>3, <1>5, <2>3, <2>4, <3>1, <3>2 DEF OutInv
    <3>3. CASE i = Len(out) + 1
      BY <1>3, <2>1, <2>3, <2>4, <3>1, <3>3
    <3> QED
      BY <1>5, <2>3, <3>2, <3>3
  <2>5. ASSUME NEW i \in 1 .. Len(out') PROVE i <= SourceLength'
    BY <1>3, <1>5, <2>1, <2>3 DEF OutInv
  <2> QED
    BY <2>3, <2>4, <2>5 DEF OutInv
<1> QED
  BY <1>1, <1>5, <1>6, <1>7, <1>8

LEMMA ProgTypeStep ==
  FullInv /\ ProgInv /\ DeliveredInOrder /\ [ProgNext]_allVars => ProgTypeOK'
<1> SUFFICES ASSUME FullInv, ProgInv, DeliveredInOrder, [ProgNext]_allVars
             PROVE  ProgTypeOK'
  OBVIOUS
<1>1. out' \in Seq(Data) /\ UNCHANGED <<program, loop, override>>
  BY OutStep, HandleStep DEF optionVars
<1>2. RecTime \in Nat /\ Len(Tape) \in Nat /\ Len(delivered) \in Nat
  BY OptionsAssumption, PacketsAssumption, LenProperties DEF DeliveredInOrder
<1> USE <1>1, <1>2 DEF ProgInv, ProgTypeOK, Places, progVars, optionVars, Then, Calls
<1>3. CASE Configure \/ Connect \/ ConnectRefused \/ Connected \/ Close \/ Return
  BY <1>3 DEF Configure, Connect, ConnectRefused, Connected, Close, Return
<1>4. CASE FileOpen \/ Second \/ SecondsOver
  BY <1>4 DEF FileOpen, Second, SecondsOver
<1>5. CASE Take \/ Record \/ Replay \/ TakesOver
  BY <1>5 DEF Take, Record, Replay, TakesOver
<1>6. CASE Rewind \/ Play \/ PlayOver
  BY <1>6 DEF Rewind, Play, PlayOver
<1>7. CASE Interrupt \/ ClientStep \/ UNCHANGED allVars
  BY <1>7 DEF Interrupt, ClientStep, allVars
<1> QED
  BY <1>3, <1>4, <1>5, <1>6, <1>7 DEF ProgNext, ProgStep

LEMMA InitProgInv == ProgInit => ProgInv
<1> SUFFICES ASSUME ProgInit PROVE ProgInv
  OBVIOUS
<1>1. ProgTypeOK
  <2>1. Len(Tape) \in Nat /\ RecTime \in Nat
    BY OptionsAssumption, PacketsAssumption, LenProperties
  <2>2. out = <<>> /\ <<>> \in Seq(Data)
    BY DEF ProgInit
  <2>3. /\ program \in Programs /\ loop \in BOOLEAN /\ override \in Overrides
        /\ exitRequest \in BOOLEAN
    BY Zenon DEF ProgInit
  <2>4. secs \in 0 .. RecTime /\ taken \in Nat /\ pos \in 0 .. Len(Tape)
    BY <2>1 DEF ProgInit
  <2> QED
    BY <2>2, <2>3, <2>4, Zenon DEF ProgInit, ProgTypeOK, Places
<1>3. OutInv
  BY DEF ProgInit, OutInv
<1>2. PlaceInv /\ CountInv
  BY DEF ProgInit, Init, PlaceInv, CountInv, Main, Rx, Threads
<1> QED
  BY <1>1, <1>2, <1>3 DEF ProgInv

LEMMA ProgInductive == ProgSpec => [](FullInv /\ DeliveredInOrder /\ ProgInv)
<1>1. FullInv /\ DeliveredInOrder /\ ProgInv /\ [ProgNext]_allVars => ProgInv'
  BY ProgTypeStep, PlaceStep, CountStep, OutStep DEF FullInv, ProgInv
<1>2. ProgSpec => [](FullInv /\ DeliveredInOrder)
  BY ProgramsUseClient, FullInductive, InOrder, PTL
<1> QED
  BY <1>1, <1>2, InitProgInv, PTL DEF ProgSpec

-----------------------------------------------------------------------------
(* The theorems.                                                           *)

\* The variables of main() always have their types: no round counts its seconds
\* below zero or reads behind the end of the file.
THEOREM ProgTypeCorrect == ProgSpec => []ProgTypeOK
BY ProgInductive, PTL DEF ProgInv

\* What main() has got is what the invariant says it has handled, one by one.
LEMMA InputIsSource ==
  ASSUME DeliveredInOrder, ProgInv
  PROVE  /\ Len(Input) \in Nat /\ Len(out) \in Nat
         /\ Len(out) \in {Len(Input), Len(Input) - 1}
         /\ Len(out) < Len(Input) => exitRequest \/ place = "taken"
         /\ \A i \in 1 .. Len(out) : Input[i] = Source(i) /\ Input[i] \in Data
<1>1. /\ Len(out) \in Nat /\ Len(delivered) \in Nat /\ pos \in Nat
      /\ pos <= Len(Tape) /\ Len(Tape) \in Nat /\ Tape \in Seq(Data)
  BY LenProperties, PacketsAssumption DEF DeliveredInOrder, ProgInv, ProgTypeOK
<1>2. ASSUME NEW i \in 1 .. Len(out) PROVE Source(i) \in Data
  BY <1>1, <1>2, SourceType DEF ProgInv, OutInv
<1>3. CASE program = "play"
  <2>1. Input = SubSeq(Tape, 1, pos)
    BY <1>3 DEF Input
  <2>2. Len(SubSeq(Tape, 1, pos)) = pos
        /\ \A i \in 1 .. pos : SubSeq(Tape, 1, pos)[i] = Tape[i]
    BY <1>1, SubSeqProperties
  <2>3. Len(out) = pos
    BY <1>3 DEF ProgInv, CountInv
  <2> QED
    BY <1>1, <1>2, <1>3, <2>1, <2>2, <2>3 DEF Source
<1>4. CASE program # "play"
  <2>1. Input = [i \in 1 .. Len(delivered) |-> Content[delivered[i].id]]
    BY <1>4 DEF Input
  <2>2. Len(Input) = Len(delivered)
    BY <1>1, <2>1
  <2>3. /\ Len(out) \in {Len(delivered), Len(delivered) - 1}
        /\ Len(out) < Len(delivered) => exitRequest \/ place = "taken"
    BY <1>1, <1>4 DEF ProgInv, CountInv
  <2>4. ASSUME NEW i \in 1 .. Len(out) PROVE Input[i] = Source(i)
    BY <1>1, <1>4, <2>1, <2>3, <2>4 DEF DeliveredInOrder, Source
  <2> QED
    BY <1>1, <1>2, <2>2, <2>3, <2>4
<1> QED
  BY <1>3, <1>4

\* What main() has sent or written carries the fields that AddressedAs gives.
LEMMA OutFields ==
  ASSUME DeliveredInOrder, ProgInv, NEW i \in 1 .. Len(out), NEW f \in Fields
  PROVE  Get(out[i], f) = AddressedAs(f, Input[i])
<1>1. Input[i] = Source(i) /\ Input[i] \in Data
  BY InputIsSource
<1>2. out[i] = Handled(Input[i])
  <2>1. \A d \in Data : d = Source(i) => out[i] = Handled(d)
    BY DEF ProgInv, OutInv
  <2> QED
    BY <1>1, <2>1, Zenon
<1>3. override \in Int
  BY OptionsAssumption DEF ProgInv, ProgTypeOK
<1> QED
  <2>1. Get(Handled(Input[i]), f) = AddressedAs(f, Input[i])
    BY <1>1, <1>3, ReaddressedFields, Zenon
  <2> QED
    BY <1>2, <2>1

\* parrot and dmrrec send, or write, every packet they got once and in order; only
\* one packet can be missing, and only while it is in hand or after SIGINT.
THEOREM RecordingComplete == ProgSpec => []RecordingKept
<1>1. DeliveredInOrder /\ ProgInv => RecordingKept
  <2> SUFFICES ASSUME DeliveredInOrder, ProgInv PROVE RecordingKept
    OBVIOUS
  <2>1. ASSUME NEW i \in 1 .. Len(out), NEW f \in {"SeqNum", "StreamId"}
        PROVE  Get(out[i], f) = Get(Input[i], f)
    <3>1. f \in Fields /\ f \notin {"RptId", "DstId", "GroupCall"}
      BY DEF Fields
    <3>2. Get(out[i], f) = AddressedAs(f, Input[i])
      BY <3>1, OutFields
    <3> QED
      BY <3>1, <3>2 DEF AddressedAs
  <2>2. ASSUME NEW i \in 1 .. Len(out)
        PROVE  SeqNum(out[i]) = SeqNum(Input[i]) /\ StreamId(out[i]) = StreamId(Input[i])
    BY <2>1 DEF Get
  <2> QED
    BY <2>2, InputIsSource DEF RecordingKept
<1> QED
  BY <1>1, ProgInductive, PTL

\* The packets that parrot and dmrrec send have this repeater's number and, with
\* -did, that destination; all their other fields are those that were received.
THEOREM ReplayCorrect == ProgSpec => []ReplayReaddressed
<1>1. DeliveredInOrder /\ ProgInv => ReplayReaddressed
  BY OutFields DEF ReplayReaddressed
<1> QED
  BY <1>1, ProgInductive, PTL

=============================================================================
