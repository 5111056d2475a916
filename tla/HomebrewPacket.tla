--------------------------- MODULE HomebrewPacket ---------------------------
(***************************************************************************)
(* The accessors of src/src/lib/homebrew/homebrewpacket.h on the bytes of  *)
(* m_data that hold the fields of a DMR packet, 4 to 19.  A byte or an int *)
(* is the set of the numbers of its bits that are 1, so that & and | are   *)
(* intersection and union and a shift adds to the numbers.                 *)
(***************************************************************************)
EXTENDS Integers

Bits(n) == 0 .. n - 1
Byte == SUBSET Bits(8)
Int32 == SUBSET Bits(32)
Offsets == 4 .. 19
Data == [Offsets -> Byte]

ShiftLeft(b, n) == {i + n : i \in b}
\* BYTE(v >> n)
ByteAt(v, n) == {i \in Bits(8) : i + n \in v}

\* Three, or four, bytes of a number, the most significant one first.
Read24(d, k) == ShiftLeft(d[k], 16) \cup ShiftLeft(d[k + 1], 8) \cup d[k + 2]
Write24(d, k, v) ==
  [d EXCEPT ![k] = ByteAt(v, 16), ![k + 1] = ByteAt(v, 8), ![k + 2] = ByteAt(v, 0)]
Read32(d, k) == ShiftLeft(d[k], 24) \cup Read24(d, k + 1)
Write32(d, k, v) == [Write24(d, k + 1, v) EXCEPT ![k] = ByteAt(v, 24)]

-----------------------------------------------------------------------------
(* The getters.                                                            *)

SeqNum(d) == d[4]
SrcId(d) == Read24(d, 5)
DstId(d) == Read24(d, 8)
RptId(d) == Read32(d, 11)
Slot(d) == d[15] \cap {0}
IsGroupCall(d) == 1 \notin d[15]
FrameType(d) == {i \in Bits(2) : i + 2 \in d[15]}
VoiceSeqOrDataType(d) == {i \in Bits(4) : i + 4 \in d[15]}
StreamId(d) == Read32(d, 16)

-----------------------------------------------------------------------------
(* The setters; those with a result leave the packet alone when it is      *)
(* false.                                                                  *)

SetSeqNum(d, v) == IF v \subseteq Bits(8) THEN [d EXCEPT ![4] = v] ELSE d
SetSrcId(d, v) == Write24(d, 5, v)
SetDstId(d, v) == Write24(d, 8, v)

\* Mutant: the repeater's number is written one byte too early.
SetRptIdEarly(d, v) == Write32(d, 10, v)

SetRptId(d, v) == Write32(d, 11, v)

SetSlot(d, v) ==
  IF v \subseteq {0} THEN [d EXCEPT ![15] = (@ \ {0}) \cup v] ELSE d

SetGroupCall(d, group) ==
  [d EXCEPT ![15] = IF group THEN @ \ {1} ELSE @ \cup {1}]

\* The mask 0xC keeps the old frame type and clears everything else.
SetFrameType(d, v) ==
  [d EXCEPT ![15] = (@ \cap {2, 3}) \cup ShiftLeft(v \cap Bits(2), 2)]

\* Bits of v above the fourth are lost in the assignment to a BYTE.
SetVoiceSeqOrDataType(d, v) ==
  [d EXCEPT ![15] = (@ \cap Bits(4)) \cup ShiftLeft(v \cap Bits(4), 4)]

SetStreamId(d, v) == Write32(d, 16, v)

-----------------------------------------------------------------------------
(* Fields by name.                                                         *)

Fields == {"SeqNum", "SrcId", "DstId", "RptId", "Slot", "GroupCall", "FrameType",
           "VoiceSeqOrDataType", "StreamId"}

Get(d, f) ==
  CASE f = "SeqNum" -> SeqNum(d)
    [] f = "SrcId" -> SrcId(d)
    [] f = "DstId" -> DstId(d)
    [] f = "RptId" -> RptId(d)
    [] f = "Slot" -> Slot(d)
    [] f = "GroupCall" -> IF IsGroupCall(d) THEN {0} ELSE {}
    [] f = "FrameType" -> FrameType(d)
    [] f = "VoiceSeqOrDataType" -> VoiceSeqOrDataType(d)
    [] f = "StreamId" -> StreamId(d)

Set(d, f, v) ==
  CASE f = "SeqNum" -> SetSeqNum(d, v)
    [] f = "SrcId" -> SetSrcId(d, v)
    [] f = "DstId" -> SetDstId(d, v)
    [] f = "RptId" -> SetRptId(d, v)
    [] f = "Slot" -> SetSlot(d, v)
    [] f = "GroupCall" -> SetGroupCall(d, v # {})
    [] f = "FrameType" -> SetFrameType(d, v)
    [] f = "VoiceSeqOrDataType" -> SetVoiceSeqOrDataType(d, v)
    [] f = "StreamId" -> SetStreamId(d, v)

\* The bits a field has room for.
Room(f) ==
  CASE f = "SeqNum" -> Bits(8)
    [] f \in {"SrcId", "DstId"} -> Bits(24)
    [] f \in {"RptId", "StreamId"} -> Bits(32)
    [] f \in {"Slot", "GroupCall"} -> Bits(1)
    [] f = "FrameType" -> Bits(2)
    [] f = "VoiceSeqOrDataType" -> Bits(4)
=============================================================================
