----------------------------- MODULE MCByteFiFo -----------------------------
(* A small instance of ByteFiFo for TLC. *)
EXTENDS ByteFiFo

MCBytes == {0, 1}
MCSizes == 0 .. 3
\* Blocks up to one byte longer than the largest ring.
MCBlocks == UNION {[1 .. n -> MCBytes] : n \in 0 .. 4}
=============================================================================
