------------------------------ MODULE ByteFiFo ------------------------------
(***************************************************************************)
(* The ring buffer of src/src/lib/data/bytefifo.cpp.  Every operation      *)
(* holds m_lckRing from its first access to the members to its last, so it *)
(* is one step here; the steps are those of any number of threads.         *)
(***************************************************************************)
EXTENDS Integers, Sequences

CONSTANTS
  Bytes,  \* the values of a byte
  Unset,  \* the value of a byte of the ring that was never written
  Sizes,  \* the sizes setSize() is called with
  Blocks, \* the blocks of bytes put() is called with
  MaxGet  \* the largest number of bytes get() is asked for: get(pByte) takes one

ASSUME UnsetAssumption == Unset \notin Bytes
ASSUME SizesAssumption == Sizes \subseteq Nat
ASSUME BlocksAssumption == Blocks \subseteq Seq(Bytes)
ASSUME MaxGetAssumption == MaxGet \in Nat \ {0}

VARIABLES
  ring,     \* m_pRing
  size,     \* m_iSize
  count,    \* m_iCount
  readIdx,  \* m_iReadIdx
  writeIdx, \* m_iWriteIdx
  call      \* the last call: the bytes it was given, the number it asked for,
            \* its success and the bytes it got

vars == <<ring, size, count, readIdx, writeIdx, call>>

Called(given, asked, ok, got) ==
  call' = [given |-> given, asked |-> asked, ok |-> ok, got |-> got]

\* memcpy() of n bytes of src, from its index first on, to the ring at index at.
Copied(dst, at, src, first, n) ==
  [k \in DOMAIN dst |->
     IF at <= k /\ k < at + n THEN src[first + k - at] ELSE dst[k]]

Wrap(idx) == IF idx >= size THEN idx - size ELSE idx

\* Mutant: reset() forgets the write index.
ResetHalf ==
  /\ count' = 0 /\ readIdx' = 0
  /\ Called(<<>>, 0, TRUE, <<>>)
  /\ UNCHANGED <<ring, size, writeIdx>>

Reset ==
  /\ count' = 0 /\ readIdx' = 0 /\ writeIdx' = 0
  /\ Called(<<>>, 0, TRUE, <<>>)
  /\ UNCHANGED <<ring, size>>

SetSize(n) ==
  /\ ring' = [k \in 0 .. n - 1 |-> Unset]
  /\ size' = n
  /\ count' = 0 /\ readIdx' = 0 /\ writeIdx' = 0
  /\ Called(<<>>, 0, TRUE, <<>>)

\* put(byte).
PutByte(b) ==
  /\ count < size
  /\ ring' = [ring EXCEPT ![writeIdx] = b]
  /\ writeIdx' = Wrap(writeIdx + 1)
  /\ count' = count + 1
  /\ Called(<<b>>, 0, TRUE, <<>>)
  /\ UNCHANGED <<size, readIdx>>

\* Mutant: the part of a block behind the end of the ring starts over with the
\* block's first byte.
StoredTwice(block) ==
  LET before == size - writeIdx
  IN  IF Len(block) > before
      THEN Copied(Copied(ring, writeIdx, block, 1, before),
                  0, block, 1, Len(block) - before)
      ELSE Copied(ring, writeIdx, block, 1, Len(block))

\* The block in the ring: in two pieces when it reaches beyond the ring's end.
Stored(block) ==
  LET before == size - writeIdx
  IN  IF Len(block) > before
      THEN Copied(Copied(ring, writeIdx, block, 1, before),
                  0, block, before + 1, Len(block) - before)
      ELSE Copied(ring, writeIdx, block, 1, Len(block))

\* put(pBuffer, iLength).
PutBlock(block) ==
  /\ Len(block) <= size - count
  /\ ring' = Stored(block)
  /\ writeIdx' = Wrap(writeIdx + Len(block))
  /\ count' = count + Len(block)
  /\ Called(block, 0, TRUE, <<>>)
  /\ UNCHANGED <<size, readIdx>>

\* put() without room for all that it is given.
PutRefused(block) ==
  /\ Len(block) > size - count
  /\ Called(block, 0, FALSE, <<>>)
  /\ UNCHANGED <<ring, size, count, readIdx, writeIdx>>

\* get(pByte).
GetByte ==
  /\ count > 0
  /\ Called(<<>>, 1, TRUE, <<ring[readIdx]>>)
  /\ readIdx' = Wrap(readIdx + 1)
  /\ count' = count - 1
  /\ UNCHANGED <<ring, size, writeIdx>>

\* The oldest n bytes: in two pieces when they reach beyond the ring's end.
Fetched(n) ==
  LET before == size - readIdx
  IN  [i \in 1 .. n |-> IF i <= before THEN ring[readIdx + i - 1]
                                       ELSE ring[i - before - 1]]

\* get(pBuffer, iMaxLength).
GetBlock(max) ==
  LET n == IF count < max THEN count ELSE max
  IN  /\ n > 0
      /\ Called(<<>>, max, TRUE, Fetched(n))
      /\ readIdx' = Wrap(readIdx + n)
      /\ count' = count - n
      /\ UNCHANGED <<ring, size, writeIdx>>

\* get() of an empty ring, or of no byte.
GetNothing(max) ==
  /\ count = 0 \/ max = 0
  /\ Called(<<>>, max, FALSE, <<>>)
  /\ UNCHANGED <<ring, size, count, readIdx, writeIdx>>

Init ==
  /\ ring = [k \in {} |-> Unset] /\ size = 0
  /\ count = 0 /\ readIdx = 0 /\ writeIdx = 0
  /\ call = [given |-> <<>>, asked |-> 0, ok |-> TRUE, got |-> <<>>]

Next ==
  \/ Reset
  \/ \E n \in Sizes : SetSize(n)
  \/ \E block \in Blocks :
       \/ Len(block) = 1 /\ PutByte(block[1])
       \/ PutBlock(block)
       \/ PutRefused(block)
  \/ GetByte
  \/ \E max \in 0 .. MaxGet : GetBlock(max) \/ GetNothing(max)

Spec == Init /\ [][Next]_vars

-----------------------------------------------------------------------------
(* Properties.                                                             *)

\* The type invariant, with the indices inside the ring: no operation reads or
\* writes outside of m_pRing, also at its last byte and with a ring of size 0.
TypeOK ==
  /\ size \in Nat
  /\ ring \in [0 .. size - 1 -> Bytes \cup {Unset}]
  /\ count \in 0 .. size
  /\ readIdx \in 0 .. size /\ (size > 0 => readIdx < size)
  /\ writeIdx \in 0 .. size /\ (size > 0 => writeIdx < size)
  /\ call \in [given : Seq(Bytes), asked : Nat, ok : BOOLEAN, got : Seq(Bytes)]

\* The two indices and the count of bytes, which every operation updates each on
\* its own, always tell the same: the write index is count bytes after the read
\* index, around the end of the ring.
IndicesAgree == writeIdx = Wrap(readIdx + count)

\* The bytes in the ring from the oldest to the newest.
Content == [i \in 1 .. count |-> ring[Wrap(readIdx + i - 1)]]

\* The ring buffer is a queue: what get() returns is what put() was given, in the
\* same order, wherever the blocks lie in the ring.
QueueRefined == INSTANCE ByteQueue WITH cap <- size, content <- Content
ImplementsQueue == QueueRefined!QueueSpec
=============================================================================
