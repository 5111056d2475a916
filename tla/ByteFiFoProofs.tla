--------------------------- MODULE ByteFiFoProofs ---------------------------
(***************************************************************************)
(* Proofs about ByteFiFo, for rings and blocks of every size.              *)
(***************************************************************************)
EXTENDS ByteFiFo, SequenceTheorems, TLAPS

\* The bytes that get() will return have been written.
ContentOK == Content \in Seq(Bytes)

IInv == TypeOK /\ IndicesAgree /\ ContentOK

LEMMA ContentElements ==
  ASSUME IInv
  PROVE  /\ Len(Content) = count /\ count \in Nat
         /\ \A i \in 1 .. count : /\ Content[i] = ring[Wrap(readIdx + i - 1)]
                                  /\ Content[i] \in Bytes
<1>1. count \in Nat
  BY DEF IInv, TypeOK
<1>2. Len(Content) = count
  BY <1>1 DEF Content
<1>3. ASSUME NEW i \in 1 .. count
      PROVE  Content[i] = ring[Wrap(readIdx + i - 1)]
  BY <1>1 DEF Content
<1>4. ASSUME NEW i \in 1 .. count PROVE Content[i] \in Bytes
  BY <1>2, ElementOfSeq DEF IInv, ContentOK
<1> QED
  BY <1>1, <1>2, <1>3, <1>4

\* A sequence given by its elements is the content of the next state.
LEMMA NextContent ==
  ASSUME NEW s \in Seq(Bytes), count' = Len(s),
         \A i \in 1 .. Len(s) : (ring[Wrap(readIdx + i - 1)])' = s[i]
  PROVE  Content' = s
<1>1. Len(s) \in Nat /\ s = [i \in 1 .. Len(s) |-> s[i]]
  BY LenProperties
<1>2. Content' = [i \in 1 .. Len(s) |-> (ring[Wrap(readIdx + i - 1)])']
  BY DEF Content
<1> QED
  BY <1>1, <1>2

\* The slots of the ring, counted from the read index, are in the ring and all
\* different, and those after the last byte start at the write index.
LEMMA Slots ==
  ASSUME IInv, NEW i \in 1 .. size, NEW j \in 1 .. size
  PROVE  /\ Wrap(readIdx + i - 1) \in 0 .. size - 1
         /\ i # j => Wrap(readIdx + i - 1) # Wrap(readIdx + j - 1)
         /\ i > count => Wrap(readIdx + i - 1) = Wrap(writeIdx + i - count - 1)
BY DEF IInv, TypeOK, IndicesAgree, Wrap

-----------------------------------------------------------------------------
(* What the operations do to the content.                                  *)

LEMMA PutByteContent ==
  ASSUME IInv, NEW b \in Bytes, PutByte(b)
  PROVE  Content' = Content \o <<b>> /\ TypeOK' /\ IndicesAgree'
<1> DEFINE s == Content \o <<b>>
<1>1. Content \in Seq(Bytes) /\ <<b>> \in Seq(Bytes)
  BY DEF IInv, ContentOK
<1>2. /\ s \in Seq(Bytes) /\ Len(s) = count + 1
      /\ \A i \in 1 .. count + 1 : s[i] = IF i <= count THEN Content[i] ELSE b
  BY <1>1, ContentElements, ConcatProperties
<1>3. TypeOK' /\ IndicesAgree'
  BY DEF IInv, TypeOK, IndicesAgree, PutByte, Called, Wrap
<1> HIDE DEF s
<1>4. ASSUME NEW i \in 1 .. Len(s)
      PROVE  (ring[Wrap(readIdx + i - 1)])' = s[i]
  <2>1. CASE i <= count
    <3> DEFINE k == Wrap(readIdx + i - 1)
    <3>1. i \in 1 .. size /\ count + 1 \in 1 .. size /\ i # count + 1
      BY <1>2, <2>1, ContentElements DEF PutByte, IInv, TypeOK
    <3>2. k \in 0 .. size - 1 /\ k # Wrap(readIdx + (count + 1) - 1)
      BY <3>1, Slots
    <3>3. k # writeIdx
      BY <3>2 DEF IInv, TypeOK, IndicesAgree, Wrap
    <3>4. ring'[k] = ring[k]
      BY <3>2, <3>3 DEF PutByte, IInv, TypeOK
    <3>5. (ring[Wrap(readIdx + i - 1)])' = ring'[k]
      BY DEF PutByte, Wrap
    <3> QED
      BY <1>2, <2>1, <3>4, <3>5, ContentElements
  <2>2. CASE i = count + 1
    BY <1>2, <2>2 DEF IInv, TypeOK, IndicesAgree, PutByte, Wrap
  <2> QED
    BY <1>2, <2>1, <2>2, ContentElements
<1>5. count' = Len(s)
  BY <1>2 DEF PutByte
<1> QED
  BY <1>2, <1>3, <1>4, <1>5, NextContent DEF s

\* What each slot of the ring holds after a block was stored.
LEMMA StoredAt ==
  ASSUME IInv, NEW block \in Seq(Bytes), Len(block) <= size - count,
         NEW k \in 0 .. size - 1
  PROVE  Stored(block)[k] =
           IF writeIdx <= k /\ k < writeIdx + Len(block)
             THEN block[k - writeIdx + 1]
             ELSE IF k < writeIdx + Len(block) - size
                    THEN block[k + size - writeIdx + 1] ELSE ring[k]
<1> DEFINE n == Len(block)
<1>1. n \in Nat /\ n <= size - count
  BY LenProperties
<1>2. size \in Nat /\ writeIdx \in 0 .. size - 1 /\ count \in Nat
      /\ DOMAIN ring = 0 .. size - 1
  BY DEF IInv, TypeOK
<1> HIDE DEF n
<1>3. CASE n > size - writeIdx
  <2> DEFINE first == Copied(ring, writeIdx, block, 1, size - writeIdx)
  <2>1. Stored(block) = Copied(first, 0, block, size - writeIdx + 1,
                               n - (size - writeIdx))
    BY <1>3 DEF Stored, n
  <2>2. /\ DOMAIN first = 0 .. size - 1
        /\ first[k] = IF writeIdx <= k THEN block[k - writeIdx + 1] ELSE ring[k]
    BY <1>2 DEF Copied
  <2> HIDE DEF first
  <2>3. Stored(block)[k] = IF k < n - (size - writeIdx)
                             THEN block[k + size - writeIdx + 1] ELSE first[k]
    BY <1>1, <1>2, <2>1, <2>2 DEF Copied
  <2> QED
    BY <1>1, <1>2, <1>3, <2>2, <2>3 DEF n
<1>4. CASE n <= size - writeIdx
  <2>1. Stored(block) = Copied(ring, writeIdx, block, 1, n)
    BY <1>1, <1>2, <1>4 DEF Stored, n
  <2> QED
    BY <1>1, <1>2, <1>4, <2>1 DEF Copied, n
<1> QED
  BY <1>1, <1>2, <1>3, <1>4

LEMMA PutBlockContent ==
  ASSUME IInv, NEW block \in Seq(Bytes), PutBlock(block)
  PROVE  Content' = Content \o block /\ TypeOK' /\ IndicesAgree'
<1> DEFINE n == Len(block)
           s == Content \o block
<1>1. n \in Nat /\ n <= size - count /\ \A i \in 1 .. n : block[i] \in Bytes
  BY LenProperties, ElementOfSeq DEF PutBlock
<1>2. Content \in Seq(Bytes) /\ Len(Content) = count /\ count \in Nat
  BY ContentElements DEF IInv, ContentOK
<1>3. /\ s \in Seq(Bytes) /\ Len(s) = count + n
      /\ \A i \in 1 .. count + n : s[i] = IF i <= count THEN Content[i]
                                                     ELSE block[i - count]
  BY <1>2, ConcatProperties
<1>4. /\ ring' = Stored(block) /\ size' = size /\ readIdx' = readIdx
      /\ count' = count + n /\ writeIdx' = Wrap(writeIdx + n)
      /\ call' = [given |-> block, asked |-> 0, ok |-> TRUE, got |-> <<>>]
  BY DEF PutBlock, Called
<1>5. /\ size \in Nat /\ readIdx \in 0 .. size /\ (size > 0 => readIdx < size)
      /\ writeIdx \in 0 .. size /\ (size > 0 => writeIdx < size)
      /\ count <= size /\ writeIdx = Wrap(readIdx + count)
  BY DEF IInv, TypeOK, IndicesAgree
<1> HIDE DEF n, s
<1>6. ASSUME NEW k \in 0 .. size - 1
      PROVE  Stored(block)[k] =
               IF writeIdx <= k /\ k < writeIdx + n THEN block[k - writeIdx + 1]
               ELSE IF k < writeIdx + n - size THEN block[k + size - writeIdx + 1]
                                               ELSE ring[k]
  BY <1>1, StoredAt DEF n
<1>7. ASSUME NEW i \in 1 .. count + n
      PROVE  (ring[Wrap(readIdx + i - 1)])' = s[i]
  <2> DEFINE k == Wrap(readIdx + i - 1)
  <2>1. i \in 1 .. size /\ k \in 0 .. size - 1
    BY <1>1, <1>2, <1>5, Slots
  <2>2. (ring[Wrap(readIdx + i - 1)])' = Stored(block)[k]
    BY <1>4 DEF Wrap
  <2>3. CASE i <= count
    <3>1. ~(writeIdx <= k /\ k < writeIdx + n) /\ ~(k < writeIdx + n - size)
      BY <1>1, <1>2, <1>5, <2>1, <2>3 DEF Wrap
    <3>2. Stored(block)[k] = ring[k]
      BY <1>6, <2>1, <3>1
    <3> QED
      BY <1>2, <1>3, <2>2, <2>3, <3>2, ContentElements
  <2>4. CASE i > count
    <3>1. \/ writeIdx <= k /\ k < writeIdx + n /\ k - writeIdx + 1 = i - count
          \/ /\ k < writeIdx /\ k < writeIdx + n - size
             /\ k + size - writeIdx + 1 = i - count
      BY <1>1, <1>2, <1>5, <2>1, <2>4 DEF Wrap
    <3>2. Stored(block)[k] = block[i - count]
      BY <1>5, <1>6, <2>1, <3>1
    <3> QED
      BY <1>2, <1>3, <2>2, <2>4, <3>2
  <2> QED
    BY <1>2, <2>3, <2>4
<1>8. TypeOK'
  <2>1. ring' \in [0 .. size - 1 -> Bytes \cup {Unset}]
    <3>1. DOMAIN Stored(block) = 0 .. size - 1
          /\ Stored(block) = [k \in 0 .. size - 1 |-> Stored(block)[k]]
      BY DEF Stored, Copied, IInv, TypeOK
    <3>2. ASSUME NEW k \in 0 .. size - 1
          PROVE  Stored(block)[k] \in Bytes \cup {Unset}
      <4>0. n \in Nat /\ size \in Nat /\ writeIdx \in 0 .. size
        BY <1>1, <1>5
      <4>1. /\ writeIdx <= k /\ k < writeIdx + n => k - writeIdx + 1 \in 1 .. n
            /\ k < writeIdx + n - size => k + size - writeIdx + 1 \in 1 .. n
        BY <4>0
      <4>2. ring[k] \in Bytes \cup {Unset}
        BY DEF IInv, TypeOK
      <4>3. CASE writeIdx <= k /\ k < writeIdx + n
        BY <1>1, <1>6, <4>1, <4>3
      <4>4. CASE ~(writeIdx <= k /\ k < writeIdx + n) /\ k < writeIdx + n - size
        BY <1>1, <1>6, <4>1, <4>4
      <4>5. CASE /\ ~(writeIdx <= k /\ k < writeIdx + n)
                 /\ ~(k < writeIdx + n - size)
        BY <1>6, <4>2, <4>5
      <4> QED
        BY <4>3, <4>4, <4>5
    <3> QED
      BY <1>4, <3>1, <3>2
  <2>2. count' \in 0 .. size' /\ size' \in Nat
    BY <1>1, <1>2, <1>4, <1>5
  <2>3. writeIdx' \in 0 .. size' /\ (size' > 0 => writeIdx' < size')
    BY <1>1, <1>2, <1>4, <1>5 DEF Wrap
  <2> QED
    BY <1>4, <1>5, <2>1, <2>2, <2>3 DEF TypeOK
<1>9. IndicesAgree'
  BY <1>1, <1>2, <1>4, <1>5 DEF IndicesAgree, Wrap
<1> QED
  BY <1>3, <1>4, <1>7, <1>8, <1>9, NextContent DEF s

LEMMA GetByteContent ==
  ASSUME IInv, GetByte
  PROVE  /\ Content' = SubSeq(Content, 2, Len(Content))
         /\ call' = [given |-> <<>>, asked |-> 1, ok |-> TRUE,
                     got |-> SubSeq(Content, 1, 1)]
         /\ TypeOK' /\ IndicesAgree'
<1> DEFINE s == SubSeq(Content, 2, Len(Content))
<1>1. count \in Nat \ {0} /\ \A i \in 1 .. count : Content[i] \in Bytes
  BY ContentElements DEF GetByte
<1>2. /\ s \in Seq(Bytes) /\ Len(s) = count - 1
      /\ \A i \in 1 .. count - 1 : s[i] = Content[i + 1]
  BY <1>1, ContentElements, SubSeqProperties
<1>3. SubSeq(Content, 1, 1) = <<Content[1]>>
  <2> DEFINE t == SubSeq(Content, 1, 1)
  <2>1. t \in Seq(Bytes) /\ Len(t) = 1 /\ t[1] = Content[1]
    <3>1. Content \in Seq(Bytes) /\ 1 \in 1 .. Len(Content) + 1
      BY <1>1, ContentElements DEF IInv, ContentOK
    <3> QED
      BY <1>1, <3>1, ContentElements, SubSeqProperties
  <2> HIDE DEF t
  <2>2. <<Content[1]>> \in Seq(Bytes)
    BY <1>1
  <2>3. t = <<Content[1]>>
    BY <2>1, <2>2, SeqEqual
  <2> QED
    BY <2>3 DEF t
<1>4. Content[1] = ring[readIdx]
  <2>1. Content[1] = ring[Wrap(readIdx + 1 - 1)]
    BY <1>1, ContentElements
  <2>2. Wrap(readIdx + 1 - 1) = readIdx
    BY <1>1 DEF IInv, TypeOK, Wrap
  <2> QED
    BY <2>1, <2>2
<1>5. TypeOK' /\ IndicesAgree'
  <2>1. call' \in [given : Seq(Bytes), asked : Nat, ok : BOOLEAN, got : Seq(Bytes)]
    BY <1>1, <1>4 DEF GetByte, Called
  <2>2. TypeOK'
    BY <1>1, <2>1 DEF IInv, TypeOK, GetByte, Wrap
  <2>3. IndicesAgree'
    BY <1>1 DEF IInv, TypeOK, IndicesAgree, GetByte, Wrap
  <2> QED
    BY <2>2, <2>3
<1> HIDE DEF s
<1>6. ASSUME NEW i \in 1 .. Len(s)
      PROVE  (ring[Wrap(readIdx + i - 1)])' = s[i]
  <2>1. s[i] = ring[Wrap(readIdx + (i + 1) - 1)]
    BY <1>1, <1>2, ContentElements
  <2> QED
    BY <1>1, <1>2, <2>1 DEF GetByte, Wrap, IInv, TypeOK
<1>7. count' = Len(s)
  BY <1>2 DEF GetByte
<1> QED
  BY <1>2, <1>3, <1>4, <1>5, <1>6, <1>7, NextContent DEF s, GetByte, Called

LEMMA GetBlockContent ==
  ASSUME IInv, NEW max \in Nat, GetBlock(max)
  PROVE  LET n == IF Len(Content) < max THEN Len(Content) ELSE max
         IN  /\ n \in Nat \ {0} /\ n <= Len(Content)
             /\ Content' = SubSeq(Content, n + 1, Len(Content))
             /\ call' = [given |-> <<>>, asked |-> max, ok |-> TRUE,
                         got |-> SubSeq(Content, 1, n)]
             /\ TypeOK' /\ IndicesAgree'
<1> DEFINE n == IF count < max THEN count ELSE max
           s == SubSeq(Content, n + 1, Len(Content))
           t == SubSeq(Content, 1, n)
<1>1. /\ count \in Nat /\ n \in 1 .. max /\ n <= count
      /\ \A i \in 1 .. count : Content[i] \in Bytes
  BY ContentElements DEF GetBlock
<1> HIDE DEF n
<1>2. /\ s \in Seq(Bytes) /\ Len(s) = count - n
      /\ \A i \in 1 .. count - n : s[i] = Content[n + i]
  BY <1>1, ContentElements, SubSeqProperties
<1>3. t \in Seq(Bytes) /\ Len(t) = n /\ \A i \in 1 .. n : t[i] = Content[i]
  BY <1>1, ContentElements, SubSeqProperties
<1> HIDE DEF s, t
<1>4. Fetched(n) = t
  <2>1. ASSUME NEW i \in 1 .. n PROVE Fetched(n)[i] = t[i]
    <3>1. t[i] = ring[Wrap(readIdx + i - 1)]
      BY <1>1, <1>3, ContentElements
    <3> QED
      BY <1>1, <3>1 DEF Fetched, Wrap, IInv, TypeOK
  <2>2. t = [i \in 1 .. n |-> t[i]] /\ Fetched(n) = [i \in 1 .. n |-> Fetched(n)[i]]
    BY <1>1, <1>3, LenProperties DEF Fetched
  <2> QED
    BY <2>1, <2>2
<1>5. call' = [given |-> <<>>, asked |-> max, ok |-> TRUE, got |-> t]
  BY <1>4 DEF GetBlock, Called, n
<1>6. /\ ring' = ring /\ size' = size /\ writeIdx' = writeIdx
      /\ readIdx' = Wrap(readIdx + n) /\ count' = count - n
  BY DEF GetBlock, n
<1>7. /\ size \in Nat /\ readIdx \in 0 .. size /\ (size > 0 => readIdx < size)
      /\ count <= size /\ writeIdx = Wrap(readIdx + count)
  BY DEF IInv, TypeOK, IndicesAgree
<1>8. TypeOK' /\ IndicesAgree'
  <2>1. readIdx' \in 0 .. size' /\ (size' > 0 => readIdx' < size')
        /\ count' \in 0 .. size'
    BY <1>1, <1>6, <1>7 DEF Wrap
  <2>2. call' \in [given : Seq(Bytes), asked : Nat, ok : BOOLEAN, got : Seq(Bytes)]
    BY <1>3, <1>5
  <2>3. TypeOK'
    BY <1>6, <2>1, <2>2 DEF IInv, TypeOK
  <2>4. IndicesAgree'
    BY <1>1, <1>6, <1>7 DEF IndicesAgree, Wrap
  <2> QED
    BY <2>3, <2>4
<1>9. ASSUME NEW i \in 1 .. Len(s)
      PROVE  (ring[Wrap(readIdx + i - 1)])' = s[i]
  <2>1. i \in 1 .. count - n /\ n + i \in 1 .. count
    BY <1>1, <1>2
  <2>2. s[i] = ring[Wrap(readIdx + (n + i) - 1)]
    BY <1>2, <2>1, ContentElements
  <2>3. Wrap(readIdx + i - 1)' = Wrap(readIdx + (n + i) - 1)
    BY <1>1, <1>6, <1>7, <2>1 DEF Wrap
  <2> QED
    BY <1>6, <2>2, <2>3
<1>10. count' = Len(s)
  BY <1>2, <1>6
<1>11. Content' = s
  BY <1>2, <1>9, <1>10, NextContent
<1>12. n = IF Len(Content) < max THEN Len(Content) ELSE max
  BY ContentElements DEF n
<1> QED
  BY <1>1, <1>5, <1>8, <1>11, <1>12, ContentElements DEF s, t

-----------------------------------------------------------------------------
(* The invariant and the refinement.                                       *)

LEMMA InitIInv ==
  Init => IInv /\ QueueRefined!QueueInit
<1> SUFFICES ASSUME Init PROVE IInv /\ QueueRefined!QueueInit
  OBVIOUS
<1>1. Content = <<>>
  BY DEF Init, Content
<1>2. TypeOK /\ IndicesAgree
  BY DEF Init, TypeOK, IndicesAgree, Wrap
<1> QED
  BY <1>1, <1>2 DEF Init, IInv, ContentOK, QueueRefined!QueueInit

\* Every step keeps the invariant and is a step of the queue.
LEMMA StepIInv ==
  IInv /\ [Next]_vars =>
    IInv' /\ [QueueRefined!QueueNext]_(QueueRefined!queueVars)
<1> SUFFICES ASSUME IInv, [Next]_vars
             PROVE  IInv' /\ [QueueRefined!QueueNext]_(QueueRefined!queueVars)
  OBVIOUS
<1> USE DEF QueueRefined!QueueNext, QueueRefined!queueVars
<1>0. Content \in Seq(Bytes) /\ Len(Content) = count /\ count \in Nat
  BY ContentElements DEF IInv, ContentOK
<1>1. CASE Reset
  <2>1. TypeOK' /\ IndicesAgree'
    BY <1>1 DEF Reset, Called, IInv, TypeOK, IndicesAgree, Wrap
  <2>2. Content' = <<>>
    BY <1>1 DEF Reset, Content
  <2>3. QueueRefined!Clear
    BY <1>1, <2>2 DEF Reset, Called, QueueRefined!Clear, QueueRefined!Called
  <2> QED
    BY <2>1, <2>2, <2>3 DEF IInv, ContentOK
<1>2. ASSUME NEW n \in Sizes, SetSize(n)
      PROVE  IInv' /\ QueueRefined!QueueNext
  <2>1. n \in Nat
    BY SizesAssumption
  <2>2. TypeOK' /\ IndicesAgree'
    BY <1>2, <2>1 DEF SetSize, Called, TypeOK, IndicesAgree, Wrap
  <2>3. Content' = <<>>
    BY <1>2 DEF SetSize, Content
  <2>4. QueueRefined!Resize(n)
    BY <1>2, <2>3 DEF SetSize, Called, QueueRefined!Resize, QueueRefined!Called
  <2> QED
    BY <2>2, <2>3, <2>4 DEF IInv, ContentOK
<1>3. ASSUME NEW block \in Blocks, Len(block) = 1, PutByte(block[1])
      PROVE  IInv' /\ QueueRefined!QueueNext
  <2>1. block \in Seq(Bytes) /\ block[1] \in Bytes
    BY <1>3, BlocksAssumption, ElementOfSeq
  <2>2. Content' = Content \o <<block[1]>> /\ TypeOK' /\ IndicesAgree'
    BY <1>3, <2>1, PutByteContent
  <2>3. block = <<block[1]>>
    BY <1>3, <2>1, SeqEqual
  <2>4. Content' \in Seq(Bytes)
    BY <1>0, <2>1, <2>2, ConcatProperties
  <2>5. /\ size' = size /\ 1 <= size - count
        /\ call' = [given |-> block, asked |-> 0, ok |-> TRUE, got |-> <<>>]
    <3>1. size' = size /\ 1 <= size - count
      BY <1>0, <1>3 DEF PutByte, IInv, TypeOK
    <3>2. call' = [given |-> <<block[1]>>, asked |-> 0, ok |-> TRUE, got |-> <<>>]
      BY <1>3 DEF PutByte, Called
    <3> QED
      BY <2>3, <3>1, <3>2
  <2>6. Content' = Content \o block
    BY <2>2, <2>3
  <2>7. QueueRefined!Put(block)
    BY <1>0, <1>3, <2>5, <2>6 DEF QueueRefined!Put, QueueRefined!Called
  <2> QED
    BY <2>2, <2>4, <2>7 DEF IInv, ContentOK
<1>4. ASSUME NEW block \in Blocks, PutBlock(block)
      PROVE  IInv' /\ QueueRefined!QueueNext
  <2>1. block \in Seq(Bytes)
    BY BlocksAssumption
  <2>2. Content' = Content \o block /\ TypeOK' /\ IndicesAgree'
    BY <1>4, <2>1, PutBlockContent
  <2>3. Content' \in Seq(Bytes)
    BY <1>0, <2>1, <2>2, ConcatProperties
  <2>4. QueueRefined!Put(block)
    BY <1>0, <1>4, <2>2
       DEF PutBlock, Called, QueueRefined!Put, QueueRefined!Called
  <2> QED
    BY <2>2, <2>3, <2>4 DEF IInv, ContentOK
<1>5. ASSUME NEW block \in Blocks, PutRefused(block)
      PROVE  IInv' /\ QueueRefined!QueueNext
  <2>1. Content' = Content
    BY <1>5 DEF PutRefused, Content, Wrap
  <2>2. TypeOK' /\ IndicesAgree'
    BY <1>5, BlocksAssumption
       DEF PutRefused, Called, IInv, TypeOK, IndicesAgree, Wrap
  <2>3. QueueRefined!Refuse(block)
    BY <1>0, <1>5, <2>1
       DEF PutRefused, Called, QueueRefined!Refuse, QueueRefined!Called
  <2> QED
    BY <1>0, <2>1, <2>2, <2>3 DEF IInv, ContentOK
<1>6. CASE GetByte
  <2>1. /\ Content' = SubSeq(Content, 2, Len(Content))
        /\ call' = [given |-> <<>>, asked |-> 1, ok |-> TRUE,
                     got |-> SubSeq(Content, 1, 1)]
        /\ TypeOK' /\ IndicesAgree'
    BY <1>6, GetByteContent
  <2>2. size' = size /\ count > 0
    BY <1>6 DEF GetByte
  <2>3. Content' \in Seq(Bytes)
    BY <1>0, <2>1, <2>2, SubSeqProperties
  <2>4. QueueRefined!Get(1)
    <3>1. /\ 1 + 1 = 2 /\ (1 > 0) = TRUE
          /\ (IF Len(Content) < 1 THEN Len(Content) ELSE 1) = 1
      BY <1>0, <2>2
    <3> QED
      BY <2>1, <2>2, <3>1 DEF QueueRefined!Get, QueueRefined!Called
  <2> QED
    BY <2>1, <2>3, <2>4, MaxGetAssumption DEF IInv, ContentOK
<1>7. ASSUME NEW max \in 0 .. MaxGet, GetBlock(max)
      PROVE  IInv' /\ QueueRefined!QueueNext
  <2>1. max \in Nat
    BY MaxGetAssumption
  <2> DEFINE n == IF Len(Content) < max THEN Len(Content) ELSE max
  <2>2. /\ n \in Nat \ {0} /\ n <= Len(Content)
        /\ Content' = SubSeq(Content, n + 1, Len(Content))
        /\ call' = [given |-> <<>>, asked |-> max, ok |-> TRUE,
                    got |-> SubSeq(Content, 1, n)]
        /\ TypeOK' /\ IndicesAgree'
    BY <1>7, <2>1, GetBlockContent
  <2>3. size' = size /\ (n > 0) = TRUE
    BY <1>7, <2>2 DEF GetBlock
  <2>4. Content' \in Seq(Bytes)
    BY <1>0, <2>2, SubSeqProperties
  <2>5. QueueRefined!Get(max)
    BY <2>2, <2>3 DEF QueueRefined!Get, QueueRefined!Called
  <2> QED
    BY <2>2, <2>4, <2>5 DEF IInv, ContentOK
<1>8. ASSUME NEW max \in 0 .. MaxGet, GetNothing(max)
      PROVE  IInv' /\ QueueRefined!QueueNext
  <2>1. Content' = Content
    BY <1>8 DEF GetNothing, Content, Wrap
  <2>2. TypeOK' /\ IndicesAgree'
    BY <1>8 DEF GetNothing, Called, IInv, TypeOK, IndicesAgree, Wrap
  <2>3. SubSeq(Content, 1, 0) = <<>> /\ SubSeq(Content, 1, Len(Content)) = Content
    BY <1>0, SubSeqProperties
  <2>4. /\ size' = size
        /\ call' = [given |-> <<>>, asked |-> max, ok |-> FALSE, got |-> <<>>]
    BY <1>8 DEF GetNothing, Called
  <2>5. QueueRefined!Get(max)
    <3>1. (IF Len(Content) < max THEN Len(Content) ELSE max) = 0
      BY <1>0, <1>8 DEF GetNothing
    <3>2. 0 + 1 = 1 /\ (0 > 0) = FALSE
      OBVIOUS
    <3> QED
      BY <2>1, <2>3, <2>4, <3>1, <3>2 DEF QueueRefined!Get, QueueRefined!Called
  <2> QED
    BY <1>0, <2>1, <2>2, <2>5 DEF IInv, ContentOK
<1>9. CASE UNCHANGED vars
  <2>1. Content' = Content
    BY <1>9 DEF vars, Content, Wrap
  <2>2. TypeOK' /\ IndicesAgree'
    BY <1>9 DEF vars, IInv, TypeOK, IndicesAgree, Wrap
  <2> QED
    BY <1>0, <1>9, <2>1, <2>2 DEF vars, IInv, ContentOK
<1> QED
  BY <1>1, <1>2, <1>3, <1>4, <1>5, <1>6, <1>7, <1>8, <1>9 DEF Next

-----------------------------------------------------------------------------

\* bytefifo.cpp: no operation reads or writes outside of m_pRing, and the count
\* and the two indices always tell the same, for rings and blocks of any size.
THEOREM RingCorrect == Spec => [](TypeOK /\ IndicesAgree)
<1>1. Init => IInv
  BY InitIInv
<1>2. IInv /\ [Next]_vars => IInv'
  BY StepIInv
<1>3. IInv => TypeOK /\ IndicesAgree
  BY DEF IInv
<1> QED
  BY <1>1, <1>2, <1>3, PTL DEF Spec

\* bytefifo.cpp: what get() returns is what put() was given, in the same order
\* and without a gap, wherever the bytes lie in the ring.
THEOREM ImplementsQueueCorrect == Spec => ImplementsQueue
<1>1. Init => IInv /\ QueueRefined!QueueInit
  BY InitIInv
<1>2. IInv /\ [Next]_vars =>
        IInv' /\ [QueueRefined!QueueNext]_(QueueRefined!queueVars)
  BY StepIInv
<1> QED
  BY <1>1, <1>2, PTL DEF Spec, ImplementsQueue, QueueRefined!QueueSpec
=============================================================================
