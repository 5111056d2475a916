----------------------------- MODULE ByteQueue -----------------------------
(***************************************************************************)
(* What ByteFiFo promises to its callers: a first-in first-out queue of at *)
(* most cap bytes.  A block of bytes enters whole or not at all, and as    *)
(* many bytes come out as are asked for and available.                     *)
(***************************************************************************)
EXTENDS Integers, Sequences

CONSTANTS
  Bytes,  \* the values of a byte
  Sizes,  \* the capacities setSize() is called with
  Blocks, \* the blocks of bytes put() is called with
  MaxGet  \* the largest number of bytes get() is asked for

VARIABLES
  cap,     \* the capacity
  content, \* the bytes in the queue, oldest first
  call     \* the last call: the bytes it was given, the number it asked for,
           \* its success and the bytes it got

queueVars == <<cap, content, call>>

Called(given, asked, ok, got) ==
  call' = [given |-> given, asked |-> asked, ok |-> ok, got |-> got]

QueueInit ==
  /\ cap = 0 /\ content = <<>>
  /\ call = [given |-> <<>>, asked |-> 0, ok |-> TRUE, got |-> <<>>]

Clear == content' = <<>> /\ Called(<<>>, 0, TRUE, <<>>) /\ UNCHANGED cap

Resize(n) == cap' = n /\ content' = <<>> /\ Called(<<>>, 0, TRUE, <<>>)

Put(block) ==
  /\ Len(block) <= cap - Len(content)
  /\ content' = content \o block
  /\ Called(block, 0, TRUE, <<>>)
  /\ UNCHANGED cap

Refuse(block) ==
  /\ Len(block) > cap - Len(content)
  /\ Called(block, 0, FALSE, <<>>)
  /\ UNCHANGED <<cap, content>>

\* Nothing is taken out exactly when the call reports failure.
Get(max) ==
  LET n == IF Len(content) < max THEN Len(content) ELSE max
  IN  /\ content' = SubSeq(content, n + 1, Len(content))
      /\ Called(<<>>, max, n > 0, SubSeq(content, 1, n))
      /\ UNCHANGED cap

QueueNext ==
  \/ Clear
  \/ \E n \in Sizes : Resize(n)
  \/ \E block \in Blocks : Put(block) \/ Refuse(block)
  \/ \E max \in 0 .. MaxGet : Get(max)

QueueSpec == QueueInit /\ [][QueueNext]_queueVars
=============================================================================
