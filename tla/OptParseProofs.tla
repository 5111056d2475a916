---------------------------- MODULE OptParseProofs ----------------------------
(***************************************************************************)
(* What the getters of Opt answer, and in which order words are read, for  *)
(* any options, files and command lines.                                   *)
(*                                                                         *)
(* The operators on sequences that the properties are stated with are      *)
(* recursive functions; the lemmas about them go by induction over sets of *)
(* numbers and of sequences.                                               *)
(***************************************************************************)
EXTENDS OptParse, SequenceTheorems, FiniteSetTheorems, WellFoundedInduction, TLAPS

-----------------------------------------------------------------------------
(* Induction.                                                              *)

LEMMA LeastMember ==
  ASSUME NEW S \in SUBSET Nat, S # {}
  PROVE  \E m \in S : \A k \in S : m <= k
<1> DEFINE R == OpToRel(<, Nat)
<1>1. IsWellFoundedOn(R, Nat)
  BY NatLessThanWellFounded, Zenon
<1>2. \A k, m \in Nat : k < m => <<k, m>> \in R
  BY DEF OpToRel
<1> HIDE DEF R
<1>3. PICK m \in S : \A k \in S : ~(<<k, m>> \in R)
  BY <1>1, WFMin, Zenon
<1>4. ASSUME NEW k \in S PROVE m <= k
  <2>1. k < m => <<k, m>> \in R
    BY <1>2
  <2> QED
    BY <1>3, <2>1
<1> QED
  BY <1>4

LEMMA NumberInduction ==
  ASSUME NEW S, 0 \in S, \A n \in Nat : n \in S => n + 1 \in S
  PROVE  Nat \subseteq S
<1> SUFFICES ASSUME Nat \ S # {} PROVE FALSE
  OBVIOUS
<1>1. PICK m \in Nat \ S : \A k \in Nat \ S : m <= k
  BY LeastMember
<1>2. m # 0 /\ m - 1 \in Nat
  BY <1>1
<1> QED
  BY <1>1, <1>2

\* Sequences are built by appending.
LEMMA SequenceInduction ==
  ASSUME NEW T, NEW S, <<>> \in S,
         \A s \in Seq(T), e \in T : s \in S => Append(s, e) \in S
  PROVE  Seq(T) \subseteq S
<1> DEFINE N == {n \in Nat : \A s \in Seq(T) : Len(s) = n => s \in S}
<1>1. 0 \in N
  BY EmptySeq
<1>2. ASSUME NEW n \in Nat, n \in N PROVE n + 1 \in N
  <2> SUFFICES ASSUME NEW s \in Seq(T), Len(s) = n + 1 PROVE s \in S
    OBVIOUS
  <2>1. s # <<>>
    BY EmptySeq
  <2>2. PICK t \in Seq(T), e \in T : s = Append(t, e)
    BY <2>1, SequenceEmptyOrAppend
  <2>3. Len(t) = n
    <3>1. Len(t) \in Nat /\ Len(s) = Len(t) + 1
      BY <2>2, AppendProperties, LenProperties
    <3> QED
      BY <3>1
  <2> QED
    BY <1>2, <2>2, <2>3
<1> HIDE DEF N
<1>3. Nat \subseteq N
  BY <1>1, <1>2, NumberInduction
<1> QED
  BY <1>3, LenProperties DEF N

-----------------------------------------------------------------------------
(* FlattenSeq().                                                           *)

Flattens(f, s, n) ==
  f = [i \in 1 .. n |-> IF i = 1 THEN s[i] ELSE f[i - 1] \o s[i]]

LEMMA FlattenExists ==
  ASSUME NEW s, NEW n \in Nat
  PROVE  \E f : Flattens(f, s, n)
<1> DEFINE D == {k \in Nat : \E f : Flattens(f, s, k)}
<1>1. 0 \in D
  <2> DEFINE f == [i \in 1 .. 0 |-> s[i]]
  <2>1. Flattens(f, s, 0)
    BY DEF Flattens
  <2> HIDE DEF f
  <2> QED
    BY <2>1
<1>2. ASSUME NEW k \in Nat, k \in D PROVE k + 1 \in D
  <2>1. PICK f : Flattens(f, s, k)
    BY <1>2, Zenon
  <2> DEFINE g == [i \in 1 .. k + 1 |-> IF i = 1 THEN s[i] ELSE f[i - 1] \o s[i]]
  <2>2. ASSUME NEW i \in 1 .. k PROVE g[i] = f[i]
    <3>1. f[i] = IF i = 1 THEN s[i] ELSE f[i - 1] \o s[i]
      BY <2>1, Zenon DEF Flattens
    <3> QED
      BY <3>1
  <2>3. \A i \in 1 .. k + 1 : i # 1 => i - 1 \in 1 .. k
    OBVIOUS
  <2>4. g = [i \in 1 .. k + 1 |-> IF i = 1 THEN s[i] ELSE g[i - 1] \o s[i]]
    <3>1. \A i \in 1 .. k + 1 : i # 1 => g[i - 1] = f[i - 1]
      BY <2>2, <2>3
    <3> QED
      BY <3>1
  <2> HIDE DEF g
  <2>5. Flattens(g, s, k + 1)
    BY <2>4 DEF Flattens
  <2> QED
    BY <2>5
<1> HIDE DEF D
<1>3. Nat \subseteq D
  BY <1>1, <1>2, NumberInduction
<1> QED
  BY <1>3 DEF D

Agree(s, t, n) == \A i \in 1 .. n : s[i] = t[i]

LEMMA FlattenAgrees ==
  ASSUME NEW n \in Nat, NEW m \in Nat, n <= m,
         NEW s, NEW t, Agree(s, t, n),
         NEW f, Flattens(f, s, n), NEW g, Flattens(g, t, m)
  PROVE  Agree(f, g, n)
<1> DEFINE D == {k \in Nat : k \in 1 .. n => f[k] = g[k]}
<1>1. \A i \in 1 .. n : f[i] = IF i = 1 THEN s[i] ELSE f[i - 1] \o s[i]
  BY Zenon DEF Flattens
<1>2. \A i \in 1 .. m : g[i] = IF i = 1 THEN t[i] ELSE g[i - 1] \o t[i]
  BY Zenon DEF Flattens
<1>3. 0 \in D
  OBVIOUS
<1>4. ASSUME NEW k \in Nat, k \in D PROVE k + 1 \in D
  <2> SUFFICES ASSUME k + 1 \in 1 .. n PROVE f[k + 1] = g[k + 1]
    OBVIOUS
  <2>1. k + 1 \in 1 .. m /\ s[k + 1] = t[k + 1] /\ (k + 1) - 1 = k
    BY DEF Agree
  <2>2. CASE k = 0
    BY <1>1, <1>2, <2>1, <2>2
  <2>3. CASE k # 0
    <3>1. f[k] = g[k]
      BY <1>4, <2>3
    <3>2. k + 1 # 1
      BY <2>3
    <3> QED
      BY <1>1, <1>2, <2>1, <3>1, <3>2
  <2> QED
    BY <2>2, <2>3
<1> HIDE DEF D
<1>5. Nat \subseteq D
  BY <1>3, <1>4, NumberInduction
<1> QED
  BY <1>5 DEF D, Agree

LEMMA FlattenLast ==
  ASSUME NEW S, NEW s \in Seq(S), s # <<>>
  PROVE  \E f : Flattens(f, s, Len(s)) /\ FlattenSeq(s) = f[Len(s)]
<1>1. Len(s) \in Nat \ {0}
  BY EmptySeq
<1>2. FlattenSeq(s) = (CHOOSE f : Flattens(f, s, Len(s)))[Len(s)]
  BY <1>1 DEF FlattenSeq, Flattens
<1>3. Flattens(CHOOSE f : Flattens(f, s, Len(s)), s, Len(s))
  BY <1>1, FlattenExists, Zenon
<1> QED
  BY <1>2, <1>3, Zenon

LEMMA FlattenEmpty == FlattenSeq(<<>>) = <<>>
BY DEF FlattenSeq

\* What is appended to the sequence comes behind all the rest.
LEMMA FlattenAppend ==
  ASSUME NEW S, NEW s \in Seq(Seq(S)), NEW x \in Seq(S)
  PROVE  FlattenSeq(Append(s, x)) = FlattenSeq(s) \o x
<1> DEFINE n == Len(s)
           t == Append(s, x)
<1>1. /\ t \in Seq(Seq(S)) /\ t # <<>> /\ Len(t) = n + 1 /\ n \in Nat
      /\ t[n + 1] = x /\ \A i \in 1 .. n : t[i] = s[i]
  BY AppendProperties, LenProperties
<1> HIDE DEF t
<1>2. PICK g : Flattens(g, t, n + 1) /\ FlattenSeq(t) = g[n + 1]
  BY <1>1, FlattenLast
<1>3. g[n + 1] = IF n + 1 = 1 THEN t[n + 1] ELSE g[n] \o t[n + 1]
  <2>1. \A i \in 1 .. n + 1 : g[i] = IF i = 1 THEN t[i] ELSE g[i - 1] \o t[i]
    BY <1>2, Zenon DEF Flattens
  <2>2. n + 1 \in 1 .. n + 1 /\ (n + 1) - 1 = n
    BY <1>1
  <2> QED
    BY <2>1, <2>2
<1>4. CASE s = <<>>
  <2>1. n = 0 /\ FlattenSeq(s) = <<>>
    BY <1>4, FlattenEmpty
  <2>2. <<>> \o x = x
    BY ConcatEmptySeq
  <2> QED
    BY <1>1, <1>2, <1>3, <2>1, <2>2 DEF t
<1>5. CASE s # <<>>
  <2>1. n \in Nat \ {0}
    BY <1>5, EmptySeq
  <2>2. PICK f : Flattens(f, s, n) /\ FlattenSeq(s) = f[n]
    BY <1>5, FlattenLast
  <2>3. n + 1 \in Nat /\ n <= n + 1 /\ \A i \in 1 .. n : s[i] = t[i]
    BY <1>1
  <2> HIDE DEF n
  <2>4. Agree(f, g, n)
    <3>1. Flattens(f, s, n) /\ Flattens(g, t, n + 1) /\ n \in Nat /\ Agree(s, t, n)
      BY <1>1, <1>2, <2>2 DEF Agree
    <3> QED
      BY <2>3, <3>1, FlattenAgrees
  <2>5. f[n] = g[n] /\ n + 1 # 1
    BY <2>1, <2>4 DEF Agree
  <2> QED
    BY <1>1, <1>2, <1>3, <2>2, <2>5 DEF t
<1> QED
  BY <1>4, <1>5

LEMMA FlattenType ==
  ASSUME NEW S, NEW s \in Seq(Seq(S))
  PROVE  FlattenSeq(s) \in Seq(S)
<1> DEFINE Q == {t \in Seq(Seq(S)) : FlattenSeq(t) \in Seq(S)}
<1>1. <<>> \in Q
  BY FlattenEmpty, EmptySeq
<1>2. ASSUME NEW t \in Seq(Seq(S)), NEW x \in Seq(S), t \in Q PROVE Append(t, x) \in Q
  BY <1>2, FlattenAppend, ConcatProperties, AppendProperties
<1> HIDE DEF Q
<1>3. Seq(Seq(S)) \subseteq Q
  BY <1>1, <1>2, SequenceInduction
<1> QED
  BY <1>3 DEF Q

-----------------------------------------------------------------------------
(* The places of options.                                                  *)

Marks(f, s, n) == f = [i \in 1 .. n |-> i = 1 \/ ~(f[i - 1] /\ TakesParam(s[i - 1]))]

LEMMA MarksExist ==
  ASSUME NEW s, NEW n \in Nat
  PROVE  \E f : Marks(f, s, n)
<1> DEFINE D == {k \in Nat : \E f : Marks(f, s, k)}
<1>1. 0 \in D
  <2> DEFINE f == [i \in 1 .. 0 |-> TRUE]
  <2>1. Marks(f, s, 0)
    BY DEF Marks
  <2> HIDE DEF f
  <2> QED
    BY <2>1
<1>2. ASSUME NEW k \in Nat, k \in D PROVE k + 1 \in D
  <2>1. PICK f : Marks(f, s, k)
    BY <1>2, Zenon
  <2> DEFINE g == [i \in 1 .. k + 1 |-> i = 1 \/ ~(f[i - 1] /\ TakesParam(s[i - 1]))]
  <2>2. ASSUME NEW i \in 1 .. k PROVE g[i] = f[i]
    BY <2>1 DEF Marks
  <2>3. \A i \in 1 .. k + 1 : i # 1 => i - 1 \in 1 .. k
    OBVIOUS
  <2>4. g = [i \in 1 .. k + 1 |-> i = 1 \/ ~(g[i - 1] /\ TakesParam(s[i - 1]))]
    <3>1. \A i \in 1 .. k + 1 : i # 1 => g[i - 1] = f[i - 1]
      BY <2>2, <2>3
    <3> QED
      BY <3>1
  <2> HIDE DEF g
  <2>5. Marks(g, s, k + 1)
    BY <2>4 DEF Marks
  <2> QED
    BY <2>5
<1> HIDE DEF D
<1>3. Nat \subseteq D
  BY <1>1, <1>2, NumberInduction
<1> QED
  BY <1>3 DEF D

\* The grammar, from one word to the next.
LEMMA GrammarStep ==
  ASSUME NEW S, NEW s \in Seq(S)
  PROVE  /\ OptionPlacesOf(s) \subseteq 1 .. Len(s)
         /\ \A i \in 1 .. Len(s) :
              i \in OptionPlacesOf(s)
                <=> i = 1 \/ ~(i - 1 \in OptionPlacesOf(s) /\ TakesParam(s[i - 1]))
<1> DEFINE n == Len(s)
<1>1. n \in Nat
  BY LenProperties
<1>2. PICK f : Marks(f, s, n) /\ OptionPlacesOf(s) = {i \in 1 .. n : f[i]}
  <2>1. OptionPlacesOf(s) = {i \in 1 .. n : (CHOOSE f : Marks(f, s, n))[i]}
    BY DEF OptionPlacesOf, Marks
  <2> HIDE DEF n
  <2>2. Marks(CHOOSE f : Marks(f, s, n), s, n)
    BY <1>1, MarksExist, Zenon
  <2> QED
    BY <2>1, <2>2, Zenon
<1>3. \A i \in 1 .. n : f[i] <=> i = 1 \/ ~(f[i - 1] /\ TakesParam(s[i - 1]))
  BY <1>2, Zenon DEF Marks
<1>4. \A i \in 1 .. n : i # 1 => i - 1 \in 1 .. n
  BY <1>1
<1> QED
  BY <1>2, <1>3, <1>4

LEMMA NoPlaces == OptionPlacesOf(<<>>) = {}
BY DEF OptionPlacesOf

\* The word that comes next is no parameter.
OptionNext(s) ==
  s # <<>> => ~(Len(s) \in OptionPlacesOf(s) /\ TakesParam(s[Len(s)]))

\* A word more changes nothing before it.
LEMMA GrammarAppend ==
  ASSUME NEW S, NEW s \in Seq(S), NEW w \in S
  PROVE  OptionPlacesOf(Append(s, w)) =
           OptionPlacesOf(s) \cup (IF OptionNext(s) THEN {Len(s) + 1} ELSE {})
<1> DEFINE n == Len(s)
           t == Append(s, w)
           P == OptionPlacesOf(s)
           Q == OptionPlacesOf(t)
           D == {k \in Nat : k \in 1 .. n => (k \in P <=> k \in Q)}
<1>1. /\ t \in Seq(S) /\ Len(t) = n + 1 /\ n \in Nat
      /\ \A i \in 1 .. n : t[i] = s[i]
  BY AppendProperties, LenProperties
<1>2. /\ P \subseteq 1 .. n
      /\ \A i \in 1 .. n : i \in P <=> i = 1 \/ ~(i - 1 \in P /\ TakesParam(s[i - 1]))
  BY GrammarStep
<1>3. /\ Q \subseteq 1 .. n + 1
      /\ \A i \in 1 .. n + 1 : i \in Q <=> i = 1 \/ ~(i - 1 \in Q /\ TakesParam(t[i - 1]))
  BY <1>1, GrammarStep
<1> HIDE DEF P, Q, t
<1>4. 0 \in D
  OBVIOUS
<1>5. ASSUME NEW k \in Nat, k \in D PROVE k + 1 \in D
  <2> SUFFICES ASSUME k + 1 \in 1 .. n PROVE k + 1 \in P <=> k + 1 \in Q
    OBVIOUS
  <2>1. k + 1 \in 1 .. n + 1 /\ (k + 1) - 1 = k
    BY <1>1
  <2>2. CASE k = 0
    BY <1>2, <1>3, <2>1, <2>2
  <2>3. CASE k # 0
    <3>1. k \in 1 .. n /\ k + 1 # 1
      BY <1>1, <2>3
    <3>2. (k \in P <=> k \in Q) /\ t[k] = s[k]
      BY <1>1, <1>5, <3>1
    <3> QED
      BY <1>2, <1>3, <2>1, <3>1, <3>2
  <2> QED
    BY <2>2, <2>3
<1> HIDE DEF D
<1>6. Nat \subseteq D
  BY <1>4, <1>5, NumberInduction
<1>7. \A i \in 1 .. n : i \in P <=> i \in Q
  BY <1>6 DEF D
<1>8. n + 1 \in Q <=> OptionNext(s)
  <2>1. n + 1 \in 1 .. n + 1 /\ (n + 1) - 1 = n
    BY <1>1
  <2>2. CASE s = <<>>
    <3>1. n = 0
      BY <2>2
    <3> QED
      BY <1>3, <2>1, <2>2, <3>1 DEF OptionNext
  <2>3. CASE s # <<>>
    <3>1. n \in 1 .. n /\ n + 1 # 1
      BY <2>3, EmptySeq
    <3>2. (n \in P <=> n \in Q) /\ t[n] = s[n]
      BY <1>1, <1>7, <3>1
    <3> QED
      BY <1>3, <2>1, <2>3, <3>1, <3>2 DEF OptionNext, P
  <2> QED
    BY <2>2, <2>3
<1>9. 1 .. n + 1 = 1 .. n \cup {n + 1} /\ n + 1 \notin 1 .. n
  BY <1>1
<1>10. Q = P \cup (IF OptionNext(s) THEN {n + 1} ELSE {})
  BY <1>2, <1>3, <1>7, <1>8, <1>9
<1> QED
  BY <1>10 DEF P, Q, t

-----------------------------------------------------------------------------
(* What the files bring.                                                   *)

Piece(s, i) ==
  IF i \in OptionPlacesOf(s) /\ s[i].lead = "@" /\ s[i].text \in DOMAIN Files
    THEN FileWords(s[i].text) ELSE <<>>
Pieces(s) == [i \in DOMAIN s |-> Piece(s, i)]

LEMMA FileWordsType ==
  ASSUME NEW f \in DOMAIN Files
  PROVE  FileWords(f) \in Seq(Words)
<1> DEFINE F == Files[f]
           G == [i \in DOMAIN F |-> IF F[i] = BadLine THEN <<>> ELSE F[i]]
<1>1. F \in Seq({BadLine} \cup Seq(Words))
  BY FilesAssumption
<1> HIDE DEF F
<1>2. Len(F) \in Nat /\ DOMAIN F = 1 .. Len(F)
  BY <1>1, LenProperties
<1>3. \A i \in 1 .. Len(F) : F[i] \in {BadLine} \cup Seq(Words)
  BY <1>1, ElementOfSeq
<1>4. \A i \in 1 .. Len(F) : (IF F[i] = BadLine THEN <<>> ELSE F[i]) \in Seq(Words)
  BY <1>3, EmptySeq
<1>5. G \in [1 .. Len(F) -> Seq(Words)]
  BY <1>2, <1>4
<1>6. G \in Seq(Seq(Words))
  BY <1>2, <1>5, SeqDef
<1>7. FileWords(f) = FlattenSeq(G)
  BY DEF FileWords, F
<1> HIDE DEF G
<1> QED
  BY <1>6, <1>7, FlattenType

LEMMA PieceType ==
  ASSUME NEW s, NEW i
  PROVE  Piece(s, i) \in Seq(Words)
BY FileWordsType, EmptySeq DEF Piece

LEMMA PiecesType ==
  ASSUME NEW s \in Seq(Words)
  PROVE  Pieces(s) \in Seq(Seq(Words)) /\ Len(Pieces(s)) = Len(s)
<1>1. Len(s) \in Nat /\ DOMAIN s = 1 .. Len(s)
  BY LenProperties
<1>2. Pieces(s) \in [1 .. Len(s) -> Seq(Words)]
  BY <1>1, PieceType DEF Pieces
<1> QED
  BY <1>1, <1>2, SeqDef

\* What a word more brings is all that comes behind what was brought before it.
LEMMA BroughtAppend ==
  ASSUME NEW s \in Seq(Words), NEW w \in Words
  PROVE  /\ Brought(s) \in Seq(Words)
         /\ Brought(Append(s, w)) =
              Brought(s) \o (IF OptionNext(s) /\ w.lead = "@" /\ w.text \in DOMAIN Files
                               THEN FileWords(w.text) ELSE <<>>)
<1> DEFINE n == Len(s)
           t == Append(s, w)
           x == IF OptionNext(s) /\ w.lead = "@" /\ w.text \in DOMAIN Files
                  THEN FileWords(w.text) ELSE <<>>
<1>1. /\ t \in Seq(Words) /\ Len(t) = n + 1 /\ n \in Nat /\ t[n + 1] = w
      /\ \A i \in 1 .. n : t[i] = s[i]
      /\ DOMAIN s = 1 .. n /\ DOMAIN t = 1 .. n + 1
  BY AppendProperties, LenProperties
<1>2. OptionPlacesOf(s) \subseteq 1 .. n
  BY GrammarStep
<1>3. OptionPlacesOf(t) = OptionPlacesOf(s) \cup (IF OptionNext(s) THEN {n + 1} ELSE {})
  BY GrammarAppend
<1> HIDE DEF t, n
<1>4. \A i \in 1 .. n : i # n + 1 /\ i \in 1 .. n + 1
  BY <1>1
<1>5. ASSUME NEW i \in 1 .. n PROVE Piece(t, i) = Piece(s, i)
  <2>1. i \in OptionPlacesOf(t) <=> i \in OptionPlacesOf(s)
    BY <1>3, <1>4
  <2> QED
    BY <1>1, <2>1 DEF Piece
<1>6. Piece(t, n + 1) = x
  <2>1. n + 1 \in OptionPlacesOf(t) <=> OptionNext(s)
    BY <1>2, <1>3, <1>4
  <2> QED
    BY <1>1, <2>1 DEF Piece
<1>7. x \in Seq(Words)
  BY FileWordsType, EmptySeq
<1> HIDE DEF x
<1>8. Pieces(s) \in Seq(Seq(Words)) /\ Len(Pieces(s)) = n
  BY PiecesType DEF n
<1>9. Pieces(t) \in Seq(Seq(Words)) /\ Len(Pieces(t)) = n + 1
  BY <1>1, PiecesType
<1>10. /\ Append(Pieces(s), x) \in Seq(Seq(Words)) /\ Len(Append(Pieces(s), x)) = n + 1
       /\ \A i \in 1 .. n : Append(Pieces(s), x)[i] = Pieces(s)[i]
       /\ Append(Pieces(s), x)[n + 1] = x
  BY <1>7, <1>8, AppendProperties
<1>11. \A i \in 1 .. n + 1 : Pieces(t)[i] = Append(Pieces(s), x)[i]
  <2>1. \A i \in 1 .. n + 1 : i \in 1 .. n \/ i = n + 1
    BY <1>1
  <2>2. \A i \in 1 .. n : Pieces(t)[i] = Piece(t, i) /\ Pieces(s)[i] = Piece(s, i)
    BY <1>1, <1>4 DEF Pieces
  <2>3. Pieces(t)[n + 1] = Piece(t, n + 1)
    BY <1>1 DEF Pieces
  <2> QED
    BY <1>5, <1>6, <1>10, <2>1, <2>2, <2>3
<1>12. Pieces(t) = Append(Pieces(s), x)
  BY <1>9, <1>10, <1>11, SeqEqual
<1>13. \A u : Brought(u) = FlattenSeq(Pieces(u))
  BY DEF Brought, Pieces, Piece
<1>14. Brought(s) \in Seq(Words)
  BY <1>8, <1>13, FlattenType
<1>15. Brought(t) = Brought(s) \o x
  BY <1>7, <1>8, <1>12, <1>13, FlattenAppend
<1> QED
  BY <1>14, <1>15 DEF t, x

-----------------------------------------------------------------------------
(* Reading words.                                                          *)

OptTypeOK ==
  /\ pc \in {"register", "parse", "done"}
  /\ DOMAIN table \subseteq Names /\ table \in [DOMAIN table -> Entry]
  /\ args \in Seq(Words) /\ cmdline \in Seq(Words) /\ taken \in Seq(Words)

LEMMA SubSeqSingle ==
  ASSUME NEW S, NEW s \in Seq(S), NEW i \in 1 .. Len(s)
  PROVE  SubSeq(s, i, i) = <<s[i]>>
<1>1. Len(s) \in Nat /\ s[i] \in S /\ <<s[i]>> \in Seq(S) /\ i \in i .. Len(s) /\ i + 1 \in Int
  BY LenProperties, ElementOfSeq
<1>2. SubSeq(s, i, i) = <<s[i]>> \o SubSeq(s, i + 1, i)
  <2>1. i \in i .. Len(s)
    BY <1>1
  <2> QED
    BY <2>1, SubSeqRecursiveFirst
<1>3. SubSeq(s, i + 1, i) = <<>>
  BY <1>1, SubSeqEmpty
<1> QED
  BY <1>1, <1>2, <1>3, ConcatEmptySeq

\* One word has been read.
LEMMA TakeOne ==
  ASSUME OptTypeOK, args # <<>>, Taking(1)
  PROVE  /\ Head(args) \in Words /\ args = <<Head(args)>> \o args'
         /\ taken' = Append(taken, Head(args))
         /\ args' = Tail(args) /\ args' \in Seq(Words) /\ taken' \in Seq(Words)
<1>1. args \in Seq(Words) /\ taken \in Seq(Words) /\ Len(args) \in Nat \ {0}
  BY EmptySeq DEF OptTypeOK
<1>2. Head(args) \in Words /\ Tail(args) \in Seq(Words) /\ Tail(args) = SubSeq(args, 2, Len(args))
  BY <1>1, HeadTailProperties, TailIsSubSeq
<1>3. args' = SubSeq(args, 2, Len(args))
  BY DEF Taking, Erase
<1>4. 1 \in 1 .. Len(args) /\ Len(args) \in 1 .. Len(args) /\ Head(args) = args[1]
  BY <1>1
<1>5. args = <<Head(args)>> \o args'
  <2>1. SubSeq(args, 1, Len(args)) = <<args[1]>> \o SubSeq(args, 1 + 1, Len(args))
    BY <1>1, <1>4, SubSeqRecursiveFirst
  <2> QED
    BY <1>1, <1>3, <1>4, <2>1, SubSeqFull
<1>6. taken' = Append(taken, Head(args))
  <2>1. SubSeq(args, 1, 1) = <<args[1]>>
    BY <1>1, <1>4, SubSeqSingle
  <2> QED
    BY <1>1, <1>2, <1>4, <2>1, AppendIsConcat DEF Taking
<1> QED
  BY <1>1, <1>2, <1>3, <1>5, <1>6, AppendProperties

\* Two words have been read.
LEMMA TakeTwo ==
  ASSUME OptTypeOK, Len(args) > 1, Taking(2)
  PROVE  /\ Head(args) \in Words /\ args[2] \in Words
         /\ args = <<Head(args)>> \o (<<args[2]>> \o args')
         /\ taken' = Append(Append(taken, Head(args)), args[2])
         /\ args' \in Seq(Words) /\ taken' \in Seq(Words)
<1>1. args \in Seq(Words) /\ taken \in Seq(Words) /\ Len(args) \in Nat
  BY LenProperties DEF OptTypeOK
<1>2. /\ 1 \in 1 .. Len(args) /\ 2 \in 1 .. Len(args) /\ Len(args) \in 1 .. Len(args)
      /\ Len(args) \in 2 .. Len(args) /\ Head(args) = args[1]
  BY <1>1
<1>3. args[1] \in Words /\ args[2] \in Words
  BY <1>1, <1>2, ElementOfSeq
<1>4. args' = SubSeq(args, 3, Len(args))
  BY DEF Taking, Erase
<1>5. args = <<args[1]>> \o (<<args[2]>> \o args')
  <2>1. SubSeq(args, 1, Len(args)) = <<args[1]>> \o SubSeq(args, 1 + 1, Len(args))
    BY <1>1, <1>2, SubSeqRecursiveFirst
  <2>2. SubSeq(args, 2, Len(args)) = <<args[2]>> \o SubSeq(args, 2 + 1, Len(args))
    BY <1>1, <1>2, SubSeqRecursiveFirst
  <2> QED
    BY <1>1, <1>4, <2>1, <2>2, SubSeqFull
<1>6. args' \in Seq(Words)
  <2>1. \A i \in 3 .. Len(args) : args[i] \in Words
    BY <1>1, ElementOfSeq
  <2> QED
    BY <1>1, <1>4, <2>1, SubSeqProperties
<1>7. taken' = Append(Append(taken, args[1]), args[2])
  <2>1. SubSeq(args, 1, 2) = <<args[1]>> \o <<args[2]>>
    <3>1. 2 \in 1 .. Len(args) /\ 1 + 1 = 2
      BY <1>2
    <3>2. SubSeq(args, 1, 2) = <<args[1]>> \o SubSeq(args, 1 + 1, 2)
      BY <1>1, <1>2, SubSeqRecursiveFirst
    <3> QED
      BY <1>1, <3>1, <3>2, SubSeqSingle
  <2>2. <<args[1]>> \in Seq(Words) /\ <<args[2]>> \in Seq(Words)
    BY <1>3
  <2>3. taken' = (taken \o <<args[1]>>) \o <<args[2]>>
    BY <1>1, <2>1, <2>2, ConcatAssociative DEF Taking
  <2>4. Append(taken, args[1]) = taken \o <<args[1]>> /\ Append(taken, args[1]) \in Seq(Words)
    BY <1>1, <1>3, AppendIsConcat, AppendProperties
  <2> QED
    BY <1>3, <2>3, <2>4, AppendIsConcat
<1>8. taken' \in Seq(Words)
  BY <1>1, <1>3, <1>7, AppendProperties
<1> QED
  BY <1>2, <1>3, <1>5, <1>6, <1>7, <1>8

IsPlain(w) == w.lead = ""

\* The word w has been read as an option, and perhaps a parameter behind it.
ReadAs(w) ==
  /\ Len(taken) \in Nat /\ Len(taken') \in Nat /\ Len(taken') >= Len(taken) + 1
  /\ taken'[Len(taken) + 1] = w
  /\ \A i \in 1 .. Len(taken) : taken'[i] = taken[i]
  /\ OptionPlaces \subseteq 1 .. Len(taken)
  /\ OptionPlaces' = OptionPlaces \cup {Len(taken) + 1}

LEMMA OneWordRead ==
  ASSUME taken \in Seq(Words), OptionNext(taken), NEW w \in Words, taken' = Append(taken, w)
  PROVE  /\ ReadAs(w) /\ Len(taken') = Len(taken) + 1
         /\ ~TakesParam(w) => OptionNext(taken')
<1>1. /\ Len(taken) \in Nat /\ Len(taken') = Len(taken) + 1
      /\ taken'[Len(taken) + 1] = w
      /\ \A i \in 1 .. Len(taken) : taken'[i] = taken[i]
  BY LenProperties, AppendProperties
<1>2. OptionPlacesOf(taken) \subseteq 1 .. Len(taken)
  BY GrammarStep
<1>3. OptionPlacesOf(taken') = OptionPlacesOf(taken) \cup {Len(taken) + 1}
  BY GrammarAppend
<1> QED
  BY <1>1, <1>2, <1>3 DEF ReadAs, OptionPlaces, OptionNext

LEMMA TwoWordsRead ==
  ASSUME taken \in Seq(Words), OptionNext(taken), NEW w \in Words, TakesParam(w),
         NEW v \in Words, taken' = Append(Append(taken, w), v)
  PROVE  /\ ReadAs(w) /\ OptionNext(taken')
         /\ Len(taken') = Len(taken) + 2 /\ taken'[Len(taken) + 2] = v
<1> DEFINE n == Len(taken)
<1>1. PICK t : t = Append(taken, w)
  OBVIOUS
<1>2. /\ t \in Seq(Words) /\ n \in Nat /\ Len(t) = n + 1 /\ t[n + 1] = w /\ t # <<>>
      /\ \A i \in 1 .. n : t[i] = taken[i]
  BY <1>1, LenProperties, AppendProperties
<1>3. /\ taken' = Append(t, v) /\ Len(taken') = n + 2 /\ taken'[n + 2] = v
      /\ \A i \in 1 .. n + 1 : taken'[i] = t[i]
  <2>1. taken' = Append(t, v)
    BY <1>1
  <2>2. /\ Len(taken') = Len(t) + 1 /\ taken'[Len(t) + 1] = v
        /\ \A i \in 1 .. Len(t) : taken'[i] = t[i]
    BY <1>2, <2>1, AppendProperties
  <2>3. (n + 1) + 1 = n + 2
    BY <1>2
  <2> QED
    BY <1>2, <2>1, <2>2, <2>3
<1>4. OptionPlacesOf(taken) \subseteq 1 .. n
  BY GrammarStep
<1>5. OptionPlacesOf(t) = OptionPlacesOf(taken) \cup {n + 1}
  BY <1>1, GrammarAppend
<1>6. ~OptionNext(t)
  BY <1>2, <1>5 DEF OptionNext
<1>7. OptionPlacesOf(taken') = OptionPlacesOf(t)
  <2>1. OptionPlacesOf(Append(t, v))
          = OptionPlacesOf(t) \cup (IF OptionNext(t) THEN {Len(t) + 1} ELSE {})
    BY <1>2, GrammarAppend
  <2> QED
    BY <1>3, <1>6, <2>1
<1>8. n + 2 \notin OptionPlacesOf(taken')
  BY <1>2, <1>4, <1>5, <1>7
<1>9. \A i \in 1 .. n : taken'[i] = taken[i]
  BY <1>2, <1>3
<1>10. taken'[n + 1] = w
  BY <1>2, <1>3
<1> QED
  BY <1>2, <1>3, <1>4, <1>5, <1>7, <1>8, <1>9, <1>10 DEF ReadAs, OptionPlaces, OptionNext

-----------------------------------------------------------------------------
(* The invariant.                                                          *)

Params(o) == {i + 1 : i \in Places(o)} \cap 1 .. Len(taken)

\* Options with a dash have what was read for them.
DashInv ==
  \A o \in DOMAIN table : o.lead = "-" =>
    /\ table[o].isSet <=> Places(o) # {}
    /\ table[o].param =
         IF o \in NeedsParam /\ Params(o) # {} THEN taken[Max(Params(o))] ELSE Default[o]

\* The others have the plain words, as far as these go.
PlainInv ==
  \A o \in DOMAIN table : o.lead # "-" =>
    /\ table[o].isSet <=> Assigned(o) # {}
    /\ table[o].param = IF Assigned(o) # {} THEN taken[Min(Assigned(o))] ELSE Default[o]

\* The first plain word has none before it, the second has one, and so on.
RankInv ==
  \A k \in Nat : (\E i \in PlainPlaces : Cardinality({j \in PlainPlaces : j < i}) = k)
                   <=> k < Cardinality(PlainPlaces)

PhaseInv ==
  /\ pc = "register" => taken = <<>> /\ \A o \in DOMAIN table : table[o] = NewEntry(o)
  /\ pc = "parse" => OptionNext(taken)

OptInv ==
  /\ OptTypeOK /\ PhaseInv /\ FilesBehindCommandLine
  /\ DashInv /\ PlainInv /\ RankInv

LEMMA GreatestMember ==
  ASSUME NEW n \in Nat, NEW S, S \subseteq 1 .. n, S # {}
  PROVE  Max(S) \in S /\ \A x \in S : x <= Max(S)
<1> DEFINE N == {n - x : x \in S}
<1>1. N \in SUBSET Nat /\ N # {}
  OBVIOUS
<1>2. PICK m \in N : \A k \in N : m <= k
  BY <1>1, LeastMember
<1>3. PICK y \in S : m = n - y
  OBVIOUS
<1>4. ASSUME NEW x \in S PROVE y >= x
  <2>1. m <= n - x
    BY <1>2
  <2> QED
    BY <1>3, <2>1
<1>5. \E x \in S : \A z \in S : x >= z
  BY <1>4
<1>6. Max(S) \in S /\ \A z \in S : Max(S) >= z
  BY <1>5, Zenon DEF Max
<1>7. \A z \in S : z \in Nat
  OBVIOUS
<1> QED
  BY <1>6, <1>7

LEMMA LeastIsMin ==
  ASSUME NEW S \in SUBSET Nat, S # {}
  PROVE  Min(S) \in S /\ \A x \in S : Min(S) <= x
<1>1. \E m \in S : \A k \in S : m <= k
  BY LeastMember
<1> QED
  BY <1>1, Zenon DEF Min

\* The getters find an option by its number.
LEMMA FoundById ==
  ASSUME OptTypeOK, NEW o \in DOMAIN table
  PROVE  Get(Id[o]) = table[o].isSet /\ GetString(Id[o]) = table[o].param
<1>1. o \in Names /\ MapOrder \in Seq(Words) /\ Len(MapOrder) \in Nat
      /\ DOMAIN MapOrder = 1 .. Len(MapOrder)
  BY NamesAssumption, LenProperties DEF OptTypeOK
<1>2. PICK k \in DOMAIN MapOrder : MapOrder[k] = o
  BY <1>1 DEF Names, ToSet
<1>3. \A i \in DOMAIN MapOrder : MapOrder[i] \in Names
  BY DEF Names, ToSet
<1>4. HasId(Id[o]) # {} /\ \A i \in HasId(Id[o]) : MapOrder[i] = o
  BY <1>1, <1>2, <1>3, IdAssumption DEF HasId
<1>5. HasId(Id[o]) \in SUBSET Nat
  BY <1>1 DEF HasId
<1>6. Min(HasId(Id[o])) \in HasId(Id[o])
  BY <1>4, <1>5, LeastIsMin
<1>7. Found(Id[o]) = table[o]
  BY <1>4, <1>6 DEF Found
<1>8. table[o].isSet \in BOOLEAN
  BY DEF OptTypeOK, Entry
<1> QED
  BY <1>4, <1>7, <1>8 DEF Get, GetString

LEMMA OptInitial == Init => OptInv
<1> SUFFICES ASSUME Init PROVE OptInv
  OBVIOUS
<1>1. OptTypeOK
  BY EmptySeq DEF Init, OptTypeOK
<1>2. OptionPlacesOf(taken) = {}
  BY NoPlaces DEF Init
<1>3. PlainPlaces = {} /\ Cardinality(PlainPlaces) = 0
  BY <1>2, FS_EmptySet DEF PlainPlaces, OptionPlaces
<1>4. DOMAIN table = {}
  BY DEF Init
<1>5. RankInv
  BY <1>3 DEF RankInv
<1> QED
  BY <1>1, <1>4, <1>5
  DEF Init, OptInv, PhaseInv, FilesBehindCommandLine, DashInv, PlainInv

\* Registered options have their default until words are read.
LEMMA RegisterSteps ==
  ASSUME OptInv, NEW o \in Names, RegisterOpt(o)
  PROVE  OptInv'
<1>1. /\ pc = "register" /\ UNCHANGED <<pc, args, success, cmdline, taken>>
      /\ table' = [p \in DOMAIN table \cup {o} |-> IF p = o THEN NewEntry(o) ELSE table[p]]
      /\ taken = <<>> /\ \A p \in DOMAIN table : table[p] = NewEntry(p)
  BY DEF RegisterOpt, OptInv, PhaseInv
<1>2. /\ DOMAIN table' = DOMAIN table \cup {o}
      /\ \A p \in DOMAIN table' : table'[p] = NewEntry(p)
  BY <1>1
<1>3. OptTypeOK'
  <2>1. \A p \in Names : NewEntry(p) \in Entry
    BY DEF NewEntry, Entry
  <2> QED
    BY <1>1, <1>2, <2>1 DEF OptInv, OptTypeOK
<1>4. OptionPlacesOf(taken) = {}
  BY <1>1, NoPlaces
<1>5. OptionPlaces' = {} /\ PlainPlaces' = {} /\ PlainPlaces = {}
  BY <1>1, <1>4 DEF OptionPlaces, PlainPlaces
<1>6. \A p : Places(p)' = {} /\ Params(p)' = {} /\ Assigned(p)' = {}
  BY <1>5 DEF Places, Params, Assigned
<1>7. DashInv' /\ PlainInv'
  <2>1. \A p \in DOMAIN table' : ~table'[p].isSet /\ table'[p].param = Default[p]
    <3>1. \A p : ~NewEntry(p).isSet /\ NewEntry(p).param = Default[p]
      BY DEF NewEntry
    <3> QED
      BY <1>2, <3>1
  <2>2. DashInv'
    BY <1>6, <2>1 DEF DashInv
  <2>3. PlainInv'
    BY <1>6, <2>1 DEF PlainInv
  <2> QED
    BY <2>2, <2>3
<1>8. RankInv'
  BY <1>5 DEF OptInv, RankInv
<1> QED
  BY <1>1, <1>2, <1>3, <1>7, <1>8 DEF OptInv, PhaseInv, FilesBehindCommandLine

LEMMA ParseSteps ==
  ASSUME OptInv, NEW line \in CommandLines, Parse(line)
  PROVE  OptInv'
<1>1. /\ pc = "register" /\ pc' = "parse" /\ UNCHANGED <<table, taken>>
      /\ args' = line /\ cmdline' = line /\ taken = <<>>
      /\ line \in Seq(Words)
  BY CommandLinesAssumption DEF Parse, OptInv, PhaseInv
<1>2. OptTypeOK'
  BY <1>1 DEF OptInv, OptTypeOK
<1>3. PhaseInv'
  BY <1>1 DEF PhaseInv, OptionNext
<1>4. UNCHANGED <<OptionPlaces, PlainPlaces>>
  BY <1>1 DEF OptionPlaces, PlainPlaces
<1>5. \A p : UNCHANGED <<Places(p), Params(p), Assigned(p)>>
  BY <1>1, <1>4 DEF Places, Params, Assigned, Before
<1>6. DashInv' /\ PlainInv' /\ RankInv'
  BY <1>1, <1>4, <1>5 DEF OptInv, DashInv, PlainInv, RankInv
<1>7. FilesBehindCommandLine'
  <2>1. Brought(<<>>) = <<>>
    BY FlattenEmpty DEF Brought
  <2> QED
    BY <1>1, <2>1, ConcatEmptySeq DEF FilesBehindCommandLine
<1> QED
  BY <1>2, <1>3, <1>6, <1>7 DEF OptInv

-----------------------------------------------------------------------------
(* A word read leaves the other options alone.                             *)

ParamRead(o) ==
  IF o \in NeedsParam /\ Params(o) # {} THEN taken[Max(Params(o))] ELSE Default[o]
ParamAssigned(o) ==
  IF Assigned(o) # {} THEN taken[Min(Assigned(o))] ELSE Default[o]

LEMMA PlacesAreNumbers ==
  ASSUME NEW n \in Nat, NEW S, NEW R, S \subseteq R, R \subseteq 1 .. n
  PROVE  S \subseteq 1 .. n /\ S \in SUBSET Nat
OBVIOUS

\* No parameter was still to come.
LEMMA NoneMissing ==
  ASSUME OptInv, pc = "parse", NEW w, ReadAs(w),
         NEW o, o.lead = "-", o \in NeedsParam, NEW i \in Places(o)
  PROVE  i + 1 \in 1 .. Len(taken)
<1>1. i \in 1 .. Len(taken) /\ Len(taken) \in Nat /\ i \in OptionPlaces /\ taken[i] = o
  BY DEF Places, ReadAs
<1>2. i # Len(taken)
  <2>1. OptionNext(taken) /\ taken \in Seq(Words)
    BY DEF OptInv, PhaseInv, OptTypeOK
  <2>2. i = Len(taken) => taken # <<>>
    BY <1>1
  <2> QED
    BY <1>1, <2>1, <2>2 DEF OptionNext, TakesParam, OptionPlaces
<1> QED
  BY <1>1, <1>2

LEMMA PlacesGrow ==
  ASSUME NEW w, ReadAs(w), NEW o
  PROVE  Places(o)' = Places(o) \cup (IF w = o THEN {Len(taken) + 1} ELSE {})
<1>1. \A i \in OptionPlaces : i # Len(taken) + 1 /\ taken'[i] = taken[i]
  BY DEF ReadAs
<1>2. OptionPlaces' = OptionPlaces \cup {Len(taken) + 1} /\ taken'[Len(taken) + 1] = w
  BY DEF ReadAs
<1> QED
  BY <1>1, <1>2 DEF Places

LEMMA PlainPlacesGrow ==
  ASSUME NEW w, ReadAs(w)
  PROVE  PlainPlaces' = PlainPlaces \cup (IF IsPlain(w) THEN {Len(taken) + 1} ELSE {})
<1>1. \A i \in OptionPlaces : i # Len(taken) + 1 /\ taken'[i] = taken[i]
  BY DEF ReadAs
<1>2. OptionPlaces' = OptionPlaces \cup {Len(taken) + 1} /\ taken'[Len(taken) + 1] = w
  BY DEF ReadAs
<1> QED
  BY <1>1, <1>2 DEF PlainPlaces, IsPlain

LEMMA ParamsKept ==
  ASSUME OptInv, pc = "parse", NEW w, ReadAs(w), NEW o, o.lead = "-", o \in NeedsParam
  PROVE  /\ {i + 1 : i \in Places(o)} \cap 1 .. Len(taken') = Params(o)
         /\ Params(o) # {} => taken'[Max(Params(o))] = taken[Max(Params(o))]
<1>1. Len(taken) \in Nat /\ Len(taken') \in Nat /\ Len(taken') >= Len(taken) + 1
  BY DEF ReadAs
<1>2. \A i \in Places(o) : i + 1 \in 1 .. Len(taken) /\ i + 1 \in 1 .. Len(taken')
  BY <1>1, NoneMissing
<1>3. {i + 1 : i \in Places(o)} \cap 1 .. Len(taken') = Params(o)
  BY <1>2 DEF Params
<1>4. Params(o) # {} => Max(Params(o)) \in 1 .. Len(taken)
  BY <1>1, GreatestMember DEF Params
<1> QED
  BY <1>3, <1>4 DEF ReadAs

LEMMA DashKept ==
  ASSUME OptInv, pc = "parse", NEW w, ReadAs(w), NEW o, o.lead = "-", o # w
  PROVE  Places(o)' = Places(o) /\ ParamRead(o)' = ParamRead(o)
<1>1. Places(o)' = Places(o)
  BY PlacesGrow
<1>2. CASE o \in NeedsParam
  <2>1. Params(o)' = Params(o)
    BY <1>1, <1>2, ParamsKept DEF Params
  <2> QED
    BY <1>1, <1>2, <2>1, ParamsKept DEF ParamRead
<1>3. CASE o \notin NeedsParam
  BY <1>1, <1>3 DEF ParamRead
<1> QED
  BY <1>2, <1>3

LEMMA PlainKept ==
  ASSUME NEW w, ReadAs(w), ~IsPlain(w), DOMAIN table' = DOMAIN table, NEW o
  PROVE  Assigned(o)' = Assigned(o) /\ ParamAssigned(o)' = ParamAssigned(o)
<1>1. PlainPlaces' = PlainPlaces
  BY PlainPlacesGrow
<1>2. Assigned(o)' = Assigned(o)
  BY <1>1 DEF Assigned, Before
<1>3. Assigned(o) \subseteq 1 .. Len(taken) /\ Assigned(o) \in SUBSET Nat
  <2>1. OptionPlaces \subseteq 1 .. Len(taken) /\ Len(taken) \in Nat
    BY DEF ReadAs
  <2>2. Assigned(o) \subseteq OptionPlaces
    BY DEF Assigned, PlainPlaces
  <2> QED
    BY <2>1, <2>2, PlacesAreNumbers, Zenon
<1>4. Assigned(o) # {} => Min(Assigned(o)) \in 1 .. Len(taken)
  BY <1>3, LeastIsMin
<1> QED
  BY <1>2, <1>4 DEF ParamAssigned, ReadAs

\* Of the options with a dash, only the word read may change.
LEMMA DashSteps ==
  ASSUME OptInv, pc = "parse", NEW w, ReadAs(w), DOMAIN table' = DOMAIN table,
         \A o \in DOMAIN table : o.lead = "-" /\ o # w => table'[o] = table[o],
         w.lead = "-" /\ w \in DOMAIN table =>
           table'[w].isSet /\ table'[w].param = ParamRead(w)'
  PROVE  DashInv'
<1> SUFFICES ASSUME NEW o \in DOMAIN table, o.lead = "-"
             PROVE  /\ table'[o].isSet <=> Places(o)' # {}
                    /\ table'[o].param = ParamRead(o)'
  BY DEF DashInv, ParamRead
<1>1. CASE o = w
  <2>1. Places(o)' # {}
    BY <1>1, PlacesGrow
  <2> QED
    BY <1>1, <2>1
<1>2. CASE o # w
  <2>1. /\ table[o].isSet <=> Places(o) # {}
        /\ table[o].param = ParamRead(o)
    BY DEF OptInv, DashInv, ParamRead
  <2>2. Places(o)' = Places(o) /\ ParamRead(o)' = ParamRead(o)
    BY <1>2, DashKept
  <2> QED
    BY <1>2, <2>1, <2>2
<1> QED
  BY <1>1, <1>2

\* A word that is not plain leaves the options without a dash alone.
LEMMA NotPlainSteps ==
  ASSUME OptInv, NEW w, ReadAs(w), ~IsPlain(w), DOMAIN table' = DOMAIN table,
         \A o \in DOMAIN table : o.lead # "-" => table'[o] = table[o]
  PROVE  PlainInv' /\ RankInv'
<1>1. PlainPlaces' = PlainPlaces
  BY PlainPlacesGrow
<1>2. RankInv'
  BY <1>1 DEF OptInv, RankInv
<1>3. PlainInv'
  <2> SUFFICES ASSUME NEW o \in DOMAIN table, o.lead # "-"
               PROVE  /\ table'[o].isSet <=> Assigned(o)' # {}
                      /\ table'[o].param = ParamAssigned(o)'
    BY DEF PlainInv, ParamAssigned
  <2>1. /\ table[o].isSet <=> Assigned(o) # {}
        /\ table[o].param = ParamAssigned(o)
    BY DEF OptInv, PlainInv, ParamAssigned
  <2>2. Assigned(o)' = Assigned(o) /\ ParamAssigned(o)' = ParamAssigned(o)
    BY PlainKept
  <2> QED
    BY <2>1, <2>2
<1> QED
  BY <1>2, <1>3

\* A word that names no file to be read changes nothing in the order of the others.
LEMMA FilesKept ==
  ASSUME OptInv, pc = "parse", args # <<>>, Taking(1), UNCHANGED cmdline,
         Head(args).lead # "@" \/ Head(args).text \notin DOMAIN Files
  PROVE  FilesBehindCommandLine'
<1>1. OptTypeOK /\ taken \in Seq(Words) /\ taken \o args = cmdline \o Brought(taken)
  BY DEF OptInv, OptTypeOK, FilesBehindCommandLine
<1>2. PICK w \in Words : /\ w = Head(args) /\ args = <<w>> \o args'
                         /\ taken' = Append(taken, w) /\ args' \in Seq(Words)
  BY <1>1, TakeOne
<1>3. taken' \o args' = taken \o args
  <2>1. <<w>> \in Seq(Words) /\ taken' = taken \o <<w>>
    BY <1>1, <1>2, AppendIsConcat
  <2>2. (taken \o <<w>>) \o args' = taken \o (<<w>> \o args')
    BY <1>1, <1>2, <2>1, ConcatAssociative
  <2> QED
    BY <1>2, <2>1, <2>2
<1>4. Brought(taken') = Brought(taken)
  <2>1. Brought(taken') = Brought(taken) \o <<>> /\ Brought(taken) \in Seq(Words)
    BY <1>1, <1>2, BroughtAppend
  <2> QED
    BY <2>1, ConcatEmptySeq
<1> QED
  BY <1>1, <1>3, <1>4 DEF FilesBehindCommandLine

-----------------------------------------------------------------------------
(* Plain words.                                                            *)

Rank(o) == Cardinality(Before(o))

LEMMA RankType ==
  ASSUME NEW o
  PROVE  Rank(o) \in Nat /\ IsFiniteSet(Before(o))
<1>1. Len(MapOrder) \in Nat /\ DOMAIN MapOrder = 1 .. Len(MapOrder)
  BY NamesAssumption, LenProperties
<1>2. Before(o) \subseteq 1 .. Len(MapOrder) /\ IsFiniteSet(1 .. Len(MapOrder))
  BY <1>1, FS_Interval DEF Before
<1>3. IsFiniteSet(Before(o))
  BY <1>2, FS_Subset
<1> QED
  BY <1>3, FS_CardinalityType DEF Rank

LEMMA PlainFinite ==
  ASSUME OptTypeOK
  PROVE  /\ Cardinality(PlainPlaces) \in Nat /\ IsFiniteSet(PlainPlaces)
         /\ PlainPlaces \subseteq 1 .. Len(taken) /\ Len(taken) \in Nat
<1>1. Len(taken) \in Nat /\ OptionPlaces \subseteq 1 .. Len(taken)
  BY GrammarStep, LenProperties DEF OptTypeOK, OptionPlaces
<1>2. PlainPlaces \subseteq 1 .. Len(taken) /\ IsFiniteSet(1 .. Len(taken))
  <2>1. PlainPlaces \subseteq OptionPlaces
    BY DEF PlainPlaces
  <2>2. PlainPlaces \subseteq 1 .. Len(taken)
    BY <1>1, <2>1, PlacesAreNumbers, Zenon
  <2>3. IsFiniteSet(1 .. Len(taken))
    BY <1>1, FS_Interval
  <2> QED
    BY <2>2, <2>3
<1>3. IsFiniteSet(PlainPlaces)
  BY <1>2, FS_Subset
<1> QED
  BY <1>1, <1>2, <1>3, FS_CardinalityType

\* As many options without a dash are set as plain words were read, the first ones.
LEMMA SetByRank ==
  ASSUME OptInv, NEW o \in DOMAIN table, o.lead # "-"
  PROVE  table[o].isSet <=> Rank(o) < Cardinality(PlainPlaces)
<1>1. table[o].isSet <=> Assigned(o) # {}
  BY DEF OptInv, PlainInv
<1>2. Assigned(o) # {} <=>
        \E i \in PlainPlaces : Cardinality({j \in PlainPlaces : j < i}) = Rank(o)
  BY DEF Assigned, Rank
<1> QED
  BY <1>1, <1>2, RankType DEF OptInv, RankInv

RanksIn(S, k) == {i \in S : Cardinality({j \in S : j < i}) = k}

\* A place is added behind a set of places, and the ranks in them.
LEMMA PlaceAdded ==
  ASSUME NEW n \in Nat, NEW P, P \subseteq 1 .. n, NEW Q, Q = P \cup {n + 1}
  PROVE  /\ n + 1 \notin P /\ IsFiniteSet(P)
         /\ Cardinality(P) \in Nat /\ Cardinality(Q) = Cardinality(P) + 1
<1>1. IsFiniteSet(P) /\ Cardinality(P) \in Nat
  <2>1. IsFiniteSet(1 .. n)
    BY FS_Interval
  <2> QED
    BY <2>1, FS_Subset, FS_CardinalityType
<1>2. n + 1 \notin P
  OBVIOUS
<1> QED
  BY <1>1, <1>2, FS_AddElement

LEMMA RanksGrow ==
  ASSUME NEW n \in Nat, NEW P, P \subseteq 1 .. n, NEW k
  PROVE  \A i : i \in RanksIn(P \cup {n + 1}, k) <=>
                  i \in RanksIn(P, k) \/ (i = n + 1 /\ k = Cardinality(P))
<1>0. PICK Q : Q = P \cup {n + 1}
  OBVIOUS
<1>1. \A i \in P : i \in Int /\ i < n + 1 /\ i # n + 1
  OBVIOUS
<1>2. \A i \in P : {j \in Q : j < i} = {j \in P : j < i}
  <2>1. \A i \in P : ~(n + 1 < i)
    BY <1>1
  <2> QED
    BY <1>0, <2>1
<1>3. {j \in Q : j < n + 1} = P
  <2>1. ~(n + 1 < n + 1)
    OBVIOUS
  <2> QED
    BY <1>0, <1>1, <2>1
<1>4. \A i \in P : i \in RanksIn(Q, k) <=> i \in RanksIn(P, k)
  BY <1>0, <1>2 DEF RanksIn
<1>5. n + 1 \in RanksIn(Q, k) <=> k = Cardinality(P)
  BY <1>0, <1>3 DEF RanksIn
<1>6. RanksIn(Q, k) \subseteq P \cup {n + 1} /\ RanksIn(P, k) \subseteq P
  BY <1>0 DEF RanksIn
<1> QED
  BY <1>0, <1>1, <1>4, <1>5, <1>6

\* Another plain word takes the next rank.
LEMMA NextRank ==
  ASSUME OptInv, NEW w, ReadAs(w), IsPlain(w), DOMAIN table' = DOMAIN table
  PROVE  /\ RankInv'
         /\ \A o : /\ Rank(o) # Cardinality(PlainPlaces) =>
                        Assigned(o)' = Assigned(o) /\ ParamAssigned(o)' = ParamAssigned(o)
                   /\ Rank(o) = Cardinality(PlainPlaces) =>
                        Assigned(o)' # {} /\ ParamAssigned(o)' = w
<1>1. PICK n, P, Q : n = Len(taken) /\ P = PlainPlaces /\ Q = PlainPlaces'
  OBVIOUS
<1>2. /\ n \in Nat /\ P \subseteq 1 .. n /\ Q = P \cup {n + 1}
  <2>1. OptTypeOK
    BY DEF OptInv
  <2>2. n \in Nat /\ P \subseteq 1 .. n
    BY <1>1, <2>1, PlainFinite
  <2>3. Q = P \cup {n + 1}
    BY <1>1, PlainPlacesGrow
  <2> QED
    BY <2>2, <2>3
<1>3. /\ n + 1 \notin P
      /\ Cardinality(P) \in Nat /\ Cardinality(Q) = Cardinality(P) + 1
  BY <1>2, PlaceAdded
<1>4. \A k, i : i \in RanksIn(Q, k) <=>
                   i \in RanksIn(P, k) \/ (i = n + 1 /\ k = Cardinality(P))
  BY <1>2, RanksGrow
<1>5. \A k \in Nat : RanksIn(P, k) # {} <=> k < Cardinality(P)
  BY <1>1 DEF OptInv, RankInv, RanksIn
<1>6. RankInv'
  <2>1. ASSUME NEW k \in Nat
        PROVE  RanksIn(Q, k) # {} <=> k < Cardinality(Q)
    <3>1. k < Cardinality(P) + 1 <=> k < Cardinality(P) \/ k = Cardinality(P)
      BY <1>3
    <3>2. RanksIn(Q, k) # {} <=> RanksIn(P, k) # {} \/ k = Cardinality(P)
      BY <1>4
    <3> QED
      BY <1>3, <1>5, <3>1, <3>2
  <2> QED
    BY <1>1, <2>1 DEF RankInv, RanksIn
<1>7. ASSUME NEW o
      PROVE  /\ Assigned(o) \subseteq P
             /\ Assigned(o) = {} <=> ~(Rank(o) < Cardinality(P))
             /\ Assigned(o)' = Assigned(o) \cup (IF Rank(o) = Cardinality(P) THEN {n + 1} ELSE {})
  <2>1. Before(o)' = Before(o) /\ Rank(o) \in Nat
    BY RankType DEF Before
  <2>2. Assigned(o) = RanksIn(P, Rank(o)) /\ Assigned(o) \subseteq P
    BY <1>1 DEF Assigned, Rank, RanksIn
  <2>3. Assigned(o)' = RanksIn(Q, Rank(o))
    BY <1>1, <2>1 DEF Assigned, Rank, RanksIn
  <2> QED
    BY <1>4, <1>5, <2>1, <2>2, <2>3
<1>8. ASSUME NEW o, Rank(o) # Cardinality(P)
      PROVE  Assigned(o)' = Assigned(o) /\ ParamAssigned(o)' = ParamAssigned(o)
  <2>1. Assigned(o)' = Assigned(o)
    BY <1>7, <1>8
  <2>2. Assigned(o) \in SUBSET Nat /\ Assigned(o) \subseteq 1 .. n
    BY <1>2, <1>7, PlacesAreNumbers
  <2>3. Assigned(o) # {} => Min(Assigned(o)) \in 1 .. n
    BY <2>2, LeastIsMin
  <2> QED
    BY <1>1, <2>1, <2>3 DEF ParamAssigned, ReadAs
<1>9. ASSUME NEW o, Rank(o) = Cardinality(P)
       PROVE  Assigned(o)' # {} /\ ParamAssigned(o)' = w
  <2>1. Assigned(o)' = {n + 1}
    <3>1. ~(Rank(o) < Cardinality(P))
      BY <1>3, <1>9
    <3>2. Assigned(o) = {}
      BY <1>7, <3>1
    <3> QED
      BY <1>7, <1>9, <3>2
  <2>2. Min({n + 1}) = n + 1
    <3>1. {n + 1} \in SUBSET Nat /\ {n + 1} # {}
      BY <1>2
    <3>2. Min({n + 1}) \in {n + 1}
      BY <3>1, LeastIsMin
    <3> QED
      BY <3>2
  <2> QED
    BY <1>1, <2>1, <2>2 DEF ParamAssigned, ReadAs
<1> QED
  BY <1>1, <1>6, <1>8, <1>9

\* The first option that has no value is the one whose turn it is.
LEMMA FirstUnset ==
  ASSUME OptInv, Unset # {}
  PROVE  LET f == MapOrder[Min(Unset)]
         IN  /\ f \in DOMAIN table /\ f.lead # "-" /\ Rank(f) = Cardinality(PlainPlaces)
             /\ \A o \in DOMAIN table : o.lead # "-" /\ o # f => Rank(o) # Rank(f)
<1>1. /\ Len(MapOrder) \in Nat /\ DOMAIN MapOrder = 1 .. Len(MapOrder)
      /\ \A i, j \in DOMAIN MapOrder : MapOrder[i] = MapOrder[j] => i = j
  BY NamesAssumption, LenProperties
<1>2. Unset \in SUBSET Nat
  BY <1>1 DEF Unset
<1>3. PICK k : k = Min(Unset)
  OBVIOUS
<1>4. PICK f : f = MapOrder[k]
  OBVIOUS
<1>5. /\ k \in DOMAIN MapOrder /\ f \in DOMAIN table /\ f.lead # "-" /\ ~table[f].isSet
      /\ \A i \in Unset : k <= i
  <2>1. k \in Unset /\ \A i \in Unset : k <= i
    BY <1>2, <1>3, LeastIsMin
  <2> QED
    BY <1>4, <2>1 DEF Unset
<1>6. PICK n \in Nat : n = Cardinality(PlainPlaces)
  BY PlainFinite DEF OptInv
<1>7. \A o : Rank(o) \in Nat /\ IsFiniteSet(Before(o))
  BY RankType
\* Those before it have their values.
<1>8. ASSUME NEW i \in DOMAIN MapOrder, i < k, MapOrder[i] \in DOMAIN table,
             MapOrder[i].lead # "-"
      PROVE  Rank(MapOrder[i]) < n
  <2>1. i \notin Unset
    BY <1>1, <1>5, <1>8
  <2>2. table[MapOrder[i]].isSet
    BY <1>8, <2>1 DEF Unset
  <2> QED
    BY <1>6, <1>8, <2>2, SetByRank
\* Being before is being at an earlier place.
<1>9. ASSUME NEW j \in DOMAIN MapOrder, NEW i
      PROVE  i \in Before(MapOrder[j]) <=>
               /\ i \in DOMAIN MapOrder /\ MapOrder[i] \in DOMAIN table
               /\ MapOrder[i].lead # "-" /\ i < j
  BY <1>1 DEF Before
<1>10. Rank(f) >= n
  BY <1>5, <1>6, <1>7, SetByRank
<1>11. Rank(f) <= n
  <2>1. CASE Before(f) = {}
    BY <1>6, <2>1, FS_EmptySet DEF Rank
  <2>2. CASE Before(f) # {}
    <3>1. Before(f) \subseteq 1 .. Len(MapOrder)
      BY <1>1 DEF Before
    <3>2. PICK m \in Before(f) : \A i \in Before(f) : i <= m
      BY <1>1, <2>2, <3>1, GreatestMember
    <3>3. /\ m \in DOMAIN MapOrder /\ MapOrder[m] \in DOMAIN table
          /\ MapOrder[m].lead # "-" /\ m < k
      BY <1>4, <1>5, <1>9
    <3>4. Rank(MapOrder[m]) < n
      BY <1>8, <3>3
    <3>5. Before(f) = Before(MapOrder[m]) \cup {m} /\ m \notin Before(MapOrder[m])
      <4>1. ASSUME NEW i PROVE i \in Before(f) <=> i \in Before(MapOrder[m]) \cup {m}
        <5>1. i \in Before(f) <=> /\ i \in DOMAIN MapOrder /\ MapOrder[i] \in DOMAIN table
                                  /\ MapOrder[i].lead # "-" /\ i < k
          BY <1>4, <1>5, <1>9
        <5>2. i \in Before(MapOrder[m]) <=>
                /\ i \in DOMAIN MapOrder /\ MapOrder[i] \in DOMAIN table
                /\ MapOrder[i].lead # "-" /\ i < m
          BY <1>9, <3>3
        <5> QED
          BY <1>1, <1>5, <3>2, <3>3, <5>1, <5>2
      <4>2. m \notin Before(MapOrder[m])
        BY <1>1, <1>9, <3>3
      <4> QED
        BY <4>1, <4>2
    <3>6. Rank(f) = Rank(MapOrder[m]) + 1
      BY <1>7, <3>5, FS_AddElement DEF Rank
    <3> QED
      BY <1>6, <1>7, <3>4, <3>6
  <2> QED
    BY <2>1, <2>2
<1>12. ASSUME NEW o \in DOMAIN table, o.lead # "-", o # f
       PROVE  Rank(o) # n
  <2>1. PICK j \in DOMAIN MapOrder : MapOrder[j] = o
    BY DEF OptInv, OptTypeOK, Names, ToSet
  <2>2. CASE j < k
    BY <1>6, <1>7, <1>8, <1>12, <2>1, <2>2
  <2>3. CASE k < j
    <3>1. Before(f) \cup {k} \subseteq Before(o) /\ k \notin Before(f)
      <4>1. ASSUME NEW i \in Before(f) PROVE i \in Before(o)
        BY <1>1, <1>4, <1>5, <1>9, <2>1, <2>3
      <4>2. k \in Before(o)
        BY <1>4, <1>5, <1>9, <2>1, <2>3
      <4>3. k \notin Before(f)
        BY <1>1, <1>4, <1>5, <1>9
      <4> QED
        BY <4>1, <4>2, <4>3
    <3>2. Cardinality(Before(f) \cup {k}) = Rank(f) + 1
      BY <1>7, <3>1, FS_AddElement DEF Rank
    <3>3. Rank(f) + 1 <= Rank(o)
      BY <1>7, <3>1, <3>2, FS_Subset DEF Rank
    <3> QED
      BY <1>6, <1>7, <1>10, <3>3
  <2> QED
    BY <1>1, <1>4, <1>5, <1>12, <2>1, <2>2, <2>3
<1> QED
  BY <1>3, <1>4, <1>5, <1>6, <1>7, <1>10, <1>11, <1>12

-----------------------------------------------------------------------------
(* The steps of parse().                                                   *)

\* What every step that reads one word starts from.
LEMMA FirstWord ==
  ASSUME OptInv, NEW lead, Reading(lead), Taking(1)
  PROVE  /\ pc = "parse" /\ args # <<>> /\ Head(args).lead = lead /\ Head(args) \in Words
         /\ args' \in Seq(Words) /\ taken' \in Seq(Words)
         /\ ReadAs(Head(args)) /\ Len(taken') = Len(taken) + 1
         /\ ~TakesParam(Head(args)) => OptionNext(taken')
<1>1. pc = "parse" /\ args # <<>> /\ Head(args).lead = lead
  BY DEF Reading
<1>2. OptTypeOK /\ taken \in Seq(Words) /\ OptionNext(taken)
  BY <1>1 DEF OptInv, PhaseInv, OptTypeOK
<1>3. /\ Head(args) \in Words /\ taken' = Append(taken, Head(args))
      /\ args' \in Seq(Words) /\ taken' \in Seq(Words)
  BY <1>1, <1>2, TakeOne
<1> QED
  BY <1>1, <1>2, <1>3, OneWordRead

\* The type of the options, when one of them gets a new entry, or none does.
LEMMA TypeSteps ==
  ASSUME OptInv, args' \in Seq(Words), taken' \in Seq(Words), UNCHANGED cmdline,
         pc' \in {"parse", "done"},
         \/ table' = table
         \/ \E o \in DOMAIN table, e \in Entry : table' = [table EXCEPT ![o] = e]
  PROVE  OptTypeOK' /\ DOMAIN table' = DOMAIN table
<1>1. CASE table' = table
  BY <1>1 DEF OptInv, OptTypeOK
<1>2. ASSUME NEW o \in DOMAIN table, NEW e \in Entry, table' = [table EXCEPT ![o] = e]
      PROVE  OptTypeOK' /\ DOMAIN table' = DOMAIN table
  BY <1>2 DEF OptInv, OptTypeOK
<1> QED
  BY <1>1, <1>2

\* Words at which parse() returns FALSE, and the names of files.
LEMMA TableKept ==
  ASSUME OptInv, pc = "parse", ReadAs(Head(args)), ~IsPlain(Head(args)), table' = table,
         Head(args).lead # "-" \/ Head(args) \notin DOMAIN table
  PROVE  DashInv' /\ PlainInv' /\ RankInv'
<1> DEFINE w == Head(args)
<1>1. DashInv'
  <2>1. ~(w.lead = "-" /\ w \in DOMAIN table)
    OBVIOUS
  <2> HIDE DEF w
  <2> QED
    BY <2>1, DashSteps DEF w
<1>2. PlainInv' /\ RankInv'
  BY NotPlainSteps
<1> QED
  BY <1>1, <1>2

LEMMA RefusedSteps ==
  ASSUME OptInv, UnknownOption \/ UnreadableFile
  PROVE  OptInv'
<1>1. PICK lead \in {"-", "@"} :
        /\ Reading(lead) /\ Taking(1) /\ pc' = "done" /\ UNCHANGED <<table, cmdline>>
        /\ lead = "-" => Head(args) \notin DOMAIN table
        /\ lead = "@" => Head(args).text \notin DOMAIN Files
  BY DEF UnknownOption, UnreadableFile, Return
<1>2. /\ pc = "parse" /\ args # <<>> /\ Head(args).lead = lead
      /\ args' \in Seq(Words) /\ taken' \in Seq(Words) /\ ReadAs(Head(args))
  BY <1>1, FirstWord
<1>3. OptTypeOK'
  BY <1>1, <1>2, TypeSteps
<1>4. DashInv' /\ PlainInv' /\ RankInv'
  BY <1>1, <1>2, TableKept DEF IsPlain
<1>5. FilesBehindCommandLine'
  BY <1>1, <1>2, FilesKept
<1>6. PhaseInv'
  BY <1>1 DEF PhaseInv
<1> QED
  BY <1>3, <1>4, <1>5, <1>6 DEF OptInv

\* An option with a dash that takes no further word: a flag, or the last word of all.
LEMMA DashAloneSteps ==
  ASSUME OptInv, Flag \/ MissingParam
  PROVE  OptInv'
<1>0. PICK w : w = Head(args)
  OBVIOUS
<1>1. /\ Reading("-") /\ Taking(1) /\ UNCHANGED cmdline /\ w \in DOMAIN table
      /\ table' = [table EXCEPT ![w].isSet = TRUE]
      /\ pc' = "done" \/ (pc' = pc /\ w \notin NeedsParam)
  BY <1>0 DEF Flag, MissingParam, Return, GoOn
<1>2. /\ pc = "parse" /\ args # <<>> /\ w.lead = "-" /\ w \in Words
      /\ args' \in Seq(Words) /\ taken' \in Seq(Words)
      /\ ReadAs(w) /\ Len(taken') = Len(taken) + 1
      /\ ~TakesParam(w) => OptionNext(taken')
  BY <1>0, <1>1, FirstWord
<1>3. PICK e \in Entry : /\ e.isSet /\ e.param = table[w].param
                         /\ table' = [table EXCEPT ![w] = e]
  <2>1. table[w] \in Entry
    BY <1>1 DEF OptInv, OptTypeOK
  <2>2. [table[w] EXCEPT !.isSet = TRUE] \in Entry
    BY <2>1 DEF Entry
  <2>3. [table[w] EXCEPT !.isSet = TRUE].isSet
        /\ [table[w] EXCEPT !.isSet = TRUE].param = table[w].param
    BY <2>1 DEF Entry
  <2>4. table' = [table EXCEPT ![w] = [table[w] EXCEPT !.isSet = TRUE]]
    BY <1>1
  <2> QED
    BY <2>2, <2>3, <2>4
<1>4. OptTypeOK' /\ DOMAIN table' = DOMAIN table
  BY <1>1, <1>2, <1>3, TypeSteps
<1>5. table'[w] = e /\ \A o \in DOMAIN table : o # w => table'[o] = table[o]
  BY <1>1, <1>3
\* It has no parameter that it did not have before.
<1>6. ParamRead(w)' = ParamRead(w)
  <2>1. CASE w \in NeedsParam
    <3>1. Params(w)' = {i + 1 : i \in Places(w)} \cap 1 .. Len(taken')
      <4>1. Places(w)' = Places(w) \cup {Len(taken) + 1}
        BY <1>2, PlacesGrow
      <4>2. (Len(taken) + 1) + 1 \notin 1 .. Len(taken')
        BY <1>2 DEF ReadAs
      <4> QED
        BY <4>1, <4>2 DEF Params
    <3> QED
      BY <1>2, <2>1, <3>1, ParamsKept DEF ParamRead
  <2>2. CASE w \notin NeedsParam
    BY <2>2 DEF ParamRead
  <2> QED
    BY <2>1, <2>2
<1>7. table[w].param = ParamRead(w)
  BY <1>1, <1>2 DEF OptInv, DashInv, ParamRead
<1>8. DashInv'
  BY <1>2, <1>3, <1>4, <1>5, <1>6, <1>7, DashSteps
<1>9. PlainInv' /\ RankInv'
  <2>1. ~IsPlain(w) /\ \A o \in DOMAIN table : o.lead # "-" => table'[o] = table[o]
    BY <1>2, <1>5 DEF IsPlain
  <2> QED
    BY <1>2, <1>4, <2>1, NotPlainSteps
<1>10. FilesBehindCommandLine'
  BY <1>0, <1>1, <1>2, FilesKept
<1>11. PhaseInv'
  BY <1>1, <1>2 DEF PhaseInv, TakesParam
<1> QED
  BY <1>4, <1>8, <1>9, <1>10, <1>11 DEF OptInv

\* An option with a dash and the word behind it.
LEMMA ParamSteps ==
  ASSUME OptInv, OptionWithParam
  PROVE  OptInv'
<1>0. PICK w, v : w = Head(args) /\ v = args[2]
  OBVIOUS
<1>1. /\ pc = "parse" /\ pc' = pc /\ UNCHANGED cmdline /\ w.lead = "-"
      /\ w \in DOMAIN table /\ w \in NeedsParam /\ Len(args) > 1 /\ Taking(2)
      /\ table' = [table EXCEPT ![w] = [isSet |-> TRUE, param |-> v]]
  BY <1>0 DEF OptionWithParam, Reading, GoOn
<1>2. OptTypeOK /\ taken \in Seq(Words) /\ OptionNext(taken) /\ TakesParam(w)
  BY <1>1 DEF OptInv, PhaseInv, OptTypeOK, TakesParam
<1>3. /\ w \in Words /\ v \in Words /\ args = <<w>> \o (<<v>> \o args')
      /\ taken' = Append(Append(taken, w), v) /\ args' \in Seq(Words) /\ taken' \in Seq(Words)
  BY <1>0, <1>1, <1>2, TakeTwo
<1>4. /\ ReadAs(w) /\ OptionNext(taken')
      /\ Len(taken') = Len(taken) + 2 /\ taken'[Len(taken) + 2] = v
  BY <1>2, <1>3, TwoWordsRead
<1>5. PICK e \in Entry : e.isSet /\ e.param = v /\ table' = [table EXCEPT ![w] = e]
  <2>1. [isSet |-> TRUE, param |-> v] \in Entry
    BY <1>3 DEF Entry
  <2> QED
    BY <1>1, <2>1
<1>6. OptTypeOK' /\ DOMAIN table' = DOMAIN table
  BY <1>1, <1>3, <1>5, TypeSteps
<1>7. table'[w] = e /\ \A o \in DOMAIN table : o # w => table'[o] = table[o]
  BY <1>1, <1>5
<1>8. ParamRead(w)' = v
  <2>1. PICK n \in Nat : n = Len(taken)
    BY <1>4 DEF ReadAs
  <2>2. Places(w)' = Places(w) \cup {n + 1} /\ Places(w) \subseteq 1 .. n
    <3>1. Places(w)' = Places(w) \cup {n + 1}
      BY <1>4, <2>1, PlacesGrow
    <3>2. Places(w) \subseteq OptionPlaces /\ OptionPlaces \subseteq 1 .. n
      BY <1>4, <2>1 DEF Places, ReadAs
    <3> QED
      BY <3>1, <3>2, PlacesAreNumbers
  <2>3. Params(w)' = {i + 1 : i \in Places(w)'} \cap 1 .. n + 2
    BY <1>4, <2>1 DEF Params
  <2>4. n + 2 \in Params(w)' /\ Params(w)' \subseteq 1 .. n + 2
    BY <2>2, <2>3
  <2>5. Max(Params(w)') = n + 2
    <3>1. /\ n + 2 \in Nat /\ Params(w)' # {} /\ \A i \in Params(w)' : i \in Nat /\ i <= n + 2
      BY <2>4
    <3>2. Max(Params(w)') \in Params(w)' /\ n + 2 <= Max(Params(w)')
      BY <2>4, <3>1, GreatestMember
    <3> QED
      BY <3>1, <3>2
  <2> QED
    BY <1>1, <1>4, <2>1, <2>4, <2>5 DEF ParamRead
<1>9. DashInv'
  BY <1>1, <1>4, <1>5, <1>6, <1>7, <1>8, DashSteps
<1>10. PlainInv' /\ RankInv'
  <2>1. ~IsPlain(w) /\ \A o \in DOMAIN table : o.lead # "-" => table'[o] = table[o]
    BY <1>1, <1>7 DEF IsPlain
  <2> QED
    BY <1>4, <1>6, <2>1, NotPlainSteps
<1>11. FilesBehindCommandLine'
  <2>1. PICK t : t = Append(taken, w)
    OBVIOUS
  <2>2. t \in Seq(Words) /\ taken' = Append(t, v) /\ <<w>> \in Seq(Words) /\ <<v>> \in Seq(Words)
    BY <1>2, <1>3, <2>1, AppendProperties
  <2>3. w.lead # "@" /\ ~OptionNext(t)
    <3>1. t # <<>> /\ Len(t) = Len(taken) + 1 /\ t[Len(taken) + 1] = w
      BY <1>2, <1>3, <2>1, AppendProperties
    <3>2. Len(taken) + 1 \in OptionPlacesOf(t)
      BY <1>2, <1>3, <2>1, GrammarAppend
    <3> QED
      BY <1>1, <1>2, <3>1, <3>2 DEF OptionNext
  <2>4. Brought(t) = Brought(taken) /\ Brought(taken) \in Seq(Words)
    <3>1. Brought(t) = Brought(taken) \o <<>> /\ Brought(taken) \in Seq(Words)
      BY <1>2, <1>3, <2>1, <2>3, BroughtAppend
    <3> QED
      BY <3>1, ConcatEmptySeq
  <2>5. Brought(taken') = Brought(taken)
    <3>1. Brought(taken') = Brought(t) \o <<>>
      BY <1>3, <2>2, <2>3, BroughtAppend
    <3> QED
      BY <2>4, <3>1, ConcatEmptySeq
  <2>6. taken' \o args' = taken \o args
    <3>1. t = taken \o <<w>> /\ taken' = t \o <<v>>
      BY <1>2, <1>3, <2>1, <2>2, AppendIsConcat
    <3>2. <<v>> \o args' \in Seq(Words)
      BY <1>3, <2>2, ConcatProperties
    <3>3. (t \o <<v>>) \o args' = t \o (<<v>> \o args')
      BY <1>3, <2>2, ConcatAssociative
    <3>4. (taken \o <<w>>) \o (<<v>> \o args') = taken \o (<<w>> \o (<<v>> \o args'))
      BY <1>2, <2>2, <3>2, ConcatAssociative
    <3> QED
      BY <1>3, <3>1, <3>3, <3>4
  <2>7. taken \o args = cmdline \o Brought(taken)
    BY <1>1 DEF OptInv, FilesBehindCommandLine
  <2> QED
    BY <1>1, <2>5, <2>6, <2>7 DEF FilesBehindCommandLine
<1>12. PhaseInv'
  BY <1>1, <1>4 DEF PhaseInv
<1> QED
  BY <1>6, <1>9, <1>10, <1>11, <1>12 DEF OptInv

\* A file comes behind all that waits.
LEMMA FileSteps ==
  ASSUME OptInv, OptionFile
  PROVE  OptInv'
<1>0. PICK w, r, x : w = Head(args) /\ r = Erase(1) /\ x = FileWords(w.text)
  OBVIOUS
<1>1. /\ pc = "parse" /\ args # <<>> /\ w.lead = "@" /\ w.text \in DOMAIN Files
      /\ args' = r \o x /\ taken' = Append(taken, w)
      /\ pc' = pc /\ UNCHANGED <<table, cmdline>>
  BY <1>0 DEF OptionFile, Reading, LoadFile, GoOn
<1>2. OptTypeOK /\ taken \in Seq(Words) /\ args \in Seq(Words) /\ OptionNext(taken)
  BY <1>1 DEF OptInv, PhaseInv, OptTypeOK
<1>3. /\ w \in Words /\ r \in Seq(Words) /\ args = <<w>> \o r /\ x \in Seq(Words)
      /\ <<w>> \in Seq(Words)
  <2>1. Len(args) \in Nat \ {0} /\ w = args[1]
    BY <1>0, <1>1, <1>2, EmptySeq
  <2>2. w \in Words /\ r = Tail(args) /\ r \in Seq(Words)
    BY <1>0, <1>1, <1>2, HeadTailProperties, TailIsSubSeq DEF Erase
  <2>3. SubSeq(args, 1, Len(args)) = <<args[1]>> \o SubSeq(args, 1 + 1, Len(args))
    <3>1. 1 \in 1 .. Len(args) /\ Len(args) \in 1 .. Len(args)
      BY <2>1
    <3> QED
      BY <1>2, <3>1, SubSeqRecursiveFirst
  <2>4. args = <<w>> \o r
    BY <1>0, <1>2, <2>1, <2>3, SubSeqFull DEF Erase
  <2> QED
    BY <1>0, <1>1, <2>2, <2>4, FileWordsType
<1>4. ReadAs(w) /\ OptionNext(taken') /\ taken' \in Seq(Words) /\ args' \in Seq(Words)
  <2>1. ~TakesParam(w)
    BY <1>1 DEF TakesParam
  <2> QED
    BY <1>1, <1>2, <1>3, <2>1, OneWordRead, AppendProperties, ConcatProperties
<1>5. OptTypeOK'
  BY <1>1, <1>4, TypeSteps
<1>6. DashInv' /\ PlainInv' /\ RankInv'
  <2>1. w.lead # "-" /\ ~IsPlain(w)
    BY <1>1 DEF IsPlain
  <2> QED
    BY <1>0, <1>1, <1>4, <2>1, TableKept
<1>7. FilesBehindCommandLine'
  <2>1. taken \o args = cmdline \o Brought(taken) /\ cmdline \in Seq(Words)
    BY <1>1 DEF OptInv, FilesBehindCommandLine, OptTypeOK
  <2>2. Brought(taken) \in Seq(Words) /\ Brought(taken') = Brought(taken) \o x
    BY <1>0, <1>1, <1>2, <1>3, BroughtAppend
  <2>3. taken' \o args' = (taken \o args) \o x
    <3>1. PICK y \in Seq(Words) : taken' = y /\ y = taken \o <<w>>
      BY <1>1, <1>2, <1>3, AppendIsConcat, ConcatProperties
    <3>2. (y \o r) \o x = y \o (r \o x)
      BY <1>3, ConcatAssociative
    <3>3. (taken \o <<w>>) \o r = taken \o (<<w>> \o r)
      BY <1>2, <1>3, ConcatAssociative
    <3> QED
      BY <1>1, <1>3, <3>1, <3>2, <3>3
  <2>4. (cmdline \o Brought(taken)) \o x = cmdline \o (Brought(taken) \o x)
    BY <1>3, <2>1, <2>2, ConcatAssociative
  <2> QED
    BY <2>1, <2>2, <2>3, <2>4, <1>1 DEF FilesBehindCommandLine
<1>8. PhaseInv'
  BY <1>1, <1>4 DEF PhaseInv
<1> QED
  BY <1>5, <1>6, <1>7, <1>8 DEF OptInv

\* A plain word goes to the first option without a dash that has no value, and when
\* there is none, to no option.
LEMMA PlainSteps ==
  ASSUME OptInv, PlainWord \/ Unassignable
  PROVE  OptInv'
<1>0. PICK w, f : w = Head(args) /\ f = MapOrder[Min(Unset)]
  OBVIOUS
<1>1. /\ Reading("") /\ Taking(1) /\ UNCHANGED cmdline
      /\ \/ /\ Unset # {} /\ pc' = pc
            /\ table' = [table EXCEPT ![f] = [isSet |-> TRUE, param |-> w]]
         \/ Unset = {} /\ pc' = "done" /\ table' = table
  BY <1>0 DEF PlainWord, Unassignable, Return, GoOn
<1>2. /\ pc = "parse" /\ args # <<>> /\ w.lead = "" /\ w \in Words
      /\ args' \in Seq(Words) /\ taken' \in Seq(Words) /\ ReadAs(w)
      /\ ~TakesParam(w) => OptionNext(taken')
  BY <1>0, <1>1, FirstWord
<1>3. w.lead # "-" /\ w.lead # "@" /\ IsPlain(w) /\ ~TakesParam(w)
  BY <1>2 DEF IsPlain, TakesParam
<1>4. Unset # {} => /\ f \in DOMAIN table /\ f.lead # "-" /\ Rank(f) = Cardinality(PlainPlaces)
                    /\ \A o \in DOMAIN table : o.lead # "-" /\ o # f => Rank(o) # Rank(f)
  BY <1>0, FirstUnset
<1>5. [isSet |-> TRUE, param |-> w] \in Entry
  BY <1>2 DEF Entry
<1>6. OptTypeOK' /\ DOMAIN table' = DOMAIN table
  <2>1. pc' \in {"parse", "done"}
    BY <1>1, <1>2
  <2> QED
    BY <1>1, <1>2, <1>4, <1>5, <2>1, TypeSteps
<1>7. \A o \in DOMAIN table : o.lead = "-" => table'[o] = table[o]
  BY <1>1, <1>4
<1>8. DashInv'
  BY <1>2, <1>3, <1>6, <1>7, DashSteps
<1>9. /\ RankInv'
      /\ \A o : /\ Rank(o) # Cardinality(PlainPlaces) =>
                     Assigned(o)' = Assigned(o) /\ ParamAssigned(o)' = ParamAssigned(o)
                /\ Rank(o) = Cardinality(PlainPlaces) =>
                     Assigned(o)' # {} /\ ParamAssigned(o)' = w
  BY <1>2, <1>3, <1>6, NextRank
<1>10. PlainInv'
  <2> SUFFICES ASSUME NEW o \in DOMAIN table, o.lead # "-"
               PROVE  /\ table'[o].isSet <=> Assigned(o)' # {}
                      /\ table'[o].param = ParamAssigned(o)'
    BY <1>6 DEF PlainInv, ParamAssigned
  <2>1. /\ table[o].isSet <=> Assigned(o) # {}
        /\ table[o].param = ParamAssigned(o)
    BY DEF OptInv, PlainInv, ParamAssigned
  <2>2. CASE Unset # {} /\ o = f
    <3>1. Assigned(o)' # {} /\ ParamAssigned(o)' = w
      BY <1>4, <1>9, <2>2
    <3>2. table'[o] = [isSet |-> TRUE, param |-> w]
      BY <1>1, <1>4, <2>2
    <3> QED
      BY <3>1, <3>2
  <2>3. CASE Unset # {} /\ o # f
    <3>1. Assigned(o)' = Assigned(o) /\ ParamAssigned(o)' = ParamAssigned(o)
      BY <1>4, <1>9, <2>3
    <3>2. table'[o] = table[o]
      BY <1>1, <2>3
    <3> QED
      BY <2>1, <3>1, <3>2
  <2>4. CASE Unset = {}
    <3>1. table[o].isSet
      BY <2>4 DEF Unset, OptInv, OptTypeOK, Names, ToSet
    <3>2. Rank(o) < Cardinality(PlainPlaces)
      BY <3>1, SetByRank
    <3>3. Rank(o) # Cardinality(PlainPlaces)
      <4>1. Rank(o) \in Nat /\ Cardinality(PlainPlaces) \in Nat
        BY RankType, PlainFinite DEF OptInv
      <4> QED
        BY <3>2, <4>1
    <3> QED
      BY <1>1, <1>9, <2>1, <2>4, <3>3
  <2> QED
    BY <2>2, <2>3, <2>4
<1>11. FilesBehindCommandLine'
  BY <1>0, <1>1, <1>2, <1>3, FilesKept
<1>12. PhaseInv'
  BY <1>1, <1>2, <1>3 DEF PhaseInv
<1> QED
  BY <1>6, <1>8, <1>9, <1>10, <1>11, <1>12 DEF OptInv

\* Steps that read nothing.
LEMMA IdleSteps ==
  ASSUME OptInv, UNCHANGED <<table, args, cmdline, taken>>,
         pc' = pc \/ (pc = "parse" /\ pc' = "done")
  PROVE  OptInv'
<1>1. UNCHANGED <<OptionPlaces, PlainPlaces>>
  BY DEF OptionPlaces, PlainPlaces
<1>2. \A o : UNCHANGED <<Places(o), Params(o), Assigned(o)>>
  BY <1>1 DEF Places, Params, Assigned, Before
<1>3. OptTypeOK' /\ PhaseInv' /\ FilesBehindCommandLine'
  BY DEF OptInv, OptTypeOK, PhaseInv, FilesBehindCommandLine
<1>4. DashInv' /\ PlainInv' /\ RankInv'
  BY <1>1, <1>2 DEF OptInv, DashInv, PlainInv, RankInv
<1> QED
  BY <1>3, <1>4 DEF OptInv

LEMMA OptSteps == OptInv /\ [Next]_vars => OptInv'
<1> SUFFICES ASSUME OptInv, [Next]_vars PROVE OptInv'
  OBVIOUS
<1>1. CASE \E o \in Names : RegisterOpt(o)
  BY <1>1, RegisterSteps
<1>2. CASE \E line \in CommandLines : Parse(line)
  BY <1>2, ParseSteps
<1>3. CASE UnknownOption \/ UnreadableFile
  BY <1>3, RefusedSteps
<1>4. CASE Flag \/ MissingParam
  BY <1>4, DashAloneSteps
<1>5. CASE OptionWithParam
  BY <1>5, ParamSteps
<1>6. CASE OptionFile
  BY <1>6, FileSteps
<1>7. CASE PlainWord \/ Unassignable
  BY <1>7, PlainSteps
<1>8. CASE CheckRequired
  BY <1>8, IdleSteps DEF CheckRequired, Return
<1>9. CASE UNCHANGED vars
  BY <1>9, IdleSteps DEF vars
<1> QED
  BY <1>1, <1>2, <1>3, <1>4, <1>5, <1>6, <1>7, <1>8, <1>9 DEF Next, ParseStep

LEMMA OptInductive == Spec => []OptInv
BY OptInitial, OptSteps, PTL DEF Spec

-----------------------------------------------------------------------------
(* What is guaranteed.                                                     *)

\* Whatever is registered and whatever the words and the files are, what was read and
\* what waits are the command line with the files behind it, so that no word is lost,
\* read twice or out of turn.
THEOREM WordsReadInTurn == Spec => []FilesBehindCommandLine
<1>1. OptInv => FilesBehindCommandLine
  BY DEF OptInv
<1> QED
  BY <1>1, OptInductive, PTL

\* At every moment the getters answer what the grammar says of the words read: the
\* last parameter of an option with a dash, and the plain words in the order of the
\* names of the others.
THEOREM GettersAnswerAsWritten == Spec => []OptionsAsWritten
<1>1. OptInv => OptionsAsWritten
  <2> SUFFICES ASSUME OptInv, NEW o \in DOMAIN table
               PROVE  IF o.lead = "-" THEN DashAsWritten(o) ELSE PlainAsWritten(o)
    BY DEF OptionsAsWritten
  <2>1. Get(Id[o]) = table[o].isSet /\ GetString(Id[o]) = table[o].param
    BY FoundById DEF OptInv
  <2>2. DOMAIN taken = 1 .. Len(taken)
    BY LenProperties DEF OptInv, OptTypeOK
  <2>3. CASE o.lead = "-"
    BY <2>1, <2>2, <2>3 DEF OptInv, DashInv, DashAsWritten, Params
  <2>4. CASE o.lead # "-"
    BY <2>1, <2>4 DEF OptInv, PlainInv, PlainAsWritten
  <2> QED
    BY <2>3, <2>4
<1> QED
  BY <1>1, OptInductive, PTL
=============================================================================
