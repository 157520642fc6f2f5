---- MODULE OutsideInputProofs ----
(***************************************************************************)
(* For every document, question and connection, and every value of the     *)
(* settings: what the functions that meet text from outside make of it.    *)
(* The document is a text whose letters are numbered in its order, and the *)
(* functions that cut it are each shown to keep that order, the letters    *)
(* and the size; loops are taken through by LoopKeeps of SelectionProofs.  *)
(***************************************************************************)
EXTENDS OutsideInputProperties, SelectionProofs

----
(* Chunks of a document. *)

(* The letters are numbered in the order of the document; a text is a part   *)
(* of it if its letters are in that order.                                   *)
Increasing(t) ==
    \A m, n \in DOMAIN t : m < n /\ t[m] \in Letters /\ t[n] \in Letters => t[m] < t[n]

Before(L, M) == \A a \in L, b \in M : a < b

AllLetters(P) == UNION {LettersOf(P[i]) : i \in DOMAIN P}

(* Pieces whose letters are in the order of the document. *)
InOrder(P) ==
    /\ P \in Seq(Texts)
    /\ \A i \in DOMAIN P : Increasing(P[i])
    /\ \A i, j \in DOMAIN P : i < j => Before(LettersOf(P[i]), LettersOf(P[j]))

(* No piece is blank or longer than a chunk may be. *)
Fit(P) == \A i \in DOMAIN P : ~Blank(P[i]) /\ Len(P[i]) <= chunk_size

LEMMA LettersAreNumbers == Letters \in SUBSET Int
  BY InputAssumption

LEMMA TextFacts ==
    ASSUME NEW t \in Texts
    PROVE  /\ Len(t) \in Nat /\ DOMAIN t = 1 .. Len(t)
           /\ \A i \in 1 .. Len(t) : t[i] \in Letters \cup {Space, NewLine, Stop}
  BY LenProperties, ElementOfSeq DEF Texts

LEMMA PiecesFacts ==
    ASSUME NEW P \in Seq(Texts)
    PROVE  Len(P) \in Nat /\ DOMAIN P = 1 .. Len(P) /\ \A i \in 1 .. Len(P) : P[i] \in Texts
<1> DEFINE S == Texts
<1>1. P \in Seq(S)
  OBVIOUS
<1> HIDE DEF S
<1>2. Len(P) \in Nat /\ DOMAIN P = 1 .. Len(P) /\ \A i \in 1 .. Len(P) : P[i] \in S
  BY <1>1, LenProperties, ElementOfSeq
<1> QED  BY <1>2 DEF S

LEMMA SolidLetters ==
    ASSUME NEW t, Blank(t)
    PROVE  LettersOf(t) = {}
  BY CharactersAssumption DEF Blank, LettersOf

LEMMA SubText ==
    ASSUME NEW t \in Texts, NEW lo \in Int, NEW hi \in Int, 1 <= lo, hi <= Len(t)
    PROVE  /\ SubSeq(t, lo, hi) \in Texts
           /\ Len(SubSeq(t, lo, hi)) = IF lo <= hi THEN hi - lo + 1 ELSE 0
           /\ DOMAIN SubSeq(t, lo, hi) = 1 .. hi - lo + 1
           /\ \A i \in 1 .. hi - lo + 1 : SubSeq(t, lo, hi)[i] = t[lo + i - 1]
           /\ Range(SubSeq(t, lo, hi)) = {t[i] : i \in lo .. hi}
           /\ LettersOf(SubSeq(t, lo, hi)) = {t[i] : i \in {j \in lo .. hi : t[j] \in Letters}}
           /\ Increasing(t) => Increasing(SubSeq(t, lo, hi))
<1> DEFINE u == SubSeq(t, lo, hi)
<1>1. \A i \in lo .. hi : i \in DOMAIN t /\ t[i] \in Letters \cup {Space, NewLine, Stop}
  BY TextFacts
<1>2. /\ u \in Texts /\ Len(u) = IF lo <= hi THEN hi - lo + 1 ELSE 0
      /\ \A i \in 1 .. hi - lo + 1 : u[i] = t[lo + i - 1]
  <2>1. \A i \in lo .. hi : t[i] \in Letters \cup {Space, NewLine, Stop}
    BY <1>1
  <2> QED  BY <2>1, SubSeqProperties DEF Texts
<1> HIDE DEF u
<1>3. DOMAIN u = 1 .. hi - lo + 1
  BY <1>2, TextFacts
<1>4. Range(u) = {t[i] : i \in lo .. hi}
  <2>1. \A i \in lo .. hi : i - lo + 1 \in DOMAIN u /\ u[i - lo + 1] = t[i]
    BY <1>2, <1>3
  <2>2. \A i \in DOMAIN u : lo + i - 1 \in lo .. hi /\ u[i] = t[lo + i - 1]
    BY <1>2, <1>3
  <2>3. Range(u) = {u[i] : i \in DOMAIN u}
    BY DEF Range
  <2>4. \A c \in Range(u) : c \in {t[i] : i \in lo .. hi}
    BY <2>2, <2>3
  <2>5. \A c \in {t[i] : i \in lo .. hi} : c \in Range(u)
    <3> SUFFICES ASSUME NEW i \in lo .. hi  PROVE t[i] \in Range(u)
      OBVIOUS
    <3>1. i - lo + 1 \in DOMAIN u /\ u[i - lo + 1] = t[i]
      BY <2>1
    <3> QED  BY <2>3, <3>1
  <2> QED  BY <2>4, <2>5
<1>5. LettersOf(u) = {t[i] : i \in {j \in lo .. hi : t[j] \in Letters}}
  BY <1>4 DEF LettersOf
<1>6. ASSUME Increasing(t), NEW m \in DOMAIN u, NEW n \in DOMAIN u, m < n,
             u[m] \in Letters, u[n] \in Letters
      PROVE  u[m] < u[n]
  <2>1. /\ u[m] = t[lo + m - 1] /\ u[n] = t[lo + n - 1]
        /\ lo + m - 1 \in DOMAIN t /\ lo + n - 1 \in DOMAIN t /\ lo + m - 1 < lo + n - 1
    BY <1>1, <1>2, <1>3, <1>6
  <2> QED  BY <1>6, <2>1 DEF Increasing
<1>7. Increasing(t) => Increasing(u)
  BY <1>6 DEF Increasing
<1> QED  BY <1>2, <1>3, <1>4, <1>5, <1>7 DEF u

LEMMA StripKeeps ==
    ASSUME NEW t \in Texts
    PROVE  /\ Strip(t) \in Texts /\ Len(Strip(t)) <= Len(t)
           /\ LettersOf(Strip(t)) = LettersOf(t)
           /\ Increasing(t) => Increasing(Strip(t))
           /\ Strip(t) = <<>> <=> Blank(t)
           /\ Strip(t) # <<>> => ~Blank(Strip(t))
<1> DEFINE solid == {i \in DOMAIN t : t[i] \notin {Space, NewLine}}
<1>1. Len(t) \in Nat /\ DOMAIN t = 1 .. Len(t)
  BY TextFacts
<1>2. \A i \in DOMAIN t : t[i] \in Letters => i \in solid
  BY CharactersAssumption
<1>3. solid = {} <=> Blank(t)
  BY DEF Blank, Range
<1>4. CASE solid = {}
  <2>1. Strip(t) = <<>>
    BY <1>4 DEF Strip
  <2>2. LettersOf(<<>>) = {} /\ LettersOf(t) = {} /\ Increasing(<<>>)
    BY <1>3, <1>4, SolidLetters DEF LettersOf, Range, Increasing
  <2>3. <<>> \in Texts /\ Len(<<>>) = 0
    BY EmptySeq DEF Texts
  <2> QED  BY <1>1, <1>3, <1>4, <2>1, <2>2, <2>3
<1>5. CASE solid # {}
  <2>1. solid \in SUBSET Nat /\ solid \in SUBSET (1 .. Len(t))
    BY <1>1
  <2>2. \E lo \in solid : \A i \in solid : lo <= i
    <3> HIDE DEF solid
    <3> QED  BY <1>5, <2>1, LeastNat
  <2>3. \E hi \in solid : \A i \in solid : hi >= i
    <3> DEFINE left == {Len(t) - i : i \in solid}
    <3>1. left \in SUBSET Nat /\ left # {}
      <4>1. \A i \in solid : Len(t) - i \in Nat
        BY <1>1, <2>1
      <4> HIDE DEF solid
      <4> QED  BY <1>5, <4>1
    <3>2. PICK n \in left : \A m \in left : n <= m
      <4> HIDE DEF left
      <4> QED  BY <3>1, LeastNat
    <3> HIDE DEF solid
    <3>3. PICK hi \in solid : n = Len(t) - hi
      BY <3>2
    <3>4. \A i \in solid : hi >= i
      <4> SUFFICES ASSUME NEW i \in solid  PROVE hi >= i
        OBVIOUS
      <4>1. n <= Len(t) - i
        BY <3>2
      <4> QED  BY <1>1, <2>1, <3>3, <4>1
    <3> QED  BY <3>4
  <2> DEFINE lo == Min(solid)
             hi == Max(solid)
  <2>4. lo \in solid /\ hi \in solid /\ \A i \in solid : lo <= i /\ i <= hi
    <3>1. lo \in solid /\ \A i \in solid : lo <= i
      <4> HIDE DEF solid
      <4> QED  BY <2>2 DEF Min
    <3>2. hi \in solid /\ \A i \in solid : hi >= i
      <4> HIDE DEF solid
      <4> QED  BY <2>3 DEF Max
    <3>3. \A i \in solid : i <= hi
      <4> HIDE DEF solid, hi
      <4> QED  BY <2>1, <3>2
    <3> QED  BY <3>1, <3>2, <3>3
  <2>5. Strip(t) = SubSeq(t, lo, hi)
    BY <1>5 DEF Strip
  <2>6. lo \in Int /\ hi \in Int /\ 1 <= lo /\ hi <= Len(t) /\ lo <= hi
    <3> HIDE DEF solid, lo, hi
    <3> QED  BY <1>1, <2>1, <2>4
  <2>7. solid \subseteq lo .. hi
    <3> HIDE DEF solid, lo, hi
    <3> QED  BY <2>1, <2>4, <2>6
  <2> HIDE DEF lo, hi
  <2>8. /\ Strip(t) \in Texts /\ Len(Strip(t)) = hi - lo + 1
        /\ Range(Strip(t)) = {t[i] : i \in lo .. hi}
        /\ LettersOf(Strip(t)) = {t[i] : i \in {j \in lo .. hi : t[j] \in Letters}}
        /\ Increasing(t) => Increasing(Strip(t))
    BY <2>5, <2>6, SubText
  <2>9. LettersOf(Strip(t)) = LettersOf(t)
    <3>1. LettersOf(t) = {t[i] : i \in {j \in DOMAIN t : t[j] \in Letters}}
      BY DEF LettersOf, Range
    <3>2. \A j \in DOMAIN t : t[j] \in Letters => j \in lo .. hi
      BY <1>2, <2>7
    <3>3. \A j \in lo .. hi : j \in DOMAIN t
      BY <1>1, <2>6
    <3> QED  BY <2>8, <3>1, <3>2, <3>3
  <2>10. ~Blank(Strip(t))
    BY <2>4, <2>6, <2>8 DEF Blank
  <2>11. Strip(t) # <<>> /\ Len(Strip(t)) <= Len(t)
    BY <1>1, <2>6, <2>8, EmptySeq
  <2> QED  BY <1>3, <1>5, <2>8, <2>9, <2>10, <2>11
<1> QED  BY <1>4, <1>5

(* A text without some characters that are no letters. *)
LEMMA SelectedText ==
    ASSUME NEW t \in Texts, Increasing(t),
           NEW S \in SUBSET DOMAIN t, \A i \in DOMAIN t : t[i] \in Letters => i \in S
    PROVE  /\ Selected(t, S) \in Texts /\ Increasing(Selected(t, S))
           /\ LettersOf(Selected(t, S)) = LettersOf(t)
<1> DEFINE u == Selected(t, S)
           size == Cardinality(S)
<1>1. Len(t) \in Nat /\ DOMAIN t = 1 .. Len(t)
  BY TextFacts
<1>2. S \in SUBSET Nat /\ IsFiniteSet(S)
  <2>1. IsFiniteSet(1 .. Len(t)) /\ S \in SUBSET (1 .. Len(t))
    BY <1>1, FS_Interval
  <2> QED  BY <1>1, <2>1, FS_Subset
<1>3. \A i \in S : t[i] \in Letters \cup {Space, NewLine, Stop}
  BY <1>1, TextFacts
<1>4. /\ size \in Nat /\ u \in Texts /\ Len(u) = size
      /\ \A n \in 1 .. size : Nth(S, n) \in S /\ u[n] = t[Nth(S, n)]
      /\ Range(u) = {t[i] : i \in S}
  BY <1>2, <1>3, SelectedMembers DEF Texts
<1>5. DOMAIN u = 1 .. size
  <2> HIDE DEF u, size
  <2> QED  BY <1>4, TextFacts
<1>6. ASSUME NEW m \in 1 .. size, NEW n \in 1 .. size, m < n, u[m] \in Letters, u[n] \in Letters
      PROVE  u[m] < u[n]
  <2>1. Nth(S, m) < Nth(S, n)
    BY <1>2, <1>6, NthOrder
  <2>2. Nth(S, m) \in DOMAIN t /\ Nth(S, n) \in DOMAIN t
        /\ u[m] = t[Nth(S, m)] /\ u[n] = t[Nth(S, n)]
    BY <1>4
  <2> QED  BY <1>6, <2>1, <2>2 DEF Increasing
<1>7. Increasing(u)
  <2> HIDE DEF u, size
  <2> QED  BY <1>5, <1>6 DEF Increasing
<1>8. LettersOf(u) = LettersOf(t)
  <2>1. Range(u) \cap Letters = Range(t) \cap Letters
    <3> HIDE DEF u
    <3> QED  BY <1>4 DEF Range
  <2> QED  BY <2>1 DEF LettersOf
<1> QED  BY <1>4, <1>7, <1>8

LEMMA NormalizedKeeps ==
    ASSUME NEW t \in Texts, Increasing(t)
    PROVE  /\ Normalized(t) \in Texts /\ Increasing(Normalized(t))
           /\ LettersOf(Normalized(t)) = LettersOf(t)
<1> DEFINE line == Strip(t)
           Third(i) == i > 2 /\ \A j \in i - 2 .. i : line[j] = NewLine
           S == {i \in DOMAIN line : ~Third(i)}
<1>1. line \in Texts /\ Increasing(line) /\ LettersOf(line) = LettersOf(t)
  BY StripKeeps
<1>2. Normalized(t) = Selected(line, S)
  BY DEF Normalized
<1> HIDE DEF line
<1>3. ASSUME NEW i \in DOMAIN line, line[i] \in Letters  PROVE i \in S
  <2>1. line[i] # NewLine
    BY <1>3, CharactersAssumption
  <2>2. i \in Nat
    BY <1>1, TextFacts
  <2> QED  BY <2>1, <2>2
<1>4. S \in SUBSET DOMAIN line
  OBVIOUS
<1> HIDE DEF S
<1> QED  BY <1>1, <1>2, <1>3, <1>4, SelectedText

(* No three newlines are left in a row, so that two places of the separator  *)
(* of paragraphs never overlap, and where str.split finds it is where it is  *)
(* (Occurrences; re.sub in RagService.split_into_chunks).                    *)
THEOREM NewlinesCollapsed ==
    ASSUME NEW t \in Texts, NEW n \in 1 .. Len(Normalized(t)) - 2
    PROVE  \E k \in n .. n + 2 : Normalized(t)[k] # NewLine
<1> DEFINE line == Strip(t)
           Third(i) == i > 2 /\ \A j \in i - 2 .. i : line[j] = NewLine
           S == {i \in DOMAIN line : ~Third(i)}
           T == Letters \cup {Space, NewLine, Stop}
           normal == Selected(line, S)
<1>1. normal = Normalized(t)
  BY DEF Normalized
<1>2. line \in Texts
  BY StripKeeps
<1> HIDE DEF line
<1>3. Len(line) \in Nat /\ DOMAIN line = 1 .. Len(line) /\ \A i \in DOMAIN line : line[i] \in T
  BY <1>2, TextFacts
<1>4. \A i \in DOMAIN line : i \notin S => line[i] = NewLine
  BY <1>3
<1>5. \A i \in S : i \in Nat \ {0} /\ (i > 2 => \E j \in i - 2 .. i : line[j] # NewLine)
  BY <1>3
<1>6. S \in SUBSET (1 .. Len(line))
  BY <1>3
<1> HIDE DEF S, T
<1>7. S \in SUBSET Nat /\ IsFiniteSet(S)
  <2>1. IsFiniteSet(1 .. Len(line))
    BY <1>3, FS_Interval
  <2>2. IsFiniteSet(S)
    BY <1>6, <2>1, FS_Subset
  <2> QED  BY <1>6, <2>2
<1>8. \A i \in S : line[i] \in T
  BY <1>3, <1>6
<1>9. /\ Cardinality(S) \in Nat /\ normal \in Seq(T) /\ Len(normal) = Cardinality(S)
      /\ \A k \in 1 .. Cardinality(S) : Nth(S, k) \in S /\ normal[k] = line[Nth(S, k)]
  <2>1. normal \in Seq(T) /\ Len(normal) = Cardinality(S)
    BY <1>7, <1>8, SelectedMembers
  <2>2. Cardinality(S) \in Nat
    BY <1>7, FS_CardinalityType
  <2>3. \A k \in 1 .. Cardinality(S) : Nth(S, k) \in S
    BY <1>7, NthMember
  <2>4. \A k \in 1 .. Cardinality(S) : normal[k] = line[Nth(S, k)]
    BY DEF Selected
  <2> QED  BY <2>1, <2>2, <2>3, <2>4
<1> HIDE DEF normal
<1>10. SUFFICES ASSUME \A k \in n .. n + 2 : normal[k] = NewLine  PROVE FALSE
  BY <1>1
<1>11. n \in 1 .. Cardinality(S) - 1 /\ n + 1 \in 1 .. Cardinality(S) - 1 /\ n + 2 \in 1 .. Cardinality(S)
       /\ n + 1 + 1 = n + 2
  BY <1>1, <1>9
<1> DEFINE p == Nth(S, n)  q == Nth(S, n + 1)  r == Nth(S, n + 2)
<1>12. /\ p \in S /\ q \in S /\ r \in S
       /\ line[p] = NewLine /\ line[q] = NewLine /\ line[r] = NewLine
  <2>1. n \in 1 .. Cardinality(S) /\ n + 1 \in 1 .. Cardinality(S)
    BY <1>9, <1>11
  <2>2. normal[n] = NewLine /\ normal[n + 1] = NewLine /\ normal[n + 2] = NewLine
    BY <1>9, <1>10, <1>11
  <2> QED  BY <1>9, <1>11, <2>1, <2>2
<1>13. p < q /\ q < r
  BY <1>7, <1>9, <1>11, NthOrder
<1>14. \A i \in S : p < i => q <= i
  BY <1>7, <1>11, NthNext
<1>15. \A i \in S : q < i => r <= i
  BY <1>7, <1>11, NthNext
<1> HIDE DEF p, q, r
<1>16. p \in Nat \ {0} /\ q \in Nat /\ r \in Nat /\ r > 2
  BY <1>5, <1>12, <1>13
<1>17. ASSUME NEW j \in r - 2 .. r  PROVE line[j] = NewLine
  <2>1. p <= j /\ j <= r /\ j \in 1 .. Len(line)
    BY <1>3, <1>6, <1>12, <1>13, <1>16
  <2>2. CASE j \in S
    <3>1. j = p \/ j = q \/ j = r
      BY <1>14, <1>15, <1>16, <2>1, <2>2
    <3> QED  BY <1>12, <3>1
  <2>3. CASE j \notin S
    BY <1>3, <1>4, <2>1, <2>3
  <2> QED  BY <2>2, <2>3
<1> QED  BY <1>5, <1>12, <1>16, <1>17

LEMMA ConcatText ==
    ASSUME NEW u \in Texts, NEW v \in Texts, Increasing(u), Increasing(v),
           Before(LettersOf(u), LettersOf(v))
    PROVE  /\ u \o v \in Texts /\ Len(u \o v) = Len(u) + Len(v)
           /\ Increasing(u \o v)
           /\ LettersOf(u \o v) = LettersOf(u) \cup LettersOf(v)
           /\ ~Blank(u) \/ ~Blank(v) => ~Blank(u \o v)
<1> DEFINE w == u \o v
<1>1. /\ Len(u) \in Nat /\ DOMAIN u = 1 .. Len(u)
      /\ Len(v) \in Nat /\ DOMAIN v = 1 .. Len(v)
  BY TextFacts
<1>2. /\ w \in Texts /\ Len(w) = Len(u) + Len(v)
      /\ \A i \in 1 .. Len(u) + Len(v) : w[i] = IF i <= Len(u) THEN u[i] ELSE v[i - Len(u)]
  BY ConcatProperties DEF Texts
<1>3. Range(w) = Range(u) \cup Range(v)
  BY RangeConcatenation DEF Texts
<1> HIDE DEF w
<1>4. DOMAIN w = 1 .. Len(u) + Len(v)
  BY <1>2, TextFacts
<1>5. ASSUME NEW m \in DOMAIN w, NEW n \in DOMAIN w, m < n, w[m] \in Letters, w[n] \in Letters
      PROVE  w[m] < w[n]
  <2>1. CASE n <= Len(u)
    <3>1. m \in DOMAIN u /\ n \in DOMAIN u /\ w[m] = u[m] /\ w[n] = u[n]
      BY <1>1, <1>2, <1>4, <1>5, <2>1
    <3> QED  BY <1>5, <3>1 DEF Increasing
  <2>2. CASE Len(u) < m
    <3>1. /\ m - Len(u) \in DOMAIN v /\ n - Len(u) \in DOMAIN v /\ m - Len(u) < n - Len(u)
          /\ w[m] = v[m - Len(u)] /\ w[n] = v[n - Len(u)]
      BY <1>1, <1>2, <1>4, <1>5, <2>2
    <3> QED  BY <1>5, <3>1 DEF Increasing
  <2>3. CASE m <= Len(u) /\ Len(u) < n
    <3>1. m \in DOMAIN u /\ n - Len(u) \in DOMAIN v /\ w[m] = u[m] /\ w[n] = v[n - Len(u)]
      BY <1>1, <1>2, <1>4, <2>3
    <3>2. w[m] \in LettersOf(u) /\ w[n] \in LettersOf(v)
      BY <1>5, <3>1 DEF LettersOf, Range
    <3> QED  BY <3>2 DEF Before
  <2> QED  BY <1>1, <1>4, <2>1, <2>2, <2>3
<1>6. Increasing(w)
  BY <1>5 DEF Increasing
<1>7. LettersOf(w) = LettersOf(u) \cup LettersOf(v)
  BY <1>3 DEF LettersOf
<1>8. ~Blank(u) \/ ~Blank(v) => ~Blank(w)
  BY <1>3 DEF Blank
<1> QED  BY <1>2, <1>6, <1>7, <1>8 DEF w

----
(* Pieces of a text. *)

(* Pieces that are cut from a text one after the other and leave no letter.  *)
LEMMA SlicesKeep ==
    ASSUME NEW t \in Texts, Increasing(t), NEW n \in Nat,
           NEW lo \in [1 .. n -> Int], NEW hi \in [1 .. n -> Int],
           \A k \in 1 .. n : 1 <= lo[k] /\ hi[k] <= Len(t),
           \A k, l \in 1 .. n : k < l => hi[k] < lo[l],
           \A i \in DOMAIN t : t[i] \in Letters => \E k \in 1 .. n : lo[k] <= i /\ i <= hi[k]
    PROVE  LET P == [k \in 1 .. n |-> SubSeq(t, lo[k], hi[k])]
           IN  InOrder(P) /\ Len(P) = n /\ AllLetters(P) = LettersOf(t)
<1> DEFINE P == [k \in 1 .. n |-> SubSeq(t, lo[k], hi[k])]
<1>1. Len(t) \in Nat /\ DOMAIN t = 1 .. Len(t)
  BY TextFacts
<1>2. ASSUME NEW k \in 1 .. n
      PROVE  /\ P[k] \in Texts /\ Increasing(P[k])
             /\ LettersOf(P[k]) = {t[i] : i \in {j \in lo[k] .. hi[k] : t[j] \in Letters}}
             /\ lo[k] .. hi[k] \subseteq DOMAIN t
  <2>1. lo[k] \in Int /\ hi[k] \in Int /\ 1 <= lo[k] /\ hi[k] <= Len(t)
    OBVIOUS
  <2>2. P[k] = SubSeq(t, lo[k], hi[k])
    OBVIOUS
  <2> DEFINE a == lo[k]
             b == hi[k]
  <2>3. a \in Int /\ b \in Int /\ 1 <= a /\ b <= Len(t) /\ P[k] = SubSeq(t, a, b)
    BY <2>1, <2>2
  <2> HIDE DEF P, a, b
  <2>4. /\ SubSeq(t, a, b) \in Texts /\ Increasing(SubSeq(t, a, b))
        /\ LettersOf(SubSeq(t, a, b)) = {t[i] : i \in {j \in a .. b : t[j] \in Letters}}
    <3>1. SubSeq(t, a, b) \in Texts /\ (Increasing(t) => Increasing(SubSeq(t, a, b)))
      BY <2>3, SubText
    <3>2. LettersOf(SubSeq(t, a, b)) = {t[i] : i \in {j \in a .. b : t[j] \in Letters}}
      BY <2>3, SubText
    <3> QED  BY <3>1, <3>2
  <2>5. a .. b \subseteq DOMAIN t
    BY <1>1, <2>3
  <2> QED  BY <2>3, <2>4, <2>5 DEF a, b
<1>3. P \in Seq(Texts) /\ Len(P) = n /\ DOMAIN P = 1 .. n
  <2> DEFINE S == Texts
  <2>1. P \in [1 .. n -> S] /\ DOMAIN P = 1 .. n
    BY <1>2
  <2>2. P \in Seq(S) /\ Len(P) = n
    <3> HIDE DEF P, S
    <3>1. P \in Seq(S)
      BY <2>1, SeqDef
    <3> QED  BY <2>1, <3>1, LenProperties
  <2> QED  BY <2>1, <2>2
<1> HIDE DEF P
<1>4. ASSUME NEW k \in 1 .. n, NEW l \in 1 .. n, k < l,
             NEW a \in LettersOf(P[k]), NEW b \in LettersOf(P[l])
      PROVE  a < b
  <2>0. /\ LettersOf(P[k]) = {t[i] : i \in {j \in lo[k] .. hi[k] : t[j] \in Letters}}
        /\ LettersOf(P[l]) = {t[i] : i \in {j \in lo[l] .. hi[l] : t[j] \in Letters}}
    BY <1>2
  <2>1. PICK i \in lo[k] .. hi[k] : a = t[i] /\ t[i] \in Letters
    BY <1>4, <2>0
  <2>2. PICK j \in lo[l] .. hi[l] : b = t[j] /\ t[j] \in Letters
    BY <1>4, <2>0
  <2>3. i < j /\ i \in DOMAIN t /\ j \in DOMAIN t
    <3>1. hi[k] < lo[l] /\ i <= hi[k] /\ lo[l] <= j /\ i \in Int /\ j \in Int
          /\ hi[k] \in Int /\ lo[l] \in Int
      BY <1>4
    <3> QED  BY <1>2, <3>1
  <2> QED  BY <2>1, <2>2, <2>3 DEF Increasing
<1>5. InOrder(P)
  BY <1>2, <1>3, <1>4 DEF InOrder, Before
<1>6. AllLetters(P) = LettersOf(t)
  <2>1. ASSUME NEW k \in 1 .. n  PROVE LettersOf(P[k]) \subseteq LettersOf(t)
    BY <1>2 DEF LettersOf, Range
  <2>2. ASSUME NEW a \in LettersOf(t)  PROVE \E k \in 1 .. n : a \in LettersOf(P[k])
    <3>1. PICK i \in DOMAIN t : a = t[i] /\ t[i] \in Letters
      BY DEF LettersOf, Range
    <3>2. PICK k \in 1 .. n : lo[k] <= i /\ i <= hi[k]
      BY <3>1
    <3>3. i \in lo[k] .. hi[k]
      BY <1>1, <3>2
    <3> QED  BY <1>2, <3>1, <3>3
  <2> QED  BY <1>3, <2>1, <2>2 DEF AllLetters
<1> QED  BY <1>3, <1>5, <1>6 DEF P

(* Pieces whose letters stay. *)
LEMMA MapKeeps ==
    ASSUME NEW P, InOrder(P), NEW Q \in [DOMAIN P -> Texts],
           \A k \in DOMAIN P : Increasing(Q[k]) /\ LettersOf(Q[k]) = LettersOf(P[k])
    PROVE  InOrder(Q) /\ Len(Q) = Len(P) /\ AllLetters(Q) = AllLetters(P)
<1>1. Len(P) \in Nat /\ DOMAIN P = 1 .. Len(P)
  BY PiecesFacts DEF InOrder
<1>2. DOMAIN Q = 1 .. Len(P) /\ Q \in Seq(Texts) /\ Len(Q) = Len(P)
  <2> DEFINE S == Texts
             n == Len(P)
  <2>1. Q \in [1 .. n -> S] /\ n \in Nat
    BY <1>1
  <2> HIDE DEF S, n
  <2>2. Q \in Seq(S)
    BY <2>1, SeqDef
  <2>3. Len(Q) = n /\ DOMAIN Q = 1 .. n
    BY <2>1, <2>2, LenProperties
  <2> QED  BY <2>2, <2>3 DEF S, n
<1> QED  BY <1>1, <1>2 DEF InOrder, AllLetters

(* Pieces without some that have no letter. *)
LEMMA DropKeeps ==
    ASSUME NEW P, InOrder(P), NEW S \in SUBSET DOMAIN P,
           \A k \in DOMAIN P : LettersOf(P[k]) # {} => k \in S
    PROVE  /\ InOrder(Selected(P, S)) /\ AllLetters(Selected(P, S)) = AllLetters(P)
           /\ Len(Selected(P, S)) = Cardinality(S)
           /\ \A n \in DOMAIN Selected(P, S) : \E k \in S : Selected(P, S)[n] = P[k]
<1> DEFINE Q == Selected(P, S)
           size == Cardinality(S)
<1>1. P \in Seq(Texts) /\ Len(P) \in Nat /\ DOMAIN P = 1 .. Len(P) /\ \A k \in DOMAIN P : P[k] \in Texts
  BY PiecesFacts DEF InOrder
<1>2. S \in SUBSET Nat /\ IsFiniteSet(S)
  <2>1. IsFiniteSet(1 .. Len(P)) /\ S \in SUBSET (1 .. Len(P))
    BY <1>1, FS_Interval
  <2> QED  BY <1>1, <2>1, FS_Subset
<1>3. /\ size \in Nat /\ Q \in Seq(Texts) /\ Len(Q) = size
      /\ \A n \in 1 .. size : Nth(S, n) \in S /\ Q[n] = P[Nth(S, n)]
      /\ \A k \in S : Rank(S, k) \in 1 .. size /\ Nth(S, Rank(S, k)) = k
  <2> DEFINE T == Texts
  <2>1. \A k \in S : P[k] \in T
    BY <1>1
  <2>2. /\ size \in Nat /\ Q \in Seq(T) /\ Len(Q) = size
        /\ \A n \in 1 .. size : Nth(S, n) \in S /\ Q[n] = P[Nth(S, n)]
        /\ \A k \in S : Rank(S, k) \in 1 .. size /\ Nth(S, Rank(S, k)) = k
        /\ Range(Q) = {P[k] : k \in S}
    <3> HIDE DEF T
    <3> QED  BY <1>2, <2>1, SelectedMembers
  <2> QED  BY <2>2
<1>4. DOMAIN Q = 1 .. size
  <2> HIDE DEF Q, size
  <2> QED  BY <1>3, PiecesFacts
<1>5. \A m, n \in 1 .. size : m < n => Nth(S, m) < Nth(S, n)
  BY <1>2, NthOrder
<1> HIDE DEF Q, size
<1>6. InOrder(Q)
  <2>1. \A n \in 1 .. size : Increasing(Q[n])
    BY <1>3 DEF InOrder
  <2>2. \A m, n \in 1 .. size : m < n => Before(LettersOf(Q[m]), LettersOf(Q[n]))
    BY <1>3, <1>5 DEF InOrder
  <2> QED  BY <1>3, <1>4, <2>1, <2>2 DEF InOrder
<1>7. AllLetters(Q) = AllLetters(P)
  <2>1. \A n \in 1 .. size : \E k \in DOMAIN P : LettersOf(Q[n]) = LettersOf(P[k])
    BY <1>3
  <2>2. ASSUME NEW k \in DOMAIN P, LettersOf(P[k]) # {}
        PROVE  \E n \in 1 .. size : Q[n] = P[k]
    <3>1. k \in S
      BY <2>2
    <3>2. Rank(S, k) \in 1 .. size /\ Q[Rank(S, k)] = P[k]
      BY <1>3, <3>1
    <3> QED  BY <3>2
  <2> QED  BY <1>4, <2>1, <2>2 DEF AllLetters
<1>8. \A n \in DOMAIN Q : \E k \in S : Q[n] = P[k]
  BY <1>3, <1>4
<1> QED  BY <1>3, <1>6, <1>7, <1>8 DEF Q, size

LEMMA ConcatKeeps ==
    ASSUME NEW A, NEW B, InOrder(A), InOrder(B), Before(AllLetters(A), AllLetters(B))
    PROVE  /\ InOrder(A \o B) /\ AllLetters(A \o B) = AllLetters(A) \cup AllLetters(B)
           /\ Fit(A) /\ Fit(B) => Fit(A \o B)
<1> DEFINE C == A \o B
<1>1. /\ Len(A) \in Nat /\ DOMAIN A = 1 .. Len(A) /\ A \in Seq(Texts)
      /\ Len(B) \in Nat /\ DOMAIN B = 1 .. Len(B) /\ B \in Seq(Texts)
  BY PiecesFacts DEF InOrder
<1>2. /\ C \in Seq(Texts) /\ Len(C) = Len(A) + Len(B)
      /\ \A i \in 1 .. Len(A) + Len(B) : C[i] = IF i <= Len(A) THEN A[i] ELSE B[i - Len(A)]
  <2> DEFINE T == Texts
  <2>1. A \in Seq(T) /\ B \in Seq(T)
    BY <1>1
  <2>2. /\ C \in Seq(T) /\ Len(C) = Len(A) + Len(B)
        /\ \A i \in 1 .. Len(A) + Len(B) : C[i] = IF i <= Len(A) THEN A[i] ELSE B[i - Len(A)]
    <3> HIDE DEF T
    <3> QED  BY <2>1, ConcatProperties
  <2> QED  BY <2>2
<1> HIDE DEF C
<1>3. DOMAIN C = 1 .. Len(A) + Len(B)
  BY <1>2, PiecesFacts
<1>4. ASSUME NEW i \in DOMAIN C
      PROVE  \/ i \in DOMAIN A /\ C[i] = A[i] /\ i <= Len(A)
             \/ i - Len(A) \in DOMAIN B /\ C[i] = B[i - Len(A)] /\ i > Len(A)
  BY <1>1, <1>2, <1>3
<1>5. ASSUME NEW i \in DOMAIN C  PROVE Increasing(C[i])
  BY <1>4 DEF InOrder
<1>6. ASSUME NEW i \in DOMAIN C, NEW j \in DOMAIN C, i < j
      PROVE  Before(LettersOf(C[i]), LettersOf(C[j]))
  <2>0. i \in Int /\ j \in Int
    BY <1>3
  <2>1. CASE i <= Len(A) /\ j <= Len(A)
    <3>1. i \in DOMAIN A /\ j \in DOMAIN A /\ C[i] = A[i] /\ C[j] = A[j]
      BY <1>1, <1>4, <2>0, <2>1
    <3> QED  BY <1>6, <3>1 DEF InOrder
  <2>2. CASE i > Len(A) /\ j > Len(A)
    <3>1. /\ i - Len(A) \in DOMAIN B /\ j - Len(A) \in DOMAIN B
          /\ C[i] = B[i - Len(A)] /\ C[j] = B[j - Len(A)] /\ i - Len(A) < j - Len(A)
      BY <1>1, <1>4, <1>6, <2>0, <2>2
    <3> QED  BY <3>1 DEF InOrder
  <2>3. CASE i <= Len(A) /\ j > Len(A)
    <3>1. /\ i \in DOMAIN A /\ j - Len(A) \in DOMAIN B
          /\ C[i] = A[i] /\ C[j] = B[j - Len(A)]
      BY <1>1, <1>4, <2>0, <2>3
    <3>2. LettersOf(C[i]) \subseteq AllLetters(A) /\ LettersOf(C[j]) \subseteq AllLetters(B)
      BY <3>1 DEF AllLetters
    <3> QED  BY <3>2 DEF Before
  <2> QED  BY <1>1, <1>6, <2>0, <2>1, <2>2, <2>3
<1>7. InOrder(C)
  BY <1>2, <1>5, <1>6 DEF InOrder
<1>8. ASSUME NEW i \in DOMAIN A  PROVE i \in DOMAIN C /\ C[i] = A[i]
  BY <1>1, <1>2, <1>3
<1>9. ASSUME NEW i \in DOMAIN B  PROVE i + Len(A) \in DOMAIN C /\ C[i + Len(A)] = B[i]
  BY <1>1, <1>2, <1>3
<1>10. AllLetters(C) = AllLetters(A) \cup AllLetters(B)
  BY <1>4, <1>8, <1>9 DEF AllLetters
<1>11. Fit(A) /\ Fit(B) => Fit(C)
  BY <1>4 DEF Fit
<1> QED  BY <1>7, <1>10, <1>11 DEF C

LEMMA AppendKeeps ==
    ASSUME NEW A, InOrder(A), NEW u \in Texts, Increasing(u), Before(AllLetters(A), LettersOf(u))
    PROVE  /\ InOrder(Append(A, u)) /\ AllLetters(Append(A, u)) = AllLetters(A) \cup LettersOf(u)
           /\ Fit(A) /\ ~Blank(u) /\ Len(u) <= chunk_size => Fit(Append(A, u))
<1> DEFINE B == [i \in 1 .. 1 |-> u]
           T == Texts
<1>1. B = <<u>> /\ B \in Seq(Texts) /\ DOMAIN B = 1 .. 1 /\ B[1] = u
  OBVIOUS
<1>2. Append(A, u) = A \o B
  <2>1. A \in Seq(T) /\ u \in T
    BY DEF InOrder
  <2>2. Append(A, u) = A \o <<u>>
    <3> HIDE DEF T
    <3> QED  BY <2>1, AppendIsConcat
  <2> QED  BY <1>1, <2>2
<1> HIDE DEF B
<1>3. InOrder(B) /\ AllLetters(B) = LettersOf(u)
  BY <1>1 DEF InOrder, AllLetters
<1>4. ~Blank(u) /\ Len(u) <= chunk_size => Fit(B)
  BY <1>1 DEF Fit
<1> QED  BY <1>2, <1>3, <1>4, ConcatKeeps

LEMMA FrontKeeps ==
    ASSUME NEW C, InOrder(C), NEW n \in Nat \ {0}, n = Len(C)
    PROVE  /\ InOrder(SubSeq(C, 1, n - 1)) /\ C[n] \in Texts /\ Increasing(C[n])
           /\ AllLetters(C) = AllLetters(SubSeq(C, 1, n - 1)) \cup LettersOf(C[n])
           /\ Before(AllLetters(SubSeq(C, 1, n - 1)), LettersOf(C[n]))
           /\ Fit(C) => Fit(SubSeq(C, 1, n - 1)) /\ ~Blank(C[n]) /\ Len(C[n]) <= chunk_size
           /\ Len(SubSeq(C, 1, n - 1)) = n - 1
           /\ \A i \in 1 .. n - 1 : SubSeq(C, 1, n - 1)[i] = C[i]
<1> DEFINE F == SubSeq(C, 1, n - 1)
<1>1. C \in Seq(Texts) /\ DOMAIN C = 1 .. n /\ \A i \in 1 .. n : C[i] \in Texts
  BY PiecesFacts DEF InOrder
<1>2. /\ F \in Seq(Texts) /\ Len(F) = n - 1 /\ \A i \in 1 .. n - 1 : F[i] = C[i]
  <2> DEFINE T == Texts
             m == n - 1
  <2>1. \A i \in 1 .. m : C[i] \in T
    BY <1>1
  <2>2. 1 \in Int /\ m \in Int /\ m >= 0
    OBVIOUS
  <2>3. /\ SubSeq(C, 1, m) \in Seq(T)
        /\ Len(SubSeq(C, 1, m)) = IF 1 <= m THEN m - 1 + 1 ELSE 0
        /\ \A i \in 1 .. m - 1 + 1 : SubSeq(C, 1, m)[i] = C[1 + i - 1]
    <3> HIDE DEF T, m
    <3> QED  BY <2>1, <2>2, SubSeqProperties
  <2> QED  BY <2>2, <2>3
<1> HIDE DEF F
<1>3. DOMAIN F = 1 .. n - 1 /\ DOMAIN C = DOMAIN F \cup {n} /\ n \in DOMAIN C
  BY <1>1, <1>2, PiecesFacts
<1>4. \A i \in DOMAIN F : F[i] = C[i] /\ i \in DOMAIN C /\ i < n
  BY <1>1, <1>2, <1>3
<1>5. InOrder(F)
  BY <1>2, <1>3, <1>4 DEF InOrder
<1>6. AllLetters(C) = AllLetters(F) \cup LettersOf(C[n])
  BY <1>3, <1>4 DEF AllLetters
<1>7. Before(AllLetters(F), LettersOf(C[n]))
  <2> SUFFICES ASSUME NEW a \in AllLetters(F), NEW b \in LettersOf(C[n])  PROVE a < b
    BY DEF Before
  <2>1. PICK i \in DOMAIN F : a \in LettersOf(F[i])
    BY DEF AllLetters
  <2>2. Before(LettersOf(C[i]), LettersOf(C[n]))
    BY <1>3, <1>4 DEF InOrder
  <2> QED  BY <1>4, <2>1, <2>2 DEF Before
<1>8. Fit(C) => Fit(F) /\ ~Blank(C[n]) /\ Len(C[n]) <= chunk_size
  BY <1>3, <1>4 DEF Fit
<1>9. C[n] \in Texts /\ Increasing(C[n])
  BY <1>1, <1>3 DEF InOrder
<1> QED  BY <1>2, <1>5, <1>6, <1>7, <1>8, <1>9 DEF F

(* A piece taken in by the last one. *)
LEMMA JoinKeeps ==
    ASSUME NEW C, InOrder(C), NEW n \in Nat \ {0}, n = Len(C),
           NEW u \in Texts, Increasing(u), Before(AllLetters(C), LettersOf(u))
    PROVE  LET D == Append(SubSeq(C, 1, n - 1), C[n] \o u)
           IN  /\ InOrder(D) /\ AllLetters(D) = AllLetters(C) \cup LettersOf(u)
               /\ Fit(C) /\ Len(C[n]) + Len(u) <= chunk_size => Fit(D)
<1> DEFINE F == SubSeq(C, 1, n - 1)
           v == C[n]
           w == v \o u
<1>1. /\ InOrder(F) /\ v \in Texts /\ Increasing(v)
      /\ AllLetters(C) = AllLetters(F) \cup LettersOf(v)
      /\ Before(AllLetters(F), LettersOf(v))
      /\ Fit(C) => Fit(F) /\ ~Blank(v)
  BY FrontKeeps
<1> HIDE DEF F, v
<1>2. Before(LettersOf(v), LettersOf(u)) /\ Before(AllLetters(F), LettersOf(u))
  BY <1>1 DEF Before
<1>3. /\ w \in Texts /\ Len(w) = Len(v) + Len(u) /\ Increasing(w)
      /\ LettersOf(w) = LettersOf(v) \cup LettersOf(u)
      /\ ~Blank(v) => ~Blank(w)
  BY <1>1, <1>2, ConcatText
<1> HIDE DEF w
<1>4. Before(AllLetters(F), LettersOf(w))
  BY <1>1, <1>2, <1>3 DEF Before
<1>5. /\ InOrder(Append(F, w)) /\ AllLetters(Append(F, w)) = AllLetters(F) \cup LettersOf(w)
      /\ Fit(F) /\ ~Blank(w) /\ Len(w) <= chunk_size => Fit(Append(F, w))
  BY <1>1, <1>3, <1>4, AppendKeeps
<1>6. AllLetters(Append(F, w)) = AllLetters(C) \cup LettersOf(u)
  BY <1>1, <1>3, <1>5
<1>7. Fit(C) /\ Len(v) + Len(u) <= chunk_size => Fit(Append(F, w))
  BY <1>1, <1>3, <1>5
<1> QED  BY <1>5, <1>6, <1>7 DEF F, v, w

----
(* Cutting at a separator. *)

LEMMA PartsKeep ==
    ASSUME NEW t \in Texts, Increasing(t),
           NEW separator \in Texts, Len(separator) > 0, LettersOf(separator) = {}
    PROVE  InOrder(Parts(t, separator)) /\ AllLetters(Parts(t, separator)) = LettersOf(t)
<1> DEFINE at == Occurrences(t, separator)
           last == Cardinality(at) + 1
           width == Len(separator)
           Start(k) == IF k = 1 THEN 1 ELSE Nth(at, k - 1) + width
           End(k) == IF k = last THEN Len(t) ELSE Nth(at, k) - 1
           lo == [k \in 1 .. last |-> Start(k)]
           hi == [k \in 1 .. last |-> End(k)]
           P == [k \in 1 .. last |-> SubSeq(t, lo[k], hi[k])]
           Q == [k \in 1 .. last |-> IF k = last THEN P[k] ELSE P[k] \o separator]
           S == {k \in 1 .. last : ~Blank(P[k])}
<1>1. Len(t) \in Nat /\ DOMAIN t = 1 .. Len(t) /\ width \in Nat \ {0}
      /\ DOMAIN separator = 1 .. width
  BY TextFacts
<1>2. /\ at \in SUBSET (1 .. Len(t)) /\ at \in SUBSET Nat
      /\ \A a \in at : a + width - 1 <= Len(t) /\ SubSeq(t, a, a + width - 1) = separator
  BY <1>1 DEF Occurrences
<1>3. IsFiniteSet(at)
  <2>1. IsFiniteSet(1 .. Len(t))
    BY <1>1, FS_Interval
  <2> HIDE DEF at
  <2> QED  BY <1>2, <2>1, FS_Subset
<1> HIDE DEF at
<1>4. last \in Nat /\ last >= 1 /\ Cardinality(at) = last - 1
  BY <1>3, FS_CardinalityType
<1>5. \A k \in 1 .. last - 1 : Nth(at, k) \in at /\ Nth(at, k) \in 1 .. Len(t)
  BY <1>2, <1>3, <1>4, NthMember
<1>6. \A k, l \in 1 .. last - 1 : k < l => Nth(at, k) < Nth(at, l)
  BY <1>2, <1>3, <1>4, NthOrder
<1>7. Parts(t, separator) = Selected(Q, S)
  BY DEF Parts, at
<1> HIDE DEF last, width
<1>8. lo \in [1 .. last -> Int] /\ hi \in [1 .. last -> Int]
      /\ \A k \in 1 .. last : 1 <= lo[k] /\ hi[k] <= Len(t)
  <2> SUFFICES ASSUME NEW k \in 1 .. last
               PROVE  Start(k) \in Int /\ End(k) \in Int /\ 1 <= Start(k) /\ End(k) <= Len(t)
    OBVIOUS
  <2>1. Start(k) \in Int /\ 1 <= Start(k)
    <3>1. CASE k = 1
      BY <3>1
    <3>2. CASE k # 1
      <4>1. k - 1 \in 1 .. last - 1
        BY <1>4, <3>2
      <4> QED  BY <1>1, <1>5, <3>2, <4>1
    <3> QED  BY <3>1, <3>2
  <2>2. End(k) \in Int /\ End(k) <= Len(t)
    <3>1. CASE k = last
      BY <1>1, <3>1
    <3>2. CASE k # last
      <4>1. k \in 1 .. last - 1
        BY <1>4, <3>2
      <4> QED  BY <1>1, <1>5, <3>2, <4>1
    <3> QED  BY <3>1, <3>2
  <2> QED  BY <2>1, <2>2
<1>9. ASSUME NEW k \in 1 .. last, NEW l \in 1 .. last, k < l
      PROVE  hi[k] < lo[l]
  <2>1. k \in 1 .. last - 1 /\ l - 1 \in 1 .. last - 1 /\ k # last /\ l # 1
    BY <1>4, <1>9
  <2>2. hi[k] = Nth(at, k) - 1 /\ lo[l] = Nth(at, l - 1) + width
    BY <2>1
  <2>3. Nth(at, k) <= Nth(at, l - 1)
    <3>1. CASE k = l - 1
      BY <1>5, <2>1, <3>1
    <3>2. CASE k < l - 1
      BY <1>5, <1>6, <2>1, <3>2
    <3> QED  BY <1>4, <1>9, <3>1, <3>2
  <2>4. Nth(at, k) \in Nat /\ Nth(at, l - 1) \in Nat
    BY <1>2, <1>5, <2>1
  <2> QED  BY <1>1, <2>2, <2>3, <2>4
<1>10. ASSUME NEW i \in DOMAIN t, t[i] \in Letters
       PROVE  \E k \in 1 .. last : lo[k] <= i /\ i <= hi[k]
  <2> DEFINE ends == {k \in 1 .. last : k = last \/ i < Nth(at, k)}
  <2>1. PICK k \in ends : \A l \in ends : k <= l
    <3>1. ends \in SUBSET Nat /\ last \in ends
      BY <1>4
    <3> HIDE DEF ends
    <3> QED  BY <3>1, LeastNat
  <2>2. k \in 1 .. last /\ i \in Nat /\ i <= Len(t)
    BY <1>1, <2>1
  <2>3. i <= hi[k]
    <3>1. CASE k = last
      BY <2>2, <3>1
    <3>2. CASE k # last
      <4>1. i < Nth(at, k) /\ Nth(at, k) \in Nat
        BY <1>2, <1>4, <1>5, <2>1, <3>2
      <4> QED  BY <2>2, <3>2, <4>1
    <3> QED  BY <3>1, <3>2
  <2>4. lo[k] <= i
    <3>1. CASE k = 1
      BY <1>1, <2>2, <3>1
    <3>2. CASE k # 1
      <4>1. k - 1 \in 1 .. last - 1 /\ k - 1 \in 1 .. last /\ k - 1 # last /\ k - 1 < k
        BY <1>4, <2>2, <3>2
      <4> DEFINE a == Nth(at, k - 1)
      <4>2. a \in at /\ a \in Nat
        BY <1>2, <1>5, <4>1
      <4>3. ~(i < a)
        <5>1. k - 1 \notin ends
          BY <2>1, <2>2, <4>1
        <5> QED  BY <4>1, <5>1
      <4>4. SubSeq(t, a, a + width - 1) = separator /\ a + width - 1 <= Len(t) /\ 1 <= a
        BY <1>2, <4>2
      <4> HIDE DEF a
      <4>5. i \notin a .. a + width - 1
        <5> SUFFICES ASSUME i \in a .. a + width - 1  PROVE FALSE
          OBVIOUS
        <5>1. i - a + 1 \in 1 .. width /\ a + (i - a + 1) - 1 = i
              /\ (a + width - 1) - a + 1 = width
          BY <1>1, <2>2, <4>2
        <5>2. \A j \in 1 .. width : separator[j] = t[a + j - 1]
          <6> DEFINE b == a + width - 1
          <6>1. a \in Int /\ b \in Int /\ 1 <= a /\ b <= Len(t)
            BY <1>1, <4>2, <4>4
          <6>2. \A j \in 1 .. b - a + 1 : SubSeq(t, a, b)[j] = t[a + j - 1]
            <7> HIDE DEF b
            <7> QED  BY <6>1, SubText
          <6> QED  BY <4>4, <5>1, <6>2
        <5>3. separator[i - a + 1] = t[i]
          BY <5>1, <5>2
        <5> QED  BY <1>1, <1>10, <5>1, <5>3 DEF LettersOf, Range
      <4>6. lo[k] = a + width
        BY <2>2, <3>2 DEF a
      <4> QED  BY <1>1, <2>2, <4>2, <4>3, <4>5, <4>6
    <3> QED  BY <3>1, <3>2
  <2> QED  BY <2>2, <2>3, <2>4
<1> HIDE DEF lo, hi
<1>11. InOrder(P) /\ Len(P) = last /\ AllLetters(P) = LettersOf(t)
  BY <1>4, <1>8, <1>9, <1>10, SlicesKeep
<1>12. DOMAIN P = 1 .. last /\ \A k \in 1 .. last : P[k] \in Texts /\ Increasing(P[k])
  BY <1>11, PiecesFacts DEF InOrder
<1> HIDE DEF P
<1>13. \A k \in 1 .. last : /\ Q[k] \in Texts /\ Increasing(Q[k])
                             /\ LettersOf(Q[k]) = LettersOf(P[k])
  <2> SUFFICES ASSUME NEW k \in 1 .. last
               PROVE  Q[k] \in Texts /\ Increasing(Q[k]) /\ LettersOf(Q[k]) = LettersOf(P[k])
    OBVIOUS
  <2> DEFINE p == P[k]
  <2>1. p \in Texts /\ Increasing(p)
    BY <1>12
  <2>2. Increasing(separator) /\ Before(LettersOf(p), LettersOf(separator))
    <3>1. \A i \in DOMAIN separator : separator[i] \notin Letters
      BY DEF LettersOf, Range
    <3> QED  BY <3>1 DEF Increasing, Before
  <2> HIDE DEF p
  <2>3. /\ p \o separator \in Texts /\ Increasing(p \o separator)
        /\ LettersOf(p \o separator) = LettersOf(p)
    <3>1. /\ p \o separator \in Texts /\ Increasing(p \o separator)
          /\ LettersOf(p \o separator) = LettersOf(p) \cup LettersOf(separator)
      BY <2>1, <2>2, ConcatText
    <3> QED  BY <3>1
  <2>4. Q[k] = p \/ Q[k] = p \o separator
    BY DEF p
  <2> HIDE DEF Q
  <2> QED  BY <2>1, <2>3, <2>4 DEF p
<1>14. InOrder(Q) /\ Len(Q) = last /\ AllLetters(Q) = LettersOf(t) /\ DOMAIN Q = 1 .. last
  <2>1. Q \in [DOMAIN P -> Texts] /\ DOMAIN Q = 1 .. last
    BY <1>12, <1>13
  <2> HIDE DEF Q
  <2> QED  BY <1>11, <1>12, <1>13, <2>1, MapKeeps
<1> HIDE DEF Q
<1>15. S \in SUBSET DOMAIN Q /\ \A k \in DOMAIN Q : LettersOf(Q[k]) # {} => k \in S
  BY <1>13, <1>14, SolidLetters
<1> HIDE DEF S
<1> QED  BY <1>7, <1>14, <1>15, DropKeeps

----
(* Cutting at chunk_size characters. *)

LEMMA DivFacts ==
    ASSUME NEW a \in Nat, NEW c \in Nat \ {0}
    PROVE  a \div c \in Nat /\ (a \div c) * c <= a /\ a < (a \div c) * c + c
  OBVIOUS

LEMMA TimesOrder ==
    ASSUME NEW a \in Int, NEW b \in Int, NEW c \in Nat
    PROVE  /\ a * c \in Int /\ (a - 1) * c = a * c - c
           /\ a <= b => a * c <= b * c
           /\ a * c < b * c => a < b
  OBVIOUS

LEMMA FixedLengthKeeps ==
    ASSUME NEW t \in Texts, Increasing(t)
    PROVE  /\ InOrder(FixedLengthSplit(t)) /\ AllLetters(FixedLengthSplit(t)) = LettersOf(t)
           /\ Fit(FixedLengthSplit(t))
<1> DEFINE c == chunk_size
           n == (Len(t) + c - 1) \div c
           lo == [k \in 1 .. n |-> (k - 1) * c + 1]
           hi == [k \in 1 .. n |-> Least(k * c, Len(t))]
           P == [k \in 1 .. n |-> SubSeq(t, lo[k], hi[k])]
           Q == [k \in 1 .. n |-> Strip(P[k])]
           S == {k \in DOMAIN Q : Q[k] # <<>>}
<1>1. Len(t) \in Nat /\ DOMAIN t = 1 .. Len(t) /\ c \in Nat \ {0} /\ c \in Nat /\ c >= 1
  BY TextFacts, SizeAssumption
<1>2. FixedLengthSplit(t) = Selected(Q, S)
  BY DEF FixedLengthSplit
<1> HIDE DEF c
<1>3. n \in Nat /\ n * c <= Len(t) + c - 1 /\ Len(t) + c - 1 < n * c + c /\ n * c \in Int
  <2> DEFINE b == Len(t) + c - 1
  <2>1. b \in Nat
    BY <1>1
  <2> HIDE DEF b
  <2>2. b \div c \in Nat /\ (b \div c) * c <= b /\ b < (b \div c) * c + c
    BY <1>1, <2>1, DivFacts
  <2>3. (b \div c) * c \in Int
    BY <1>1, <2>2, TimesOrder
  <2> QED  BY <2>2, <2>3 DEF b
<1> HIDE DEF n
<1>4. ASSUME NEW k \in 1 .. n
      PROVE  /\ k * c \in Int /\ (k - 1) * c = k * c - c /\ 0 <= (k - 1) * c
             /\ lo[k] = k * c - c + 1 /\ hi[k] \in Int /\ hi[k] <= k * c /\ hi[k] <= Len(t)
             /\ (hi[k] = k * c \/ hi[k] = Len(t))
  <2>1. k * c \in Int /\ (k - 1) * c = k * c - c
    BY <1>1, <1>3, TimesOrder
  <2>2. 0 * c <= (k - 1) * c /\ 0 * c = 0
    BY <1>1, <1>3, TimesOrder
  <2>3. lo[k] = (k - 1) * c + 1 /\ hi[k] = Least(k * c, Len(t))
    OBVIOUS
  <2> DEFINE top == k * c
             bottom == (k - 1) * c
  <2>4. /\ top \in Int /\ bottom = top - c /\ 0 <= bottom
        /\ lo[k] = bottom + 1 /\ hi[k] = Least(top, Len(t))
    BY <2>1, <2>2, <2>3
  <2> HIDE DEF lo, hi, top, bottom
  <2>5. /\ lo[k] = top - c + 1 /\ hi[k] \in Int /\ hi[k] <= top /\ hi[k] <= Len(t)
        /\ (hi[k] = top \/ hi[k] = Len(t))
    BY <1>1, <2>4 DEF Least
  <2> QED  BY <2>4, <2>5 DEF top, bottom
<1>5. lo \in [1 .. n -> Int] /\ hi \in [1 .. n -> Int]
      /\ \A k \in 1 .. n : 1 <= lo[k] /\ hi[k] <= Len(t)
  <2>1. \A k \in 1 .. n : lo[k] \in Int /\ hi[k] \in Int /\ 1 <= lo[k] /\ hi[k] <= Len(t)
    BY <1>1, <1>4
  <2> QED  BY <2>1
<1> HIDE DEF lo, hi
<1>6. ASSUME NEW k \in 1 .. n, NEW l \in 1 .. n, k < l
      PROVE  hi[k] < lo[l]
  <2>1. k <= l - 1 /\ k \in Int /\ l - 1 \in Int
    BY <1>3, <1>6
  <2>2. k * c <= (l - 1) * c
    BY <1>1, <2>1, TimesOrder
  <2> DEFINE top == k * c
             other == l * c
             bottom == (l - 1) * c
  <2>3. hi[k] <= top /\ top <= bottom /\ bottom = other - c /\ lo[l] = other - c + 1
        /\ top \in Int /\ other \in Int /\ hi[k] \in Int
    BY <1>4, <2>2
  <2> HIDE DEF top, bottom, other
  <2> QED  BY <1>1, <2>3
<1>7. ASSUME NEW i \in DOMAIN t
      PROVE  \E k \in 1 .. n : lo[k] <= i /\ i <= hi[k]
  <2> DEFINE q == (i - 1) \div c
             k == q + 1
  <2>1. i \in 1 .. Len(t) /\ i - 1 \in Nat
    BY <1>1
  <2>2. q \in Nat /\ q * c <= i - 1 /\ i - 1 < q * c + c
    <3> DEFINE b == i - 1
    <3>1. b \in Nat
      BY <2>1
    <3> HIDE DEF b
    <3>2. b \div c \in Nat /\ (b \div c) * c <= b /\ b < (b \div c) * c + c
      BY <1>1, <3>1, DivFacts
    <3> QED  BY <3>2 DEF b
  <2> HIDE DEF q
  <2>3. k \in Int /\ q * c \in Int /\ q * c = k * c - c /\ k * c \in Int
    <3>1. k \in Int /\ k - 1 = q
      BY <2>2
    <3> HIDE DEF k
    <3>2. (k - 1) * c = k * c - c /\ k * c \in Int /\ q * c \in Int
      BY <1>1, <2>2, <3>1, TimesOrder
    <3> QED  BY <3>1, <3>2
  <2>4. q * c < n * c
    BY <1>1, <1>3, <2>1, <2>2, <2>3
  <2>5. q < n
    BY <1>1, <1>3, <2>2, <2>4, TimesOrder
  <2>6. k \in 1 .. n
    BY <1>3, <2>2, <2>5
  <2> HIDE DEF k
  <2>7. lo[k] <= i /\ i <= hi[k]
    <3> DEFINE top == k * c
               bottom == q * c
    <3>1. /\ top \in Int /\ bottom = top - c /\ bottom <= i - 1 /\ i - 1 < bottom + c
          /\ lo[k] = top - c + 1 /\ (hi[k] = top \/ hi[k] = Len(t))
      <4>1. lo[k] = top - c + 1 /\ (hi[k] = top \/ hi[k] = Len(t))
        BY <1>4, <2>6
      <4> QED  BY <2>2, <2>3, <4>1
    <3> HIDE DEF top, bottom
    <3> QED  BY <1>1, <2>1, <3>1
  <2> QED  BY <2>6, <2>7
<1>8. InOrder(P) /\ Len(P) = n /\ AllLetters(P) = LettersOf(t)
  BY <1>3, <1>5, <1>6, <1>7, SlicesKeep
<1>9. DOMAIN P = 1 .. n /\ \A k \in 1 .. n : P[k] \in Texts /\ Increasing(P[k])
  BY <1>8, PiecesFacts DEF InOrder
<1>10. ASSUME NEW k \in 1 .. n  PROVE Len(P[k]) <= c
  <2> DEFINE a == lo[k]
             b == hi[k]
  <2>1. a \in Int /\ b \in Int /\ 1 <= a /\ b <= Len(t) /\ b - a + 1 <= c
    BY <1>1, <1>4, <1>5
  <2>2. P[k] = SubSeq(t, a, b)
    OBVIOUS
  <2> HIDE DEF P, a, b
  <2>3. Len(SubSeq(t, a, b)) = IF a <= b THEN b - a + 1 ELSE 0
    BY <2>1, SubText
  <2> QED  BY <1>1, <2>1, <2>2, <2>3
<1> HIDE DEF P
<1>11. ASSUME NEW k \in 1 .. n
       PROVE  /\ Q[k] \in Texts /\ Increasing(Q[k]) /\ LettersOf(Q[k]) = LettersOf(P[k])
              /\ Len(Q[k]) <= c /\ (Q[k] # <<>> => ~Blank(Q[k]))
              /\ LettersOf(Q[k]) # {} => Q[k] # <<>>
  <2> DEFINE p == P[k]
  <2>1. p \in Texts /\ Increasing(p) /\ Len(p) <= c /\ Len(p) \in Nat
    BY <1>9, <1>10, TextFacts
  <2>2. Q[k] = Strip(p)
    OBVIOUS
  <2> HIDE DEF p, Q
  <2>3. /\ Q[k] \in Texts /\ Increasing(Q[k]) /\ LettersOf(Q[k]) = LettersOf(p)
        /\ Len(Q[k]) <= Len(p) /\ (Q[k] # <<>> => ~Blank(Q[k]))
        /\ Q[k] = <<>> <=> Blank(p)
    BY <2>1, <2>2, StripKeeps
  <2>4. Len(Q[k]) \in Nat
    BY <2>3, TextFacts
  <2>5. LettersOf(Q[k]) # {} => Q[k] # <<>>
    BY <2>3, SolidLetters
  <2> QED  BY <1>1, <2>1, <2>3, <2>4, <2>5 DEF p
<1>12. InOrder(Q) /\ AllLetters(Q) = LettersOf(t) /\ DOMAIN Q = 1 .. n
  <2>1. Q \in [DOMAIN P -> Texts] /\ DOMAIN Q = 1 .. n
    BY <1>9, <1>11
  <2> HIDE DEF Q
  <2> QED  BY <1>8, <1>9, <1>11, <2>1, MapKeeps
<1> HIDE DEF Q
<1>13. S \in SUBSET DOMAIN Q /\ \A k \in DOMAIN Q : LettersOf(Q[k]) # {} => k \in S
  BY <1>11, <1>12
<1>14. /\ InOrder(Selected(Q, S)) /\ AllLetters(Selected(Q, S)) = AllLetters(Q)
       /\ \A m \in DOMAIN Selected(Q, S) : \E k \in S : Selected(Q, S)[m] = Q[k]
  <2> HIDE DEF S
  <2> QED  BY <1>12, <1>13, DropKeeps
<1>15. Fit(Selected(Q, S))
  <2>1. \A k \in S : ~Blank(Q[k]) /\ Len(Q[k]) <= c
    BY <1>11, <1>12
  <2> HIDE DEF S
  <2> QED  BY <1>14, <2>1 DEF Fit, c
<1> QED  BY <1>2, <1>12, <1>14, <1>15

----
(* Loops over pieces. *)

(* The letters of the first i pieces. *)
UpTo(P, i) == UNION {LettersOf(P[k]) : k \in 1 .. i}

LEMMA UpToStep ==
    ASSUME NEW P, InOrder(P)
    PROVE  /\ Len(P) \in Nat /\ DOMAIN P = 1 .. Len(P)
           /\ UpTo(P, 0) = {} /\ UpTo(P, Len(P)) = AllLetters(P)
           /\ \A i \in 1 .. Len(P) : /\ P[i] \in Texts /\ Increasing(P[i])
                                     /\ UpTo(P, i) = UpTo(P, i - 1) \cup LettersOf(P[i])
                                     /\ Before(UpTo(P, i - 1), LettersOf(P[i]))
<1>1. Len(P) \in Nat /\ DOMAIN P = 1 .. Len(P) /\ \A i \in 1 .. Len(P) : P[i] \in Texts /\ Increasing(P[i])
  BY PiecesFacts DEF InOrder
<1>2. UpTo(P, 0) = {} /\ UpTo(P, Len(P)) = AllLetters(P)
  BY <1>1 DEF UpTo, AllLetters
<1>3. ASSUME NEW i \in 1 .. Len(P)
      PROVE  /\ UpTo(P, i) = UpTo(P, i - 1) \cup LettersOf(P[i])
             /\ Before(UpTo(P, i - 1), LettersOf(P[i]))
  <2>1. 1 .. i = 1 .. i - 1 \cup {i} /\ \A k \in 1 .. i - 1 : k \in DOMAIN P /\ k < i
    BY <1>1
  <2>2. UpTo(P, i) = UpTo(P, i - 1) \cup LettersOf(P[i])
    BY <2>1 DEF UpTo
  <2>3. ASSUME NEW x \in UpTo(P, i - 1), NEW y \in LettersOf(P[i])  PROVE x < y
    <3>1. PICK k \in 1 .. i - 1 : x \in LettersOf(P[k])
      BY DEF UpTo
    <3>2. Before(LettersOf(P[k]), LettersOf(P[i]))
      BY <1>1, <2>1 DEF InOrder
    <3> QED  BY <3>1, <3>2 DEF Before
  <2> QED  BY <2>2, <2>3 DEF Before
<1> QED  BY <1>1, <1>2, <1>3

LEMMA FlattenKeeps ==
    ASSUME NEW P, InOrder(P), NEW Q \in [DOMAIN P -> Seq(Texts)],
           \A k \in DOMAIN P : InOrder(Q[k]) /\ AllLetters(Q[k]) = LettersOf(P[k])
    PROVE  InOrder(FlattenSeq(Q)) /\ AllLetters(FlattenSeq(Q)) = AllLetters(P)
<1> DEFINE n == Len(P)
           T == Texts
<1>1. n \in Nat /\ DOMAIN P = 1 .. n
  BY UpToStep
<1>2. Q \in Seq(Seq(T)) /\ Len(Q) = n
  <2> DEFINE S == Seq(T)
  <2>1. Q \in [1 .. n -> S]
    BY <1>1
  <2> HIDE DEF S, n
  <2>2. Q \in Seq(S)
    BY <1>1, <2>1, SeqDef
  <2>3. Len(Q) = n
    BY <1>1, <2>1, <2>2, LenProperties
  <2> QED  BY <2>2, <2>3 DEF S
<1>3. PICK f \in [0 .. n -> Seq(T)] :
         /\ f[0] = <<>> /\ f[n] = FlattenSeq(Q)
         /\ \A i \in 1 .. n : f[i] = f[i - 1] \o Q[i]
  <2> HIDE DEF T
  <2>1. \E f \in [0 .. Len(Q) -> Seq(T)] :
          /\ f[0] = <<>> /\ f[Len(Q)] = FlattenSeq(Q)
          /\ \A i \in 1 .. Len(Q) : f[i] = f[i - 1] \o Q[i]
    BY <1>2, FlattenRuns
  <2> QED  BY <1>2, <2>1
<1> DEFINE K == {i \in 0 .. n : InOrder(f[i]) /\ AllLetters(f[i]) = UpTo(P, i)}
<1>4. 0 \in K
  <2>1. InOrder(<<>>) /\ AllLetters(<<>>) = {}
    BY EmptySeq DEF InOrder, AllLetters
  <2>2. 0 \in 0 .. n /\ f[0] = <<>> /\ UpTo(P, 0) = {}
    BY <1>1, <1>3, UpToStep
  <2> QED  BY <2>1, <2>2
<1>5. ASSUME NEW i \in 1 .. n, i - 1 \in K  PROVE i \in K
  <2> DEFINE A == f[i - 1]
             B == Q[i]
  <2>1. InOrder(A) /\ AllLetters(A) = UpTo(P, i - 1)
    BY <1>5
  <2>2. InOrder(B) /\ AllLetters(B) = LettersOf(P[i])
    BY <1>1
  <2>3. UpTo(P, i) = UpTo(P, i - 1) \cup LettersOf(P[i]) /\ Before(UpTo(P, i - 1), LettersOf(P[i]))
    BY UpToStep
  <2>4. f[i] = A \o B /\ i \in 0 .. n
    BY <1>1, <1>3
  <2> HIDE DEF A, B
  <2>5. InOrder(A \o B) /\ AllLetters(A \o B) = AllLetters(A) \cup AllLetters(B)
    BY <2>1, <2>2, <2>3, ConcatKeeps
  <2> QED  BY <2>1, <2>2, <2>3, <2>4, <2>5
<1>6. n \in K
  <2> HIDE DEF K, n
  <2>1. 0 .. n \subseteq K
    BY <1>1, <1>4, <1>5, LoopKeeps
  <2> QED  BY <1>1, <2>1
<1> QED  BY <1>3, <1>6, UpToStep

LEMMA MergeKeeps ==
    ASSUME NEW M, InOrder(M), Fit(M), NEW part \in Texts, Increasing(part),
           Before(AllLetters(M), LettersOf(part))
    PROVE  /\ InOrder(Merge(M, part)) /\ Fit(Merge(M, part))
           /\ AllLetters(Merge(M, part)) = AllLetters(M) \cup LettersOf(part)
<1> DEFINE u == Strip(part)
           n == Len(M)
<1>1. /\ u \in Texts /\ Increasing(u) /\ LettersOf(u) = LettersOf(part)
      /\ u = <<>> <=> Blank(part)
      /\ u # <<>> => ~Blank(u)
  BY StripKeeps
<1>2. Len(u) \in Nat /\ n \in Nat /\ DOMAIN M = 1 .. n /\ M \in Seq(Texts) /\ chunk_size \in Nat
  BY <1>1, TextFacts, PiecesFacts, SizeAssumption DEF InOrder
<1> HIDE DEF u
<1>3. CASE Blank(part)
  <2>1. Merge(M, part) = M
    <3>1. ~(Len(Strip(part)) > chunk_size)
      BY <1>1, <1>2, <1>3, EmptySeq DEF u
    <3> QED  BY <1>3, <3>1 DEF Merge
  <2>2. LettersOf(part) = {}
    BY <1>3, SolidLetters
  <2> QED  BY <2>1, <2>2
<1>4. CASE ~Blank(part) /\ Len(u) > chunk_size
  <2>1. Merge(M, part) = M \o FixedLengthSplit(u)
    BY <1>2, <1>4 DEF Merge, u
  <2> DEFINE B == FixedLengthSplit(u)
  <2>2. InOrder(B) /\ AllLetters(B) = LettersOf(part) /\ Fit(B)
    BY <1>1, FixedLengthKeeps
  <2> HIDE DEF B
  <2>3. InOrder(M \o B) /\ AllLetters(M \o B) = AllLetters(M) \cup AllLetters(B) /\ Fit(M \o B)
    BY <2>2, ConcatKeeps
  <2> QED  BY <2>1, <2>2, <2>3 DEF B
<1> DEFINE Joins == /\ M # <<>> /\ Len(Last(M)) < min_chunk_size
                    /\ Len(Last(M)) + Len(u) <= chunk_size
<1>5. CASE ~Blank(part) /\ Len(u) <= chunk_size /\ Joins
  <2>1. Merge(M, part) = Append(SubSeq(M, 1, n - 1), M[n] \o u)
    BY <1>2, <1>5 DEF Merge, u, Last, Front
  <2>2. n \in Nat \ {0} /\ Len(M[n]) + Len(u) <= chunk_size
    <3>1. n # 0
      BY <1>2, <1>5, EmptySeq
    <3> QED  BY <1>2, <1>5, <3>1 DEF Last
  <2> DEFINE D == Append(SubSeq(M, 1, n - 1), M[n] \o u)
  <2>3. Before(AllLetters(M), LettersOf(u))
    BY <1>1
  <2>4. InOrder(D) /\ AllLetters(D) = AllLetters(M) \cup LettersOf(u) /\ Fit(D)
    BY <1>1, <2>2, <2>3, JoinKeeps
  <2> HIDE DEF D
  <2> QED  BY <1>1, <2>1, <2>4 DEF D
<1>6. CASE ~Blank(part) /\ Len(u) <= chunk_size /\ ~Joins
  <2>1. Merge(M, part) = Append(M, u)
    BY <1>2, <1>6 DEF Merge, u
  <2>2. Before(AllLetters(M), LettersOf(u)) /\ ~Blank(u)
    BY <1>1, <1>6
  <2>3. InOrder(Append(M, u)) /\ AllLetters(Append(M, u)) = AllLetters(M) \cup LettersOf(u)
        /\ Fit(Append(M, u))
    BY <1>1, <1>6, <2>2, AppendKeeps
  <2> QED  BY <1>1, <2>1, <2>3
<1> QED  BY <1>2, <1>3, <1>4, <1>5, <1>6

LEMMA MergeSmallKeeps ==
    ASSUME NEW P, InOrder(P)
    PROVE  /\ InOrder(MergeSmallChunks(P)) /\ Fit(MergeSmallChunks(P))
           /\ AllLetters(MergeSmallChunks(P)) = AllLetters(P)
<1> DEFINE n == Len(P)
           Step(f, i) == IF i = 0 THEN <<>> ELSE Merge(f[i - 1], P[i])
           merged == CHOOSE f : f = [i \in 0 .. n |-> Step(f, i)]
           Good(M, i) == InOrder(M) /\ Fit(M) /\ AllLetters(M) = UpTo(P, i)
           States == Seq(Texts)
           base == <<>>
           step == [i \in 1 .. n |-> [M \in States |-> IF Good(M, i - 1) THEN Merge(M, P[i]) ELSE base]]
<1>1. n \in Nat /\ \A i \in 1 .. n : P[i] \in Texts /\ Increasing(P[i])
  BY UpToStep
<1>2. base \in States /\ Good(base, 0)
  <2>1. InOrder(<<>>) /\ AllLetters(<<>>) = {} /\ Fit(<<>>)
    BY EmptySeq DEF InOrder, AllLetters, Fit
  <2> QED  BY <2>1, UpToStep, EmptySeq
<1>3. ASSUME NEW i \in 1 .. n, NEW M, Good(M, i - 1)
      PROVE  Good(Merge(M, P[i]), i) /\ Merge(M, P[i]) \in States
  <2>1. UpTo(P, i) = UpTo(P, i - 1) \cup LettersOf(P[i]) /\ Before(UpTo(P, i - 1), LettersOf(P[i]))
    BY UpToStep
  <2>2. Good(Merge(M, P[i]), i)
    BY <1>1, <1>3, <2>1, MergeKeeps
  <2> QED  BY <2>2 DEF InOrder
<1> HIDE DEF Good, n
<1>4. step \in Steps(n, States)
  <2>1. \A i \in 1 .. n : [M \in States |-> IF Good(M, i - 1) THEN Merge(M, P[i]) ELSE base] \in [States -> States]
    <3> SUFFICES ASSUME NEW i \in 1 .. n, NEW M \in States
                 PROVE  (IF Good(M, i - 1) THEN Merge(M, P[i]) ELSE base) \in States
      OBVIOUS
    <3>1. CASE Good(M, i - 1)
      <4> HIDE DEF States
      <4> QED  BY <1>3, <3>1
    <3>2. CASE ~Good(M, i - 1)
      <4> HIDE DEF States, base
      <4> QED  BY <1>2, <3>2
    <3> QED  BY <3>1, <3>2
  <2> HIDE DEF States
  <2> QED  BY <2>1 DEF Steps
<1>5. PICK f \in [0 .. n -> States] : IsLoop(f, n, base, step)
  <2> HIDE DEF States, base, step
  <2> QED  BY <1>1, <1>2, <1>4, LoopRuns
<1>6. f[0] = base /\ \A i \in 1 .. n : f[i] = step[i][f[i - 1]] /\ i - 1 \in 0 .. n
  <2> HIDE DEF step, States, base
  <2> QED  BY <1>1, <1>5 DEF IsLoop
<1>7. ASSUME NEW i \in 1 .. n  PROVE f[i] = IF Good(f[i - 1], i - 1) THEN Merge(f[i - 1], P[i]) ELSE base
  <2>1. f[i - 1] \in States
    BY <1>6
  <2> HIDE DEF States, base
  <2> QED  BY <1>6, <2>1
<1> DEFINE K == {i \in 0 .. n : Good(f[i], i)}
<1>8. 0 .. n \subseteq K
  <2>1. 0 \in K
    BY <1>1, <1>2, <1>6
  <2>2. ASSUME NEW i \in 1 .. n, i - 1 \in K  PROVE i \in K
    <3>1. Good(f[i - 1], i - 1) /\ i \in 0 .. n
      BY <1>1, <2>2
    <3>2. f[i] = Merge(f[i - 1], P[i])
      BY <1>7, <3>1
    <3> QED  BY <1>3, <3>1, <3>2
  <2> HIDE DEF K
  <2> QED  BY <1>1, <2>1, <2>2, LoopKeeps
<1>9. f = [i \in 0 .. n |-> Step(f, i)]
  <2> SUFFICES ASSUME NEW i \in 0 .. n  PROVE f[i] = Step(f, i)
    OBVIOUS
  <2>1. CASE i = 0
    BY <1>6, <2>1
  <2>2. CASE i # 0
    <3>1. i \in 1 .. n /\ i - 1 \in K
      BY <1>1, <1>6, <1>8, <2>2
    <3> QED  BY <1>7, <2>2, <3>1
  <2> QED  BY <2>1, <2>2
<1>10. merged = [i \in 0 .. n |-> Step(merged, i)]
  <2> HIDE DEF Step
  <2> QED  BY <1>9
<1>11. ASSUME NEW i \in 0 .. n  PROVE merged[i] = Step(merged, i)
  <2> HIDE DEF merged, Step
  <2> QED  BY <1>10
<1> HIDE DEF merged
<1> DEFINE L == {i \in 0 .. n : merged[i] = f[i]}
<1>12. 0 .. n \subseteq L
  <2>1. 0 \in L
    <3>1. 0 \in 0 .. n
      BY <1>1
    <3> QED  BY <1>6, <1>11, <3>1
  <2>2. ASSUME NEW i \in 1 .. n, i - 1 \in L  PROVE i \in L
    <3>1. i \in 0 .. n /\ i # 0 /\ merged[i - 1] = f[i - 1]
      BY <1>1, <2>2
    <3>2. merged[i] = Merge(merged[i - 1], P[i])
      BY <1>11, <3>1
    <3>3. f[i] = Merge(f[i - 1], P[i])
      BY <1>7, <1>8, <1>6
    <3> QED  BY <3>1, <3>2, <3>3
  <2> HIDE DEF L
  <2> QED  BY <1>1, <2>1, <2>2, LoopKeeps
<1> DEFINE C == merged[n]
           m == Len(C)
           D == Append(SubSeq(C, 1, m - 2), C[m - 1] \o C[m])
           Joins == m > 1 /\ Len(C[m]) < min_chunk_size /\ Len(C[m - 1]) + Len(C[m]) <= chunk_size
<1>13. InOrder(C) /\ Fit(C) /\ AllLetters(C) = AllLetters(P)
  <2>1. n \in 0 .. n /\ UpTo(P, n) = AllLetters(P)
    BY <1>1, UpToStep DEF n
  <2> QED  BY <1>8, <1>12, <2>1 DEF Good
<1>14. MergeSmallChunks(P) = IF Joins THEN D ELSE C
  BY DEF MergeSmallChunks, merged, n
<1> HIDE DEF C
<1>15. ASSUME Joins  PROVE InOrder(D) /\ Fit(D) /\ AllLetters(D) = AllLetters(C)
  <2> DEFINE F == SubSeq(C, 1, m - 1)
             u == C[m]
             k == m - 1
  <2>1. m \in Nat \ {0} /\ k \in Nat \ {0} /\ m > 1
    <3>1. m \in Nat
      BY <1>13, PiecesFacts DEF InOrder
    <3> QED  BY <1>15, <3>1
  <2>2. /\ InOrder(F) /\ u \in Texts /\ Increasing(u)
        /\ AllLetters(C) = AllLetters(F) \cup LettersOf(u)
        /\ Before(AllLetters(F), LettersOf(u)) /\ Fit(F)
        /\ Len(F) = k /\ \A i \in 1 .. k : F[i] = C[i]
    <3> HIDE DEF m
    <3>1. m = Len(C)
      BY DEF m
    <3>2. /\ InOrder(SubSeq(C, 1, m - 1)) /\ C[m] \in Texts /\ Increasing(C[m])
          /\ AllLetters(C) = AllLetters(SubSeq(C, 1, m - 1)) \cup LettersOf(C[m])
          /\ Before(AllLetters(SubSeq(C, 1, m - 1)), LettersOf(C[m]))
          /\ Fit(C) => Fit(SubSeq(C, 1, m - 1)) /\ ~Blank(C[m]) /\ Len(C[m]) <= chunk_size
          /\ Len(SubSeq(C, 1, m - 1)) = m - 1
          /\ \A i \in 1 .. m - 1 : SubSeq(C, 1, m - 1)[i] = C[i]
      BY <1>13, <2>1, <3>1, FrontKeeps
    <3> QED  BY <1>13, <3>2
  <2>3. F[k] = C[m - 1] /\ Len(F[k]) + Len(u) <= chunk_size
    <3>1. k \in 1 .. k
      BY <2>1
    <3>2. F[k] = C[m - 1]
      BY <2>2, <3>1
    <3> HIDE DEF F, C
    <3> QED  BY <1>15, <3>2
  <2>4. SubSeq(F, 1, k - 1) = SubSeq(C, 1, m - 2)
    <3> DEFINE T == Texts
               j == k - 1
    <3>1. \A i \in 1 .. j : F[i] = C[i] /\ F[i] \in T /\ C[i] \in T
      <4>1. \A i \in 1 .. j : i \in 1 .. k
        BY <2>1
      <4>2. \A i \in 1 .. k : F[i] \in T
        BY <2>2, PiecesFacts DEF InOrder
      <4> QED  BY <2>2, <4>1, <4>2
    <3>2. j \in Int /\ 1 \in Int /\ j = m - 2
      BY <2>1
    <3> HIDE DEF F, T, j, k, m
    <3>3. /\ SubSeq(F, 1, j) \in Seq(T) /\ Len(SubSeq(F, 1, j)) = (IF 1 <= j THEN j - 1 + 1 ELSE 0)
          /\ \A i \in 1 .. j - 1 + 1 : SubSeq(F, 1, j)[i] = F[1 + i - 1]
      BY <3>1, <3>2, SubSeqProperties
    <3>4. /\ SubSeq(C, 1, j) \in Seq(T) /\ Len(SubSeq(C, 1, j)) = (IF 1 <= j THEN j - 1 + 1 ELSE 0)
          /\ \A i \in 1 .. j - 1 + 1 : SubSeq(C, 1, j)[i] = C[1 + i - 1]
      BY <3>1, <3>2, SubSeqProperties
    <3>5. \A i \in 1 .. Len(SubSeq(F, 1, j)) : SubSeq(F, 1, j)[i] = SubSeq(C, 1, j)[i]
      BY <3>1, <3>2, <3>3, <3>4
    <3>6. SubSeq(F, 1, j) = SubSeq(C, 1, j)
      BY <3>3, <3>4, <3>5, SeqEqual
    <3> QED  BY <3>2, <3>6 DEF j
  <2> HIDE DEF F, u, k
  <2> DEFINE E == Append(SubSeq(F, 1, k - 1), F[k] \o u)
  <2>5. InOrder(E) /\ AllLetters(E) = AllLetters(F) \cup LettersOf(u) /\ Fit(E)
    BY <2>1, <2>2, <2>3, JoinKeeps
  <2>6. E = D
    BY <2>3, <2>4 DEF u
  <2> QED  BY <2>2, <2>5, <2>6
<1> QED  BY <1>13, <1>14, <1>15

----
(* The recursion. *)

LEMMA SeparatorFacts ==
    /\ Len(RECURSIVE_CHUNK_SEPARATORS) = 3
    /\ \A index \in 1 .. 3 : /\ RECURSIVE_CHUNK_SEPARATORS[index] \in Texts
                            /\ Len(RECURSIVE_CHUNK_SEPARATORS[index]) > 0
                            /\ LettersOf(RECURSIVE_CHUNK_SEPARATORS[index]) = {}
<1>1. /\ Len(RECURSIVE_CHUNK_SEPARATORS) = 3
      /\ RECURSIVE_CHUNK_SEPARATORS[1] = <<NewLine, NewLine>>
      /\ RECURSIVE_CHUNK_SEPARATORS[2] = <<NewLine>>
      /\ RECURSIVE_CHUNK_SEPARATORS[3] = <<Stop>>
  BY DEF RECURSIVE_CHUNK_SEPARATORS
<1>2. /\ <<NewLine, NewLine>> \in Texts /\ Len(<<NewLine, NewLine>>) = 2
      /\ Range(<<NewLine, NewLine>>) = {NewLine}
  BY DEF Texts, Range
<1>3. <<NewLine>> \in Texts /\ Len(<<NewLine>>) = 1 /\ Range(<<NewLine>>) = {NewLine}
  BY DEF Texts, Range
<1>4. <<Stop>> \in Texts /\ Len(<<Stop>>) = 1 /\ Range(<<Stop>>) = {Stop}
  BY DEF Texts, Range
<1>5. NewLine \notin Letters /\ Stop \notin Letters
  BY CharactersAssumption
<1>6. \A index \in 1 .. 3 : index = 1 \/ index = 2 \/ index = 3
  OBVIOUS
<1>7. ASSUME NEW index \in 1 .. 3
      PROVE  /\ RECURSIVE_CHUNK_SEPARATORS[index] \in Texts
             /\ Len(RECURSIVE_CHUNK_SEPARATORS[index]) > 0
             /\ LettersOf(RECURSIVE_CHUNK_SEPARATORS[index]) = {}
  <2>1. CASE index = 1
    BY <1>1, <1>2, <1>5, <2>1 DEF LettersOf
  <2>2. CASE index = 2
    BY <1>1, <1>3, <1>5, <2>2 DEF LettersOf
  <2>3. CASE index = 3
    BY <1>1, <1>4, <1>5, <2>3 DEF LettersOf
  <2> QED  BY <1>6, <2>1, <2>2, <2>3
<1> QED  BY <1>1, <1>7

(* P is t cut into pieces that fit and have its letters in their order. *)
Splits(P, t) == InOrder(P) /\ Fit(P) /\ AllLetters(P) = LettersOf(t)

SplitsAll(f) == \A t \in Texts : Increasing(t) => Splits(f[t], t)

LEMMA SingleKeeps ==
    ASSUME NEW u \in Texts, Increasing(u)
    PROVE  /\ InOrder(<<u>>) /\ AllLetters(<<u>>) = LettersOf(u)
           /\ ~Blank(u) /\ Len(u) <= chunk_size => Fit(<<u>>)
<1> DEFINE B == <<u>>
<1>1. B \in Seq(Texts) /\ DOMAIN B = 1 .. 1 /\ B[1] = u
  OBVIOUS
<1> HIDE DEF B
<1>2. InOrder(B) /\ AllLetters(B) = LettersOf(u) /\ (~Blank(u) /\ Len(u) <= chunk_size => Fit(B))
  BY <1>1 DEF InOrder, AllLetters, Fit
<1> QED  BY <1>2 DEF B

LEMMA LevelSplits ==
    ASSUME NEW index \in 1 .. 4, NEW finer, index <= 3 => SplitsAll(finer)
    PROVE  \A t \in Texts : Increasing(t) => Splits(SplitLevel(index, t, finer), t)
<1> SUFFICES ASSUME NEW t \in Texts, Increasing(t)
             PROVE  Splits(SplitLevel(index, t, finer), t)
  OBVIOUS
<1> DEFINE u == Strip(t)
           fits == Len(u) <= chunk_size
           separator == RECURSIVE_CHUNK_SEPARATORS[index]
           parts == Parts(u, separator)
           Resplit(part) == IF Len(part) > chunk_size THEN finer[part] ELSE <<part>>
           Q == [i \in DOMAIN parts |-> Resplit(parts[i])]
           R == MergeSmallChunks(FlattenSeq(Q))
           level == SplitLevel(index, t, finer)
<1>1. /\ u \in Texts /\ Increasing(u) /\ LettersOf(u) = LettersOf(t)
      /\ u = <<>> <=> Blank(t)
      /\ u # <<>> => ~Blank(u)
  BY StripKeeps
<1>2. Len(u) \in Nat /\ chunk_size \in Nat
  BY <1>1, TextFacts, SizeAssumption
<1>3. /\ u = <<>> => level = <<>>
      /\ u # <<>> /\ index > 3 => level = IF fits THEN <<u>> ELSE FixedLengthSplit(u)
      /\ u # <<>> /\ index <= 3 =>
            level = IF Len(parts) = 1 THEN IF fits THEN <<u>> ELSE finer[u] ELSE R
  <2> HIDE DEF u, fits, separator, parts, Q, R
  <2>1. SplitLevel(index, t, finer) =
          CASE u = <<>> -> <<>>
            [] u # <<>> /\ index > 3 -> IF fits THEN <<u>> ELSE FixedLengthSplit(u)
            [] u # <<>> /\ index <= 3 -> IF Len(parts) = 1 THEN IF fits THEN <<u>> ELSE finer[u] ELSE R
    BY SeparatorFacts DEF SplitLevel, u, fits, separator, parts, Q, R
  <2> QED  BY <2>1
<1> HIDE DEF u, level
<1>4. CASE u = <<>>
  <2>1. InOrder(<<>>) /\ AllLetters(<<>>) = {} /\ Fit(<<>>)
    BY EmptySeq DEF InOrder, AllLetters, Fit
  <2>2. LettersOf(t) = {}
    BY <1>1, <1>4, SolidLetters
  <2> QED  BY <1>3, <1>4, <2>1, <2>2 DEF Splits, level
<1>5. u # <<>> /\ fits => Splits(<<u>>, t)
  BY <1>1, SingleKeeps DEF Splits
<1>6. CASE u # <<>> /\ index > 3
  <2>1. Splits(FixedLengthSplit(u), t)
    BY <1>1, FixedLengthKeeps DEF Splits
  <2> QED  BY <1>3, <1>5, <1>6, <2>1 DEF level
<1>7. CASE u # <<>> /\ index <= 3
  <2>1. SplitsAll(finer) /\ index \in 1 .. 3
    BY <1>7
  <2>2. Splits(finer[u], t)
    BY <1>1, <2>1 DEF SplitsAll, Splits
  <2>3. InOrder(parts) /\ AllLetters(parts) = LettersOf(t)
    <3>1. separator \in Texts /\ Len(separator) > 0 /\ LettersOf(separator) = {}
      BY <2>1, SeparatorFacts
    <3> HIDE DEF separator
    <3> QED  BY <1>1, <3>1, PartsKeep
  <2> HIDE DEF parts
  <2>4. ASSUME NEW i \in DOMAIN parts
        PROVE  /\ InOrder(Q[i]) /\ AllLetters(Q[i]) = LettersOf(parts[i]) /\ Q[i] \in Seq(Texts)
    <3> DEFINE p == parts[i]
    <3>1. p \in Texts /\ Increasing(p)
      BY <2>3, PiecesFacts DEF InOrder
    <3>2. Q[i] = finer[p] \/ Q[i] = <<p>>
      OBVIOUS
    <3> HIDE DEF p, Q
    <3>3. InOrder(finer[p]) /\ AllLetters(finer[p]) = LettersOf(p)
      BY <2>1, <3>1 DEF SplitsAll, Splits
    <3>4. InOrder(<<p>>) /\ AllLetters(<<p>>) = LettersOf(p)
      BY <3>1, SingleKeeps
    <3>5. InOrder(Q[i]) /\ AllLetters(Q[i]) = LettersOf(p)
      BY <3>2, <3>3, <3>4
    <3> QED  BY <3>5 DEF p, InOrder
  <2>5. Q \in [DOMAIN parts -> Seq(Texts)]
    BY <2>4
  <2> HIDE DEF Q
  <2>6. InOrder(FlattenSeq(Q)) /\ AllLetters(FlattenSeq(Q)) = LettersOf(t)
    BY <2>3, <2>4, <2>5, FlattenKeeps
  <2>7. Splits(R, t)
    BY <2>6, MergeSmallKeeps DEF Splits
  <2> HIDE DEF R, fits
  <2>8. (level = <<u>> /\ fits) \/ level = finer[u] \/ level = R
    BY <1>3, <1>7
  <2> QED  BY <1>5, <1>7, <2>2, <2>7, <2>8 DEF level
<1> QED  BY <1>4, <1>6, <1>7

LEMMA SplitIsDefined ==
    \A index \in 1 .. 4 :
       RecursiveSplit[index] =
          [untrimmed \in Texts |->
              SplitLevel(index, untrimmed, IF index <= 3 THEN RecursiveSplit[index + 1] ELSE <<>>)]
<1> DEFINE Level(f, index) ==
              [untrimmed \in Texts |->
                  SplitLevel(index, untrimmed, IF index <= 3 THEN f[index + 1] ELSE <<>>)]
           Cut(index, finer) == [untrimmed \in Texts |-> SplitLevel(index, untrimmed, finer)]
           fourth == Cut(4, <<>>)
           third == Cut(3, fourth)
           second == Cut(2, third)
           first == Cut(1, second)
           g == [index \in 1 .. 4 |-> CASE index = 1 -> first [] index = 2 -> second
                                       [] index = 3 -> third [] index = 4 -> fourth]
           split == CHOOSE f : f = [index \in 1 .. 4 |-> Level(f, index)]
<1>1. RecursiveSplit = split
  <2>1. Len(RECURSIVE_CHUNK_SEPARATORS) = 3
    BY SeparatorFacts
  <2>2. 3 + 1 = 4
    OBVIOUS
  <2> QED  BY <2>1, <2>2 DEF RecursiveSplit
<1>2. g = [index \in 1 .. 4 |-> Level(g, index)]
  <2> SUFFICES ASSUME NEW index \in 1 .. 4  PROVE g[index] = Level(g, index)
    OBVIOUS
  <2>1. \A f : Level(f, 4) = Cut(4, <<>>)
    OBVIOUS
  <2>2. \A f : \A i \in 1 .. 3 : Level(f, i) = Cut(i, f[i + 1])
    OBVIOUS
  <2> HIDE DEF Level, Cut
  <2>3. g[4] = fourth /\ g[3] = third /\ g[2] = second /\ g[1] = first
    <3> HIDE DEF first, second, third, fourth
    <3> QED  OBVIOUS
  <2> HIDE DEF g
  <2>4. CASE index = 4
    BY <2>1, <2>3, <2>4
  <2>5. CASE index = 3
    BY <2>2, <2>3, <2>5
  <2>6. CASE index = 2
    BY <2>2, <2>3, <2>6
  <2>7. CASE index = 1
    BY <2>2, <2>3, <2>7
  <2> QED  BY <2>4, <2>5, <2>6, <2>7
<1>3. split = [index \in 1 .. 4 |-> Level(split, index)]
  <2> HIDE DEF g, Level
  <2> QED  BY <1>2
<1>4. \A index \in 1 .. 4 : split[index] = Level(split, index)
  <2> HIDE DEF split, Level
  <2> QED  BY <1>3
<1> HIDE DEF split
<1> QED  BY <1>1, <1>4

LEMMA RecursiveSplits == SplitsAll(RecursiveSplit[1])
<1>1. ASSUME NEW index \in 1 .. 4, index <= 3 => SplitsAll(RecursiveSplit[index + 1])
      PROVE  SplitsAll(RecursiveSplit[index])
  <2> DEFINE finer == IF index <= 3 THEN RecursiveSplit[index + 1] ELSE <<>>
  <2>1. index <= 3 => SplitsAll(finer)
    BY <1>1
  <2>2. RecursiveSplit[index] = [t \in Texts |-> SplitLevel(index, t, finer)]
    BY SplitIsDefined
  <2> HIDE DEF finer
  <2>3. \A t \in Texts : RecursiveSplit[index][t] = SplitLevel(index, t, finer)
    BY <2>2
  <2> QED  BY <2>1, <2>3, LevelSplits DEF SplitsAll
<1>2. SplitsAll(RecursiveSplit[4])
  BY <1>1
<1>3. SplitsAll(RecursiveSplit[3])
  BY <1>1, <1>2
<1>4. SplitsAll(RecursiveSplit[2])
  BY <1>1, <1>3
<1> QED  BY <1>1, <1>4

LEMMA PiecesSplit ==
    ASSUME NEW t \in Texts, Increasing(t)
    PROVE  Splits(Pieces(t), t)
<1> DEFINE u == Normalized(t)
           P == RecursiveSplit[1][u]
           S == {i \in DOMAIN P : ~Blank(P[i])}
<1>1. u \in Texts /\ Increasing(u) /\ LettersOf(u) = LettersOf(t)
  BY NormalizedKeeps
<1> HIDE DEF u
<1>2. InOrder(P) /\ Fit(P) /\ AllLetters(P) = LettersOf(t)
  BY <1>1, RecursiveSplits DEF SplitsAll, Splits
<1>3. Pieces(t) = Selected(P, S)
  BY DEF Pieces, u
<1> HIDE DEF P
<1>4. S \in SUBSET DOMAIN P /\ \A i \in DOMAIN P : LettersOf(P[i]) # {} => i \in S
  BY SolidLetters
<1> HIDE DEF S
<1>5. /\ InOrder(Selected(P, S)) /\ AllLetters(Selected(P, S)) = AllLetters(P)
      /\ \A n \in DOMAIN Selected(P, S) : \E k \in S : Selected(P, S)[n] = P[k]
  BY <1>2, <1>4, DropKeeps
<1>6. Fit(Selected(P, S))
  BY <1>2, <1>4, <1>5 DEF Fit
<1> QED  BY <1>2, <1>3, <1>5, <1>6 DEF Splits

----
(* The overlaps, and the chunks of a document. *)

LEMMA OverlapFacts ==
    ASSUME NEW previous \in Texts, Increasing(previous),
           NEW chunk \in Texts, Len(chunk) <= chunk_size
    PROVE  LET overlap == Overlap(previous, chunk)
           IN  /\ overlap \in Texts /\ Increasing(overlap)
               /\ LettersOf(overlap) \subseteq LettersOf(previous)
               /\ Len(overlap) + Len(chunk) <= chunk_size
               /\ IsFiniteSet(LettersOf(overlap)) /\ Cardinality(LettersOf(overlap)) <= chunk_overlap
<1> DEFINE length == Least(Least(chunk_overlap, chunk_size - Len(chunk)), Len(previous))
           lo == Len(previous) - length + 1
           hi == Len(previous)
           overlap == Overlap(previous, chunk)
<1>1. Len(previous) \in Nat /\ Len(chunk) \in Nat /\ DOMAIN previous = 1 .. Len(previous)
  BY TextFacts
<1>2. chunk_overlap \in Nat
  BY SizeAssumption, SettingsAssumption DEF chunk_overlap, Least
<1>3. /\ length \in Nat /\ length <= chunk_overlap /\ length + Len(chunk) <= chunk_size
      /\ length <= Len(previous)
  BY <1>1, <1>2, SizeAssumption DEF Least
<1>4. overlap = SubSeq(previous, lo, hi)
  BY DEF Overlap
<1> HIDE DEF length
<1>5. lo \in Int /\ hi \in Int /\ 1 <= lo /\ hi <= Len(previous) /\ hi - lo + 1 = length
  BY <1>1, <1>3
<1> HIDE DEF lo, hi, overlap
<1>6. /\ overlap \in Texts /\ Len(overlap) = (IF lo <= hi THEN hi - lo + 1 ELSE 0)
      /\ Range(overlap) = {previous[i] : i \in lo .. hi}
  BY <1>4, <1>5, SubText
<1>7. Increasing(overlap)
  BY <1>4, <1>5, SubText
<1>8. Len(overlap) = length
  BY <1>3, <1>5, <1>6
<1>9. LettersOf(overlap) \subseteq LettersOf(previous)
  <2>1. \A i \in lo .. hi : i \in DOMAIN previous
    BY <1>1, <1>5
  <2> QED  BY <1>6, <2>1 DEF LettersOf, Range
<1>10. IsFiniteSet(Range(overlap)) /\ Cardinality(Range(overlap)) <= length
  <2>1. DOMAIN overlap = 1 .. length
    BY <1>6, <1>8, TextFacts
  <2>2. overlap \in [1 .. length -> Range(overlap)]
    <3>1. overlap \in [DOMAIN overlap -> Range(overlap)]
      BY <1>6, LenProperties DEF Range, Texts
    <3> QED  BY <2>1, <3>1
  <2>3. overlap \in Surjection(1 .. length, Range(overlap))
    BY <2>1, <2>2 DEF Surjection, Range
  <2>4. IsFiniteSet(1 .. length) /\ Cardinality(1 .. length) = length
    BY <1>3, FS_Interval
  <2> QED  BY <2>3, <2>4, FS_Surjection
<1>11. IsFiniteSet(LettersOf(overlap)) /\ Cardinality(LettersOf(overlap)) <= chunk_overlap
  <2>1. LettersOf(overlap) \in SUBSET Range(overlap)
    BY DEF LettersOf
  <2>2. IsFiniteSet(LettersOf(overlap)) /\ Cardinality(LettersOf(overlap)) <= Cardinality(Range(overlap))
    BY <1>10, <2>1, FS_Subset
  <2>3. Cardinality(LettersOf(overlap)) \in Nat /\ Cardinality(Range(overlap)) \in Nat
    BY <1>10, <2>2, FS_CardinalityType
  <2> QED  BY <1>2, <1>3, <1>10, <2>2, <2>3
<1> QED  BY <1>3, <1>6, <1>7, <1>8, <1>9, <1>11 DEF overlap

(* The letters that a chunk has from the piece before its own. *)
Taken(P, i) == IF i = 1 THEN {} ELSE LettersOf(Overlap(P[i - 1], P[i]))

LEMMA ChunkFacts ==
    ASSUME NEW P, InOrder(P), Fit(P), NEW i \in DOMAIN P
    PROVE  LET C == AddChunkOverlap(P)
           IN  /\ ~Blank(C[i]) /\ Len(C[i]) <= chunk_size
               /\ Increasing(C[i]) /\ LettersOf(C[i]) = Taken(P, i) \cup LettersOf(P[i])
               /\ Taken(P, i) \subseteq (IF i = 1 THEN {} ELSE LettersOf(P[i - 1]))
               /\ IsFiniteSet(Taken(P, i)) /\ Cardinality(Taken(P, i)) <= chunk_overlap
<1> DEFINE C == AddChunkOverlap(P)
           previous == P[i - 1]
           chunk == P[i]
           overlap == Overlap(previous, chunk)
<1>1. Len(P) \in Nat /\ DOMAIN P = 1 .. Len(P)
      /\ \A k \in DOMAIN P : P[k] \in Texts /\ Increasing(P[k]) /\ ~Blank(P[k]) /\ Len(P[k]) <= chunk_size
  BY PiecesFacts DEF InOrder, Fit
<1>2. C[i] = IF i = 1 THEN P[1] ELSE overlap \o chunk
  BY DEF AddChunkOverlap
<1>3. chunk_overlap \in Nat
  BY SizeAssumption, SettingsAssumption DEF chunk_overlap, Least
<1> HIDE DEF C
<1>4. CASE i = 1
  <2>1. C[i] = P[i] /\ Taken(P, i) = {}
    BY <1>2, <1>4 DEF Taken
  <2>2. IsFiniteSet({}) /\ Cardinality({}) = 0
    BY FS_EmptySet
  <2>3. ~Blank(P[i]) /\ Len(P[i]) <= chunk_size /\ Increasing(P[i])
    BY <1>1
  <2>4. LettersOf(P[i]) = Taken(P, i) \cup LettersOf(P[i])
    BY <2>1
  <2>5. IsFiniteSet(Taken(P, i)) /\ Cardinality(Taken(P, i)) <= chunk_overlap
    BY <1>3, <2>1, <2>2
  <2>6. Taken(P, i) \subseteq (IF i = 1 THEN {} ELSE LettersOf(P[i - 1]))
    BY <2>1
  <2>7. ~Blank(C[i]) /\ Len(C[i]) <= chunk_size /\ Increasing(C[i])
        /\ LettersOf(C[i]) = Taken(P, i) \cup LettersOf(P[i])
    BY <2>1, <2>3, <2>4
  <2> QED  BY <2>5, <2>6, <2>7 DEF C
<1>5. CASE i # 1
  <2>1. i - 1 \in DOMAIN P /\ i - 1 < i
    BY <1>1, <1>5
  <2>2. /\ previous \in Texts /\ Increasing(previous) /\ chunk \in Texts /\ Increasing(chunk)
        /\ ~Blank(chunk) /\ Len(chunk) <= chunk_size
    BY <1>1, <2>1
  <2>3. Before(LettersOf(previous), LettersOf(chunk))
    BY <2>1 DEF InOrder
  <2>4. C[i] = overlap \o chunk /\ Taken(P, i) = LettersOf(overlap)
    BY <1>2, <1>5 DEF Taken
  <2> HIDE DEF previous, chunk
  <2>5. /\ overlap \in Texts /\ Increasing(overlap)
        /\ LettersOf(overlap) \subseteq LettersOf(previous)
        /\ Len(overlap) + Len(chunk) <= chunk_size
        /\ IsFiniteSet(LettersOf(overlap)) /\ Cardinality(LettersOf(overlap)) <= chunk_overlap
    BY <2>2, OverlapFacts
  <2> HIDE DEF overlap
  <2>6. Before(LettersOf(overlap), LettersOf(chunk))
    BY <2>3, <2>5 DEF Before
  <2>7. /\ Len(overlap \o chunk) = Len(overlap) + Len(chunk) /\ Increasing(overlap \o chunk)
        /\ LettersOf(overlap \o chunk) = LettersOf(overlap) \cup LettersOf(chunk)
        /\ ~Blank(overlap) \/ ~Blank(chunk) => ~Blank(overlap \o chunk)
    BY <2>2, <2>5, <2>6, ConcatText
  <2> QED  BY <1>5, <2>2, <2>4, <2>5, <2>7 DEF C, previous, chunk
<1> QED  BY <1>4, <1>5

LEMMA ChunksOfText ==
    ASSUME text \in Texts, Increasing(text)
    PROVE  ChunksFit /\ TextKept
<1> DEFINE P == Pieces(text)
           L(i) == LettersOf(P[i])
           before(i) == IF i = 1 THEN {} ELSE L(i - 1)
<1>1. InOrder(P) /\ Fit(P) /\ AllLetters(P) = LettersOf(text)
  BY PiecesSplit DEF Splits
<1>2. chunks = AddChunkOverlap(P) /\ DOMAIN chunks = DOMAIN P
  BY DEF chunks, SplitIntoChunks, AddChunkOverlap
<1> HIDE DEF P
<1>3. ASSUME NEW i \in DOMAIN P
      PROVE  /\ ~Blank(chunks[i]) /\ Len(chunks[i]) <= chunk_size
             /\ Increasing(chunks[i]) /\ LettersOf(chunks[i]) = Taken(P, i) \cup L(i)
             /\ Taken(P, i) \subseteq before(i)
             /\ IsFiniteSet(Taken(P, i)) /\ Cardinality(Taken(P, i)) <= chunk_overlap
  BY <1>1, <1>2, ChunkFacts
<1>4. P \in Seq(Texts) /\ Len(P) \in Nat /\ DOMAIN P = 1 .. Len(P)
  BY <1>1, PiecesFacts DEF InOrder
<1>5. ASSUME NEW i \in DOMAIN P  PROVE i = 1 \/ (i - 1 \in DOMAIN P /\ before(i) = L(i - 1))
  BY <1>4
<1>6. ASSUME NEW i \in DOMAIN P, NEW j \in DOMAIN P, i < j, NEW a \in L(i), NEW b \in L(j)
      PROVE  a < b
  BY <1>1, <1>6 DEF InOrder, Before
<1>7. \A a \in Letters : a \in Int
  BY InputAssumption
<1>8. \A i \in DOMAIN P : L(i) \subseteq Letters
  BY DEF LettersOf
<1> HIDE DEF L
<1>9. ChunksFit
  <2>1. ASSUME LettersOf(text) # {}  PROVE chunks # <<>>
    <3>1. PICK i \in DOMAIN P : L(i) # {}
      BY <1>1, <2>1 DEF AllLetters, L
    <3>2. DOMAIN chunks # {}
      BY <1>2
    <3>3. DOMAIN <<>> = {}
      OBVIOUS
    <3> QED  BY <3>2, <3>3
  <2> QED  BY <1>2, <1>3, <2>1 DEF ChunksFit
<1>10. UNION {LettersOf(chunks[i]) : i \in DOMAIN chunks} = LettersOf(text)
  <2>1. AllLetters(P) = UNION {L(i) : i \in DOMAIN P}
    BY DEF AllLetters, L
  <2>2. ASSUME NEW i \in DOMAIN P  PROVE LettersOf(chunks[i]) \subseteq AllLetters(P)
    <3>1. CASE i = 1
      BY <1>3, <2>1, <3>1
    <3>2. CASE i # 1
      <4>1. i - 1 \in DOMAIN P /\ before(i) = L(i - 1)
        BY <1>5, <3>2
      <4> HIDE DEF before
      <4> QED  BY <1>3, <2>1, <4>1
    <3> QED  BY <3>1, <3>2
  <2>3. \A i \in DOMAIN P : L(i) \subseteq LettersOf(chunks[i])
    BY <1>3
  <2> QED  BY <1>1, <1>2, <2>1, <2>2, <2>3
<1>11. \A i \in DOMAIN chunks : \A m, n \in DOMAIN chunks[i] :
          m < n /\ {chunks[i][m], chunks[i][n]} \subseteq Letters => chunks[i][m] < chunks[i][n]
  BY <1>2, <1>3 DEF Increasing
<1>12. ASSUME NEW i \in DOMAIN P, NEW j \in DOMAIN P, i < j
       PROVE  LET shared == LettersOf(chunks[i]) \cap LettersOf(chunks[j])
              IN  /\ Cardinality(shared) <= chunk_overlap
                  /\ shared # {} => j = i + 1
                  /\ \A a \in LettersOf(chunks[i]), b \in LettersOf(chunks[j]) \ shared : a < b
  <2> DEFINE shared == LettersOf(chunks[i]) \cap LettersOf(chunks[j])
  <2>1. /\ LettersOf(chunks[i]) = Taken(P, i) \cup L(i) /\ Taken(P, i) \subseteq before(i)
        /\ LettersOf(chunks[j]) = Taken(P, j) \cup L(j) /\ Taken(P, j) \subseteq L(j - 1)
        /\ IsFiniteSet(Taken(P, j)) /\ Cardinality(Taken(P, j)) <= chunk_overlap
        /\ i \in Int /\ j \in Int /\ j - 1 \in DOMAIN P
    <3>1. i \in Int /\ j \in Int /\ j # 1
      BY <1>4, <1>12
    <3>2. j - 1 \in DOMAIN P /\ before(j) = L(j - 1)
      BY <1>5, <3>1
    <3> HIDE DEF before
    <3> QED  BY <1>3, <3>1, <3>2
  <2>2. ASSUME NEW k \in DOMAIN P, i < k, NEW a \in LettersOf(chunks[i]), NEW b \in L(k)
        PROVE  a < b
    <3>1. CASE a \in L(i)
      BY <1>6, <2>2, <3>1
    <3>2. CASE a \in Taken(P, i)
      <4>1. i # 1 /\ a \in before(i)
        BY <2>1, <3>2
      <4>2. i - 1 \in DOMAIN P /\ a \in L(i - 1)
        BY <1>5, <4>1
      <4>3. i - 1 < k
        BY <1>4, <2>1, <2>2
      <4> QED  BY <1>6, <4>2, <4>3
    <3> QED  BY <2>1, <2>2, <3>1, <3>2
  <2> HIDE DEF before
  <2>3. \A b \in L(j) : b \notin LettersOf(chunks[i])
    <3> SUFFICES ASSUME NEW b \in L(j), b \in LettersOf(chunks[i])  PROVE FALSE
      OBVIOUS
    <3>1. b < b /\ b \in Int
      BY <1>7, <1>8, <1>12, <2>2
    <3> QED  BY <3>1
  <2>4. shared \subseteq Taken(P, j)
    BY <2>1, <2>3
  <2>5. Cardinality(shared) <= chunk_overlap
    <3>1. chunk_overlap \in Nat
      BY SizeAssumption, SettingsAssumption DEF chunk_overlap, Least
    <3> HIDE DEF shared
    <3>2. IsFiniteSet(shared) /\ Cardinality(shared) <= Cardinality(Taken(P, j))
      BY <2>1, <2>4, FS_Subset
    <3>3. Cardinality(shared) \in Nat /\ Cardinality(Taken(P, j)) \in Nat
      BY <2>1, <3>2, FS_CardinalityType
    <3> QED  BY <2>1, <3>1, <3>2, <3>3
  <2>6. ASSUME j # i + 1, NEW a \in LettersOf(chunks[i]), NEW b \in LettersOf(chunks[j])
        PROVE  a < b
    <3>1. i < j - 1
      BY <1>12, <2>1, <2>6
    <3>2. CASE b \in L(j)
      BY <1>12, <2>2, <3>2
    <3>3. CASE b \in L(j - 1)
      BY <2>1, <2>2, <3>1, <3>3
    <3> QED  BY <2>1, <2>6, <3>2, <3>3
  <2>7. ASSUME shared # {}  PROVE j = i + 1
    <3> SUFFICES ASSUME j # i + 1  PROVE FALSE
      OBVIOUS
    <3>1. PICK b : b \in LettersOf(chunks[i]) /\ b \in LettersOf(chunks[j])
      BY <2>7
    <3>2. b < b /\ b \in Int
      BY <1>7, <2>6, <3>1 DEF LettersOf
    <3> QED  BY <3>2
  <2>8. ASSUME NEW a \in LettersOf(chunks[i]), NEW b \in LettersOf(chunks[j]) \ shared
        PROVE  a < b
    <3>1. CASE b \in L(j)
      BY <1>12, <2>2, <3>1
    <3>2. CASE b \notin L(j)
      <4>1. b \in L(j - 1) /\ b \notin LettersOf(chunks[i])
        BY <2>1, <3>2
      <4>2. j # i + 1
        <5> SUFFICES ASSUME j = i + 1  PROVE FALSE
          OBVIOUS
        <5>1. j - 1 = i
          BY <2>1
        <5> QED  BY <2>1, <4>1, <5>1
      <4> QED  BY <2>6, <4>2
    <3> QED  BY <3>1, <3>2
  <2> QED  BY <2>5, <2>7, <2>8
<1>13. TextKept
  BY <1>2, <1>10, <1>11, <1>12 DEF TextKept
<1> QED  BY <1>9, <1>13

(* The letters of a document are its own places. *)
TextInv == text \in Texts /\ \A i \in DOMAIN text : text[i] \in Letters => text[i] = i

LEMMA TextStep == TextInv /\ [Next]_vars => TextInv'
<1> SUFFICES ASSUME TextInv, [Next]_vars  PROVE TextInv'
  OBVIOUS
<1>1. CASE LongerText
  <2> DEFINE T == Letters \cup {Space, NewLine, Stop}
  <2>1. PICK char \in {Len(text) + 1, Space, NewLine, Stop} : text' = Append(text, char)
    BY <1>1 DEF LongerText
  <2>2. text \in Seq(T) /\ Len(text) \in Nat /\ DOMAIN text = 1 .. Len(text)
    BY TextFacts DEF TextInv, Texts
  <2>3. Len(text) + 1 \in Letters
    BY <1>1, <2>2, InputAssumption DEF LongerText
  <2>4. char \in T /\ (char \in Letters => char = Len(text) + 1)
    BY <2>1, <2>3, CharactersAssumption
  <2>5. /\ text' \in Seq(T) /\ Len(text') = Len(text) + 1 /\ text'[Len(text) + 1] = char
        /\ \A i \in 1 .. Len(text) : text'[i] = text[i]
    <3> HIDE DEF T
    <3> QED  BY <2>1, <2>2, <2>4, AppendProperties
  <2>6. DOMAIN text' = 1 .. Len(text) + 1
    <3> HIDE DEF T
    <3> QED  BY <2>5, LenProperties
  <2>7. \A i \in DOMAIN text' : text'[i] \in Letters => text'[i] = i
    <3> SUFFICES ASSUME NEW i \in 1 .. Len(text) + 1, text'[i] \in Letters  PROVE text'[i] = i
      BY <2>6
    <3>1. CASE i = Len(text) + 1
      BY <2>4, <2>5, <3>1
    <3>2. CASE i \in 1 .. Len(text)
      BY <2>2, <2>5, <3>2 DEF TextInv
    <3> QED  BY <2>2, <3>1, <3>2
  <2> QED  BY <2>5, <2>7 DEF TextInv, Texts
<1>2. CASE AnotherQuestion \/ AnotherLine \/ UNCHANGED vars
  <2>1. text' = text
    BY <1>2 DEF AnotherQuestion, AnotherLine, vars
  <2> QED  BY <2>1 DEF TextInv, Texts
<1> QED  BY <1>1, <1>2 DEF Next

LEMMA TextInvHolds == Spec => []TextInv
<1>1. Init => TextInv
  BY EmptySeq DEF Init, TextInv, Texts
<1> QED  BY <1>1, TextStep, PTL DEF Spec

LEMMA TextInvImplies == TextInv => ChunksFit /\ TextKept
<1> SUFFICES ASSUME TextInv  PROVE ChunksFit /\ TextKept
  OBVIOUS
<1>1. text \in Texts /\ DOMAIN text = 1 .. Len(text) /\ Increasing(text)
  BY TextFacts DEF TextInv, Increasing
<1> QED  BY <1>1, ChunksOfText

(* Whatever the document and the settings, no chunk that split_into_chunks   *)
(* gives is blank or longer than chunk_size, overlap and all, and none is    *)
(* missing for a document that says something.                               *)
THEOREM AllChunksFit == Spec => []ChunksFit
  BY TextInvHolds, TextInvImplies, PTL

(* Whatever the document and the settings, the chunks hold every letter of   *)
(* it in its place, and share with the one before no more than the overlap:  *)
(* the splits, the merges and the trims of split_into_chunks lose nothing.   *)
THEOREM TheTextIsKept == Spec => []TextKept
  BY TextInvHolds, TextInvImplies, PTL

----
(* Chunks for a question. *)

LEMMA FirstOfMembers ==
    ASSUME NEW T, NEW s \in Seq(T), NEW n \in Nat
    PROVE  /\ FirstOf(s, n) \in Seq(T) /\ Len(FirstOf(s, n)) = Least(n, Len(s))
           /\ \A i \in 1 .. Len(FirstOf(s, n)) : FirstOf(s, n)[i] = s[i]
           /\ Len(s) \in Nat /\ Len(FirstOf(s, n)) \in Nat /\ Len(FirstOf(s, n)) <= Len(s)
           /\ Range(FirstOf(s, n)) \subseteq Range(s)
           /\ IsInjective(s) => IsInjective(FirstOf(s, n))
<1> DEFINE m == IF n < Len(s) THEN n ELSE Len(s)
<1>1. Len(s) \in Nat /\ DOMAIN s = 1 .. Len(s) /\ \A i \in 1 .. Len(s) : s[i] \in T
  BY LenProperties, ElementOfSeq
<1>2. m \in Nat /\ m <= Len(s) /\ m = Least(n, Len(s)) /\ \A i \in 1 .. m : s[i] \in T /\ i \in 1 .. Len(s)
  BY <1>1 DEF Least
<1> HIDE DEF m
<1>3. FirstOf(s, n) = SubSeq(s, 1, m)
  BY DEF FirstOf, m
<1>4. /\ SubSeq(s, 1, m) \in Seq(T) /\ Len(SubSeq(s, 1, m)) = m
      /\ \A i \in 1 .. m : SubSeq(s, 1, m)[i] = s[i]
  <2>1. /\ SubSeq(s, 1, m) \in Seq(T)
        /\ Len(SubSeq(s, 1, m)) = IF 1 <= m THEN m - 1 + 1 ELSE 0
        /\ \A i \in 1 .. m - 1 + 1 : SubSeq(s, 1, m)[i] = s[1 + i - 1]
    <3>1. 1 \in Int /\ m \in Int /\ \A i \in 1 .. m : s[i] \in T
      BY <1>2
    <3> QED  BY ONLY <3>1, SubSeqProperties
  <2> QED  BY <1>2, <2>1
<1>5. DOMAIN SubSeq(s, 1, m) = 1 .. m
  BY <1>4, LenProperties
<1> QED  BY <1>1, <1>2, <1>3, <1>4, <1>5 DEF Range, IsInjective

(* What Deduped keeps, by the place at[n] that its member n has in items:    *)
(* every key is kept, none twice, and the first places if their keys differ. *)
KeptAt(at, kept, items, keys) ==
    /\ at \in [1 .. Len(kept) -> 1 .. Len(items)]
    /\ \A n \in 1 .. Len(kept) : kept[n] = items[at[n]]
    /\ \A m, n \in 1 .. Len(kept) : keys[at[m]] = keys[at[n]] => m = n
    /\ \A i \in 1 .. Len(items) : \E n \in 1 .. Len(kept) : keys[at[n]] = keys[i]
    /\ \A k \in 0 .. Len(items) :
         (\A i, j \in 1 .. k : keys[i] = keys[j] => i = j) =>
            k <= Len(kept) /\ \A n \in 1 .. k : at[n] = n

LEMMA DedupedMembers ==
    ASSUME NEW T, NEW items \in Seq(T), NEW K, NEW keys \in [1 .. Len(items) -> K]
    PROVE  /\ Deduped(items, keys) \in Seq(T)
           /\ \E at : KeptAt(at, Deduped(items, keys), items, keys)
<1> DEFINE S == {i \in 1 .. Len(items) : \A j \in 1 .. i - 1 : keys[j] # keys[i]}
           deduped == Selected(items, S)
           size == Cardinality(S)
           at == [n \in 1 .. size |-> Nth(S, n)]
<1>1. Len(items) \in Nat /\ DOMAIN items = 1 .. Len(items) /\ \A i \in 1 .. Len(items) : items[i] \in T
  BY LenProperties, ElementOfSeq
<1>2. Deduped(items, keys) = deduped
  BY <1>1 DEF Deduped
<1>3. S \in SUBSET Nat /\ S \in SUBSET (Nat \ {0}) /\ IsFiniteSet(S) /\ S \subseteq 1 .. Len(items)
  <2>1. IsFiniteSet(1 .. Len(items)) /\ S \in SUBSET (1 .. Len(items))
    BY <1>1, FS_Interval
  <2>2. IsFiniteSet(S)
    <3> HIDE DEF S
    <3> QED  BY <2>1, FS_Subset
  <2> QED  BY <1>1, <2>1, <2>2
<1>4. ASSUME NEW i \in S, NEW j \in S, keys[i] = keys[j]  PROVE i = j
  <2>1. ~(i < j) /\ ~(j < i)
    BY <1>3, <1>4
  <2> QED  BY <1>3, <2>1
<1>5. ASSUME NEW i \in 1 .. Len(items)  PROVE \E j \in S : keys[j] = keys[i]
  <2> DEFINE same == {j \in 1 .. Len(items) : keys[j] = keys[i]}
  <2>1. PICK j \in same : \A k \in same : j <= k
    <3>1. same \in SUBSET Nat /\ same # {}
      BY <1>1
    <3> HIDE DEF same
    <3> QED  BY <3>1, LeastNat
  <2>2. \A k \in 1 .. j - 1 : keys[k] # keys[j]
    BY <1>1, <2>1
  <2> QED  BY <2>1, <2>2
<1>6. /\ size \in Nat /\ deduped \in Seq(T) /\ Len(deduped) = size
      /\ \A n \in 1 .. size : Nth(S, n) \in S /\ deduped[n] = items[Nth(S, n)]
      /\ \A i \in S : Rank(S, i) \in 1 .. size /\ Nth(S, Rank(S, i)) = i
  <2>1. \A i \in S : items[i] \in T
    BY <1>1, <1>3
  <2> HIDE DEF S
  <2> QED  BY <1>3, <2>1, SelectedMembers
<1>7. ASSUME NEW m \in 1 .. size, NEW n \in 1 .. size, Nth(S, m) = Nth(S, n)  PROVE m = n
  <2> HIDE DEF S
  <2> QED  BY <1>3, <1>7, NthMember
<1>8. \A m, n \in 1 .. size : keys[at[m]] = keys[at[n]] => m = n
  <2> HIDE DEF S
  <2> QED  BY <1>4, <1>6, <1>7
<1>9. \A i \in 1 .. Len(items) : \E n \in 1 .. size : keys[at[n]] = keys[i]
  <2> HIDE DEF S
  <2> QED  BY <1>5, <1>6
<1>10. ASSUME NEW k \in 0 .. Len(items), \A i, j \in 1 .. k : keys[i] = keys[j] => i = j
       PROVE  k <= size /\ \A n \in 1 .. k : at[n] = n
  <2>1. k \in Nat /\ 1 .. k \subseteq S
    BY <1>1, <1>10
  <2> HIDE DEF S
  <2>2. k <= size /\ \A n \in 1 .. k : Nth(S, n) = n
    BY <1>3, <2>1, NthOfFirst
  <2> QED  BY <1>6, <2>1, <2>2
<1>11. at \in [1 .. size -> 1 .. Len(items)] /\ \A n \in 1 .. size : deduped[n] = items[at[n]]
  <2> HIDE DEF S
  <2> QED  BY <1>3, <1>6
<1>12. Deduped(items, keys) \in Seq(T) /\ Len(Deduped(items, keys)) = size
  BY <1>2, <1>6
<1>13. \A n \in 1 .. size : Deduped(items, keys)[n] = items[at[n]]
  BY <1>2, <1>11
<1> HIDE DEF S, at, size
<1>14. KeptAt(at, Deduped(items, keys), items, keys)
  BY <1>8, <1>9, <1>10, <1>11, <1>12, <1>13 DEF KeptAt
<1> QED  BY <1>12, <1>14

(* A ranking has every chunk at one place. *)
LEMMA RankingMembers ==
    ASSUME NEW ranking \in SetToSeqs(Chunks)
    PROVE  /\ ranking \in Seq(Chunks) /\ IsInjective(ranking)
           /\ DOMAIN ranking = 1 .. Len(ranking) /\ Len(ranking) \in Nat
           /\ Range(ranking) = Chunks
<1> DEFINE size == Cardinality(Chunks)
<1>1. size \in Nat /\ IsFiniteSet(Chunks)
  BY InputAssumption, FS_CardinalityType
<1>2. ranking \in [1 .. size -> Chunks] /\ IsInjective(ranking)
  BY DEF SetToSeqs, IsInjective
<1>3. ranking \in Seq(Chunks) /\ Len(ranking) = size
  <2> HIDE DEF size
  <2>1. ranking \in Seq(Chunks)
    BY <1>1, <1>2, SeqDef
  <2> QED  BY <1>1, <1>2, <2>1, LenProperties
<1>4. IsFiniteSet(Range(ranking)) /\ Cardinality(Range(ranking)) = size
  BY <1>2, <1>3, DistinctCardinality
<1>5. Range(ranking) = Chunks
  <2>1. Range(ranking) \in SUBSET Chunks
    BY <1>2 DEF Range
  <2> QED  BY <1>1, <1>4, <2>1, FS_Subset
<1> QED  BY <1>1, <1>2, <1>3, <1>5

Asked == Queries \cup {question}

Recalls == [answer : Answers, rankings : Rankings, reranking : SetToSeqs(Chunks) \cup {<<>>}]

LEMMA PlanMembers ==
    ASSUME NEW answer \in Answers
    PROVE  /\ RetrievalPlan(answer).rewritten_query \in Asked
           /\ RetrievalPlan(answer).sub_queries \in Seq(Asked)
<1> DEFINE items == answer.sub_queries
           usable == {i \in DOMAIN items : Usable(items[i])}
<1>1. answer.rewritten_query \in Queries \cup {Unusable}
  BY DEF Answers
<1>2. PICK m \in 0 .. MAX_RETRIEVAL_SUB_QUERIES + 1 : items \in [1 .. m -> Queries \cup {Unusable}]
  BY DEF Answers, SeqOf
<1>3. m \in Nat
  BY TopAssumption
<1>4. /\ usable \in SUBSET Nat /\ IsFiniteSet(usable)
      /\ \A i \in usable : items[i] \in Asked
  <2>1. usable \in SUBSET (1 .. m) /\ IsFiniteSet(1 .. m)
    BY <1>2, <1>3, FS_Interval
  <2>2. IsFiniteSet(usable)
    <3> HIDE DEF usable
    <3> QED  BY <2>1, FS_Subset
  <2>3. \A i \in usable : items[i] \in Asked
    BY <1>2 DEF Usable, Asked
  <2> QED  BY <1>3, <2>1, <2>2, <2>3
<1>5. Selected(items, usable) \in Seq(Asked)
  <2> HIDE DEF items, usable
  <2> QED  BY <1>4, SelectedMembers
<1>6. FirstOf(Selected(items, usable), MAX_RETRIEVAL_SUB_QUERIES) \in Seq(Asked)
  <2> HIDE DEF items, usable
  <2> QED  BY <1>5, TopAssumption, FirstOfMembers
<1> QED  BY <1>1, <1>6 DEF RetrievalPlan, Usable, Asked

(* What is searched for begins with the main query and has every key asked.  *)
LEMMA QueriesMembers ==
    ASSUME NEW plan, plan.rewritten_query \in Asked, plan.sub_queries \in Seq(Asked)
    PROVE  /\ RetrievalQueries(plan) \in Seq(Asked)
           /\ Len(RetrievalQueries(plan)) \in Nat \ {0}
           /\ RetrievalQueries(plan)[1] = plan.rewritten_query
           /\ {Key(RetrievalQueries(plan)[i]) : i \in 1 .. Len(RetrievalQueries(plan))} = Intents(plan)
<1> DEFINE queries == <<plan.rewritten_query>> \o plan.sub_queries
           keys == [i \in DOMAIN queries |-> Key(queries[i])]
           kept == RetrievalQueries(plan)
<1>1. /\ queries \in Seq(Asked) /\ Len(queries) \in Nat \ {0} /\ DOMAIN queries = 1 .. Len(queries)
      /\ queries[1] = plan.rewritten_query
      /\ Range(queries) = {plan.rewritten_query} \cup Range(plan.sub_queries)
  <2> DEFINE first == <<plan.rewritten_query>>
  <2>1. first \in Seq(Asked) /\ Len(first) = 1 /\ first[1] = plan.rewritten_query
        /\ Range(first) = {plan.rewritten_query}
    BY DEF Range
  <2>2. Len(plan.sub_queries) \in Nat
    BY LenProperties
  <2> HIDE DEF first
  <2>3. first \o plan.sub_queries \in Seq(Asked)
        /\ Len(first \o plan.sub_queries) = 1 + Len(plan.sub_queries)
        /\ (first \o plan.sub_queries)[1] = plan.rewritten_query
    BY <2>1, <2>2, ConcatProperties
  <2>4. Range(first \o plan.sub_queries) = {plan.rewritten_query} \cup Range(plan.sub_queries)
    BY <2>1, RangeConcatenation
  <2>5. DOMAIN (first \o plan.sub_queries) = 1 .. Len(first \o plan.sub_queries)
    BY <2>3, LenProperties
  <2> QED  BY <2>2, <2>3, <2>4, <2>5 DEF first
<1>2. kept = Deduped(queries, keys)
  BY DEF RetrievalQueries
<1> HIDE DEF queries
<1>3. keys \in [1 .. Len(queries) -> {Key(query) : query \in Asked}]
  BY <1>1, ElementOfSeq
<1>4. /\ kept \in Seq(Asked)
      /\ \E at : KeptAt(at, kept, queries, keys)
  <2> HIDE DEF kept, keys
  <2> QED  BY <1>1, <1>2, <1>3, DedupedMembers
<1> HIDE DEF kept
<1>5. PICK at : KeptAt(at, kept, queries, keys)
  BY <1>4
<1>6. Len(kept) \in Nat
  BY <1>4, LenProperties
<1>7. 1 <= Len(kept) /\ at[1] = 1 /\ kept[1] = queries[1]
  <2>1. 1 \in 0 .. Len(queries) /\ \A i, j \in 1 .. 1 : i = j
    BY <1>1
  <2>2. 1 <= Len(kept) /\ \A n \in 1 .. 1 : at[n] = n
    BY <1>5, <2>1 DEF KeptAt
  <2>3. 1 \in 1 .. Len(kept) /\ at[1] = 1
    BY <1>6, <2>2
  <2> QED  BY <1>5, <2>2, <2>3 DEF KeptAt
<1>8. {Key(kept[n]) : n \in 1 .. Len(kept)} = {Key(query) : query \in Range(queries)}
  <2>1. ASSUME NEW n \in 1 .. Len(kept)  PROVE kept[n] \in Range(queries)
    <3>1. at[n] \in 1 .. Len(queries) /\ kept[n] = queries[at[n]]
      BY <1>5 DEF KeptAt
    <3> QED  BY <1>1, <3>1 DEF Range
  <2>2. ASSUME NEW query \in Range(queries)
        PROVE  \E n \in 1 .. Len(kept) : Key(kept[n]) = Key(query)
    <3>1. PICK i \in 1 .. Len(queries) : query = queries[i]
      BY <1>1 DEF Range
    <3>2. PICK n \in 1 .. Len(kept) : keys[at[n]] = keys[i]
      BY <1>5 DEF KeptAt
    <3>3. at[n] \in 1 .. Len(queries) /\ kept[n] = queries[at[n]]
      BY <1>5 DEF KeptAt
    <3> QED  BY <1>1, <3>1, <3>2, <3>3
  <2> QED  BY <2>1, <2>2
<1>9. {Key(kept[n]) : n \in 1 .. Len(kept)} = Intents(plan)
  BY <1>1, <1>8 DEF Intents
<1>10. Len(kept) \in Nat \ {0} /\ kept[1] = plan.rewritten_query
  BY <1>1, <1>6, <1>7
<1> QED  BY <1>4, <1>9, <1>10 DEF kept

(* The chunks found for the queries, each once, the main query's first.      *)
LEMMA RetrievedMembers ==
    ASSUME NEW queries \in Seq(Asked), Len(queries) \in Nat \ {0},
           NEW rankings \in [{Key(query) : query \in Asked} -> SetToSeqs(Chunks)]
    PROVE  LET retrieved == Retrieved(queries, rankings)
               main == FirstOf(rankings[Key(queries[1])], RAG_RETRIEVE_TOP_K)
               keys == {Key(queries[i]) : i \in 1 .. Len(queries)}
           IN  /\ retrieved \in Seq(Chunks) /\ IsInjective(retrieved)
               /\ Range(retrieved) = UNION {Range(FirstOf(rankings[key], RAG_RETRIEVE_TOP_K)) : key \in keys}
               /\ main \in Seq(Chunks) /\ Len(main) <= Len(retrieved)
               /\ \A j \in 1 .. Len(main) : retrieved[j] = main[j]
<1> DEFINE seqs == [i \in DOMAIN queries |-> FirstOf(rankings[Key(queries[i])], RAG_RETRIEVE_TOP_K)]
           sources == FlattenSeq(seqs)
           n == Len(queries)
           main == FirstOf(rankings[Key(queries[1])], RAG_RETRIEVE_TOP_K)
           retrieved == Retrieved(queries, rankings)
           keys == {Key(queries[i]) : i \in 1 .. n}
<1>1. DOMAIN queries = 1 .. n /\ \A i \in 1 .. n : rankings[Key(queries[i])] \in SetToSeqs(Chunks)
  BY LenProperties, ElementOfSeq
<1>2. ASSUME NEW i \in 1 .. n
      PROVE  seqs[i] \in Seq(Chunks) /\ IsInjective(seqs[i])
  <2> DEFINE ranking == rankings[Key(queries[i])]
  <2>1. ranking \in Seq(Chunks) /\ IsInjective(ranking)
    <3>1. ranking \in SetToSeqs(Chunks)
      BY <1>1
    <3> HIDE DEF ranking
    <3> QED  BY <3>1, RankingMembers
  <2>2. seqs[i] = FirstOf(ranking, RAG_RETRIEVE_TOP_K)
    BY <1>1
  <2> HIDE DEF ranking
  <2> QED  BY <2>1, <2>2, TopAssumption, FirstOfMembers
<1>3. seqs \in Seq(Seq(Chunks)) /\ Len(seqs) = n
  <2> DEFINE S == Seq(Chunks)
  <2>1. seqs \in [1 .. n -> S]
    BY <1>1, <1>2
  <2>2. seqs \in Seq(S)
    <3> HIDE DEF seqs, S
    <3> QED  BY <2>1, SeqDef
  <2> HIDE DEF seqs
  <2> QED  BY <2>1, <2>2, LenProperties
<1>4. seqs[1] = main /\ main \in Seq(Chunks) /\ IsInjective(main) /\ Len(main) \in Nat
  <2>1. 1 \in 1 .. n /\ seqs[1] = main
    BY <1>1
  <2>2. seqs[1] \in Seq(Chunks) /\ IsInjective(seqs[1])
    BY <1>2, <2>1
  <2> QED  BY <2>1, <2>2, LenProperties
<1>5. /\ sources \in Seq(Chunks)
      /\ Range(sources) = UNION {Range(seqs[i]) : i \in 1 .. n}
      /\ Len(main) <= Len(sources) /\ \A j \in 1 .. Len(main) : sources[j] = main[j]
  <2>1. /\ sources \in Seq(Chunks)
        /\ Range(sources) = UNION {Range(seqs[i]) : i \in 1 .. Len(seqs)}
        /\ Len(seqs) > 0 =>
             /\ Len(seqs[1]) <= Len(sources)
             /\ \A j \in 1 .. Len(seqs[1]) : sources[j] = seqs[1][j]
    <3> HIDE DEF seqs
    <3> QED  BY <1>3, FlattenMembers
  <2> HIDE DEF sources, seqs, main
  <2> QED  BY <1>3, <1>4, <2>1
<1>6. retrieved = Deduped(sources, sources)
  BY DEF Retrieved
<1>7. UNION {Range(seqs[i]) : i \in 1 .. n} =
        UNION {Range(FirstOf(rankings[key], RAG_RETRIEVE_TOP_K)) : key \in keys}
  BY <1>1
<1>8. /\ Len(sources) \in Nat /\ DOMAIN sources = 1 .. Len(sources)
      /\ sources \in [1 .. Len(sources) -> Chunks]
  BY <1>5, LenProperties
<1> HIDE DEF sources, seqs
<1>9. retrieved \in Seq(Chunks) /\ \E at : KeptAt(at, retrieved, sources, sources)
  <2> HIDE DEF retrieved
  <2> QED  BY <1>5, <1>6, <1>8, DedupedMembers
<1>10. PICK at : KeptAt(at, retrieved, sources, sources)
  BY <1>9
<1> HIDE DEF retrieved, main, keys
<1>11. Len(retrieved) \in Nat /\ DOMAIN retrieved = 1 .. Len(retrieved)
  BY <1>9, LenProperties
<1>12. IsInjective(retrieved)
  BY <1>10, <1>11 DEF KeptAt, IsInjective
<1>13. Range(retrieved) = Range(sources)
  <2>1. \A i \in 1 .. Len(retrieved) : retrieved[i] \in Range(sources)
    <3> SUFFICES ASSUME NEW i \in 1 .. Len(retrieved)  PROVE retrieved[i] \in Range(sources)
      OBVIOUS
    <3>1. at[i] \in 1 .. Len(sources) /\ retrieved[i] = sources[at[i]]
      BY <1>10 DEF KeptAt
    <3> QED  BY <1>8, <3>1 DEF Range
  <2>2. \A i \in 1 .. Len(sources) : \E m \in 1 .. Len(retrieved) : retrieved[m] = sources[i]
    BY <1>10 DEF KeptAt
  <2> QED  BY <1>8, <1>11, <2>1, <2>2 DEF Range
<1>14. Len(main) <= Len(retrieved) /\ \A j \in 1 .. Len(main) : retrieved[j] = main[j]
  <2>1. DOMAIN main = 1 .. Len(main)
    BY <1>4, LenProperties
  <2>2. Len(main) \in 0 .. Len(sources)
        /\ \A i, j \in 1 .. Len(main) : sources[i] = sources[j] => i = j
    BY <1>4, <1>5, <1>8, <2>1 DEF IsInjective
  <2>3. Len(main) <= Len(retrieved) /\ \A j \in 1 .. Len(main) : at[j] = j
    BY <1>10, <2>2 DEF KeptAt
  <2>4. ASSUME NEW j \in 1 .. Len(main)  PROVE retrieved[j] = main[j]
    <3>1. j \in 1 .. Len(retrieved) /\ at[j] = j
      BY <1>4, <1>11, <2>3
    <3>2. retrieved[j] = sources[at[j]]
      BY <1>10, <3>1 DEF KeptAt
    <3> QED  BY <1>5, <3>1, <3>2
  <2> QED  BY <2>3, <2>4
<1> QED  BY <1>4, <1>5, <1>7, <1>9, <1>12, <1>13, <1>14 DEF retrieved, main, keys

LEMMA OrderedMembers ==
    ASSUME NEW ranking \in SetToSeqs(Chunks), NEW sources \in Seq(Chunks)
    PROVE  LET ordered == Ordered(sources, ranking)
           IN  /\ ordered \in Seq(Chunks) /\ IsInjective(ordered)
               /\ Range(ordered) = Range(sources)
               /\ \A m, n \in 1 .. Len(ordered) : m < n =>
                    Position(ranking, ordered[m]) < Position(ranking, ordered[n])
<1> DEFINE S == {i \in DOMAIN ranking : ranking[i] \in Range(sources)}
           ordered == Ordered(sources, ranking)
<1>1. /\ ranking \in Seq(Chunks) /\ IsInjective(ranking)
      /\ DOMAIN ranking = 1 .. Len(ranking) /\ Len(ranking) \in Nat
      /\ Range(ranking) = Chunks
  BY RankingMembers
<1>2. S \in SUBSET Nat /\ IsFiniteSet(S) /\ S \subseteq DOMAIN ranking
  <2>1. S \in SUBSET (1 .. Len(ranking)) /\ IsFiniteSet(1 .. Len(ranking))
    BY <1>1, FS_Interval
  <2>2. IsFiniteSet(S)
    <3> HIDE DEF S
    <3> QED  BY <2>1, FS_Subset
  <2> QED  BY <1>1, <2>1, <2>2
<1>3. \A i \in S : ranking[i] \in Chunks /\ ranking[i] \in Range(sources)
  BY <1>1, ElementOfSeq
<1>4. \A i, j \in S : ranking[i] = ranking[j] => i = j
  BY <1>1, <1>2 DEF IsInjective
<1>5. ordered = Selected(ranking, S)
  BY DEF Ordered
<1> DEFINE size == Cardinality(S)
<1>6. /\ size \in Nat /\ ordered \in Seq(Chunks) /\ Len(ordered) = size
      /\ \A n \in 1 .. size : Nth(S, n) \in S /\ ordered[n] = ranking[Nth(S, n)]
      /\ Range(ordered) = {ranking[i] : i \in S}
  <2> HIDE DEF S, ordered
  <2> QED  BY <1>2, <1>3, <1>5, SelectedMembers
<1>7. IsInjective(ordered)
  <2> HIDE DEF S, ordered
  <2> QED  BY <1>2, <1>3, <1>4, <1>5, SelectedDistinct
<1>8. Range(ordered) = Range(sources)
  <2>1. ASSUME NEW chunk \in Range(sources)  PROVE \E i \in S : ranking[i] = chunk
    <3>1. chunk \in Range(ranking)
      BY <1>1, RangeOfSeq
    <3> QED  BY <3>1 DEF Range
  <2> HIDE DEF S, ordered
  <2> QED  BY <1>3, <1>6, <2>1
<1>9. ASSUME NEW m \in 1 .. size, NEW n \in 1 .. size, m < n
      PROVE  Position(ranking, ordered[m]) < Position(ranking, ordered[n])
  <2> HIDE DEF S, ordered
  <2>1. Nth(S, m) < Nth(S, n)
    BY <1>2, <1>9, NthOrder
  <2>2. ASSUME NEW k \in 1 .. size  PROVE Position(ranking, ordered[k]) = Nth(S, k)
    <3>1. Nth(S, k) \in DOMAIN ranking /\ ordered[k] = ranking[Nth(S, k)]
      BY <1>2, <1>6
    <3>2. \A i \in DOMAIN ranking : ranking[i] = ordered[k] => i = Nth(S, k)
      BY <1>1, <3>1 DEF IsInjective
    <3> QED  BY <3>1, <3>2 DEF Position
  <2> QED  BY <2>1, <2>2
<1> QED  BY <1>6, <1>7, <1>8, <1>9

LEMMA RecallGives ==
    ASSUME recall \in Recalls
    PROVE  BestChunksGiven
<1> DEFINE plan == RetrievalPlan(recall.answer)
           queries == RetrievalQueries(plan)
           retrieved == Retrieved(queries, recall.rankings)
           main == FirstOf(recall.rankings[Key(plan.rewritten_query)], RAG_RETRIEVE_TOP_K)
           found == UNION {Range(FirstOf(recall.rankings[key], RAG_RETRIEVE_TOP_K)) :
                             key \in Intents(plan)}
           given == RetrievedDocs(recall)
           best == IF recall.reranking = <<>> THEN retrieved ELSE Ordered(retrieved, recall.reranking)
<1>1. plan.rewritten_query \in Asked /\ plan.sub_queries \in Seq(Asked)
  BY PlanMembers DEF Recalls
<1>2. /\ queries \in Seq(Asked) /\ Len(queries) \in Nat \ {0}
      /\ queries[1] = plan.rewritten_query
      /\ {Key(queries[i]) : i \in 1 .. Len(queries)} = Intents(plan)
  <2> HIDE DEF plan
  <2> QED  BY <1>1, QueriesMembers
<1>3. recall.rankings \in [{Key(query) : query \in Asked} -> SetToSeqs(Chunks)]
  BY DEF Recalls, Rankings, Asked
<1>4. /\ retrieved \in Seq(Chunks) /\ IsInjective(retrieved)
      /\ Range(retrieved) = found
      /\ main \in Seq(Chunks) /\ Len(main) <= Len(retrieved)
      /\ \A j \in 1 .. Len(main) : retrieved[j] = main[j]
  <2> DEFINE first == FirstOf(recall.rankings[Key(queries[1])], RAG_RETRIEVE_TOP_K)
             keys == {Key(queries[i]) : i \in 1 .. Len(queries)}
  <2> HIDE DEF queries, plan
  <2>1. /\ retrieved \in Seq(Chunks) /\ IsInjective(retrieved)
        /\ Range(retrieved) = UNION {Range(FirstOf(recall.rankings[key], RAG_RETRIEVE_TOP_K)) : key \in keys}
        /\ first \in Seq(Chunks) /\ Len(first) <= Len(retrieved)
        /\ \A j \in 1 .. Len(first) : retrieved[j] = first[j]
    BY <1>2, <1>3, RetrievedMembers
  <2>2. first = main /\ keys = Intents(plan)
    BY <1>2
  <2> HIDE DEF retrieved, first, keys
  <2> QED  BY <2>1, <2>2
<1>5. given = FirstOf(best, RAG_RERANK_TOP_K)
  BY DEF RetrievedDocs, Reranked
<1> HIDE DEF plan, queries, retrieved, main, found, given
<1>6. best \in Seq(Chunks) /\ IsInjective(best) /\ Range(best) = found
  <2>1. CASE recall.reranking = <<>>
    BY <1>4, <2>1
  <2>2. CASE recall.reranking # <<>>
    <3>1. recall.reranking \in SetToSeqs(Chunks)
      BY <2>2 DEF Recalls
    <3>2. LET ordered == Ordered(retrieved, recall.reranking)
          IN  ordered \in Seq(Chunks) /\ IsInjective(ordered) /\ Range(ordered) = Range(retrieved)
      BY <1>4, <3>1, OrderedMembers
    <3> QED  BY <1>4, <2>2, <3>2
  <2> QED  BY <2>1, <2>2
<1> DEFINE K == Len(given)
<1>7. /\ given \in Seq(Chunks) /\ Len(given) = Least(RAG_RERANK_TOP_K, Len(best))
      /\ \A i \in 1 .. K : given[i] = best[i]
      /\ Len(best) \in Nat /\ K \in Nat /\ K <= Len(best)
      /\ Range(given) \subseteq Range(best) /\ IsInjective(given)
      /\ DOMAIN given = 1 .. K /\ DOMAIN best = 1 .. Len(best)
  <2> HIDE DEF best
  <2> QED  BY <1>5, <1>6, TopAssumption, FirstOfMembers, LenProperties
<1>8. Cardinality(Range(given)) = Len(given) /\ Cardinality(found) = Len(best)
  <2> HIDE DEF best
  <2> QED  BY <1>6, <1>7, DistinctCardinality
<1>9. ASSUME recall.reranking # <<>>,
             NEW chunk \in Range(given), NEW other \in found \ Range(given)
      PROVE  Position(recall.reranking, chunk) < Position(recall.reranking, other)
  <2>1. recall.reranking \in SetToSeqs(Chunks)
    BY <1>9 DEF Recalls
  <2>2. \A m, n \in 1 .. Len(best) : m < n =>
           Position(recall.reranking, best[m]) < Position(recall.reranking, best[n])
    BY <1>4, <1>9, <2>1, OrderedMembers
  <2> HIDE DEF best
  <2>3. PICK m \in 1 .. K : chunk = best[m]
    BY <1>7 DEF Range
  <2>4. PICK n \in 1 .. Len(best) : other = best[n]
    BY <1>6, <1>7 DEF Range
  <2>5. n \notin 1 .. K
    BY <1>7, <2>4 DEF Range
  <2> QED  BY <1>7, <2>2, <2>3, <2>4, <2>5
<1>10. ASSUME recall.reranking = <<>>  PROVE IsPrefix(given, main) \/ IsPrefix(main, given)
  <2>1. best = retrieved
    BY <1>10
  <2>2. Len(main) \in Nat
    BY <1>4, LenProperties
  <2>3. /\ SubSeq(given, 1, K) = given /\ SubSeq(main, 1, Len(main)) = main
    BY <1>4, <1>7, SubSeqFull
  <2> HIDE DEF best, K
  <2>4. CASE K <= Len(main)
    <3>1. \A i \in 1 .. K : main[i] = given[i] /\ main[i] \in Chunks
      BY <1>4, <1>7, <2>1, <2>2, <2>4, ElementOfSeq
    <3>2. SubSeq(main, 1, K) = SubSeq(given, 1, K)
      <4>1. \A i \in 1 .. K : main[i] \in Chunks /\ given[i] \in Chunks
        BY <3>1
      <4> QED  BY <1>7, <3>1, <4>1, SubSeqProperties, SeqEqual
    <3> QED  BY <2>4, <3>2 DEF IsPrefix, K
  <2>5. CASE Len(main) <= K
    <3>1. \A i \in 1 .. Len(main) : main[i] = given[i] /\ main[i] \in Chunks
      BY <1>4, <1>7, <2>1, <2>2, <2>5, ElementOfSeq
    <3>2. SubSeq(main, 1, Len(main)) = SubSeq(given, 1, Len(main))
      BY <2>2, <3>1, SubSeqProperties, SeqEqual
    <3> QED  BY <2>5, <3>2 DEF IsPrefix, K
  <2> QED  BY <1>7, <2>2, <2>4, <2>5
<1>11. Len(given) = Least(RAG_RERANK_TOP_K, Cardinality(found)) /\ Range(given) \subseteq found
  BY <1>6, <1>7, <1>8
<1> QED  BY <1>8, <1>9, <1>10, <1>11 DEF BestChunksGiven, plan, main, found, given

(* The question asked is one that the functions of Recall are made for. *)
RecallInv == recall = NoRecall \/ recall \in Recalls

LEMMA RecallStep == RecallInv /\ [Next]_vars => RecallInv'
<1> SUFFICES ASSUME RecallInv, [Next]_vars  PROVE RecallInv'
  OBVIOUS
<1>1. CASE AnotherQuestion
  <2>1. recall' \in Recalls
    BY <1>1 DEF AnotherQuestion, Recalls
  <2> QED  BY <2>1 DEF RecallInv, Recalls
<1>2. CASE LongerText \/ AnotherLine \/ UNCHANGED vars
  BY <1>2 DEF LongerText, AnotherLine, vars, RecallInv, Recalls
<1> QED  BY <1>1, <1>2 DEF Next

(* For every plan a model may write, every ranking and every limit, retrieve *)
(* gives as many chunks as it may, none twice: with a rerank model its best  *)
(* of all that was found, without one the main query's first                 *)
(* (RagService.retrieve with _deduplicate_docs and _rerank_docs).            *)
THEOREM BestChunksAreGiven == Spec => []BestChunksGiven
<1>1. Init => RecallInv
  BY DEF Init, RecallInv
<1>2. RecallInv => BestChunksGiven
  <2>1. CASE recall = NoRecall
    BY <2>1 DEF BestChunksGiven
  <2>2. CASE recall \in Recalls
    BY <2>2, RecallGives
  <2> QED  BY <2>1, <2>2 DEF RecallInv
<1> QED  BY <1>1, <1>2, RecallStep, PTL DEF Spec

----
(* Answers on a connection. *)

Responses == {Answer(line) : line \in Lines}

(* What a connection's lines and answers are at any time: besides what       *)
(* AnswersInOrder says, a broken connection has a line without an answer.    *)
ConnectionInv ==
    /\ lines \in Seq(Lines)
    /\ connection \in [answers : Seq(Responses), state : {"open", "stopped", "broken"}]
    /\ Len(connection.answers) <= Len(lines)
    /\ connection.state = "broken" => Len(connection.answers) < Len(lines)
    /\ AnswersInOrder

(* An answer that is written carries its line's id, is a result for the      *)
(* methods there are, and says whether the daemon stops.                     *)
LEMMA AnswerOfLine ==
    ASSUME NEW line \in Lines, line.form # "unreadable"
    PROVE  /\ Answer(line).id = IdOf(line)
           /\ line.form = "object" /\ Valid(line) =>
                ReadResponse(Answer(line), line.id) =
                    (IF line.method \in Methods THEN "result" ELSE "JsonRpcError")
           /\ ShouldShutdown(line) <=>
                "result" \in DOMAIN Answer(line) /\ Answer(line).result = "core.shutdown"
<1>1. line.form \in {"object", "no JSON", "no object"}
  BY DEF Lines, Requests
<1>2. CASE line.form # "object"
  <2>1. Answer(line) \in {Error(Null, "PARSE_ERROR"), Error(Null, "INVALID_REQUEST")}
    BY <1>1, <1>2 DEF Answer
  <2>2. Answer(line).id = Null /\ "result" \notin DOMAIN Answer(line)
    BY <2>1 DEF Error
  <2> QED  BY <1>2, <2>2 DEF IdOf, ShouldShutdown
<1>3. CASE line.form = "object"
  <2>1. Answer(line) = Dispatch(line)
    BY <1>3 DEF Answer
  <2>2. CASE ~Valid(line)
    <3>1. Answer(line) = Error(IdOf(line), "INVALID_REQUEST")
      BY <2>1, <2>2 DEF Dispatch
    <3>2. Answer(line).id = IdOf(line) /\ "result" \notin DOMAIN Answer(line)
      BY <3>1 DEF Error
    <3> QED  BY <2>2, <3>2 DEF ShouldShutdown
  <2>3. CASE Valid(line) /\ line.method \notin Methods
    <3>1. Answer(line) = Error(line.id, "METHOD_NOT_FOUND") /\ IdOf(line) = line.id
      BY <1>3, <2>1, <2>3 DEF Dispatch, IdOf, Valid
    <3>2. /\ Answer(line).id = line.id /\ "result" \notin DOMAIN Answer(line)
          /\ "error" \in DOMAIN Answer(line)
      BY <3>1 DEF Error
    <3> QED  BY <2>3, <3>1, <3>2 DEF ShouldShutdown, ReadResponse, Methods
  <2>4. CASE Valid(line) /\ line.method \in Methods
    <3>1. Answer(line) = Result(line.id, line.method) /\ IdOf(line) = line.id
      BY <1>3, <2>1, <2>4 DEF Dispatch, IdOf, Valid
    <3>2. /\ Answer(line).id = line.id /\ "result" \in DOMAIN Answer(line)
          /\ "error" \notin DOMAIN Answer(line) /\ Answer(line).result = line.method
      BY <3>1 DEF Result
    <3> QED  BY <1>3, <2>4, <3>1, <3>2 DEF ShouldShutdown, ReadResponse
  <2> QED  BY <2>2, <2>3, <2>4
<1> QED  BY <1>2, <1>3

LEMMA ConnectionStart == Init => ConnectionInv
<1> SUFFICES ASSUME Init  PROVE ConnectionInv
  OBVIOUS
<1>1. lines = <<>> /\ connection = [answers |-> <<>>, state |-> "open"]
  BY DEF Init, NewConnection
<1>2. /\ Len(lines) = 0 /\ Len(connection.answers) = 0
      /\ lines \in Seq(Lines) /\ connection.answers \in Seq(Responses)
  BY <1>1, EmptySeq
<1> QED  BY <1>1, <1>2 DEF ConnectionInv, AnswersInOrder

LEMMA LineAnswered ==
    ASSUME ConnectionInv, AnotherLine
    PROVE  ConnectionInv'
<1> DEFINE n == Len(connection.answers)
<1>1. PICK line \in Lines : lines' = Append(lines, line) /\ connection' = HandleLine(connection, line)
  BY DEF AnotherLine
<1>2. /\ lines \in Seq(Lines) /\ Len(lines) \in Nat /\ n \in Nat /\ n <= Len(lines)
      /\ connection.answers \in Seq(Responses)
      /\ connection.state \in {"open", "stopped", "broken"}
  BY LenProperties DEF ConnectionInv
<1>3. /\ lines' \in Seq(Lines) /\ Len(lines') = Len(lines) + 1 /\ lines'[Len(lines) + 1] = line
      /\ \A k \in 1 .. Len(lines) : lines'[k] = lines[k]
  BY <1>1, <1>2, AppendProperties
<1>4. CASE connection.state # "open"
  <2>1. connection' = connection
    BY <1>1, <1>4 DEF HandleLine
  <2>2. \A k \in 1 .. n : lines'[k] = lines[k]
    BY <1>2, <1>3
  <2>3. n < Len(lines) => lines'[n + 1] = lines[n + 1]
    BY <1>2, <1>3
  <2>4. n # Len(lines') /\ n <= Len(lines') /\ n < Len(lines')
    BY <1>2, <1>3
  <2>5. AnswersInOrder'
    BY <1>2, <1>4, <2>1, <2>2, <2>3, <2>4 DEF ConnectionInv, AnswersInOrder
  <2> QED  BY <1>2, <1>3, <2>1, <2>4, <2>5 DEF ConnectionInv
<1>5. CASE connection.state = "open" /\ line.form # "unreadable" /\ Encodable(line)
  <2>1. /\ connection'.answers = Append(connection.answers, Answer(line))
        /\ connection'.state = (IF ShouldShutdown(line) THEN "stopped" ELSE "open")
        /\ connection' = [answers |-> connection'.answers, state |-> connection'.state]
    BY <1>1, <1>5 DEF HandleLine, Answered
  <2>2. n = Len(lines) /\ ~\E k \in 1 .. n : ShouldShutdown(lines[k])
    BY <1>5 DEF ConnectionInv, AnswersInOrder
  <2>3. /\ connection'.answers \in Seq(Responses) /\ Len(connection'.answers) = n + 1
        /\ connection'.answers[n + 1] = Answer(line)
        /\ \A k \in 1 .. n : connection'.answers[k] = connection.answers[k]
    <3>1. Answer(line) \in Responses
      BY DEF Responses
    <3> QED  BY <1>2, <2>1, <3>1, AppendProperties
  <2>4. \A k \in 1 .. n + 1 : k \in 1 .. n \/ k = n + 1
    BY <1>2
  <2>5. \A k \in 1 .. n + 1 :
          /\ connection'.answers[k].id = IdOf(lines'[k])
          /\ lines'[k].form = "object" /\ Valid(lines'[k]) =>
               ReadResponse(connection'.answers[k], lines'[k].id) =
                   (IF lines'[k].method \in Methods THEN "result" ELSE "JsonRpcError")
    <3> SUFFICES ASSUME NEW k \in 1 .. n + 1
                 PROVE  /\ connection'.answers[k].id = IdOf(lines'[k])
                        /\ lines'[k].form = "object" /\ Valid(lines'[k]) =>
                             ReadResponse(connection'.answers[k], lines'[k].id) =
                                 (IF lines'[k].method \in Methods THEN "result" ELSE "JsonRpcError")
      OBVIOUS
    <3>1. CASE k = n + 1
      BY <1>3, <1>5, <2>2, <2>3, <3>1, AnswerOfLine
    <3>2. CASE k \in 1 .. n
      BY <1>3, <2>2, <2>3, <3>2 DEF ConnectionInv, AnswersInOrder
    <3> QED  BY <2>4, <3>1, <3>2
  <2>6. (\E k \in 1 .. n + 1 : ShouldShutdown(lines'[k])) <=> ShouldShutdown(line)
    <3>1. n + 1 \in 1 .. n + 1 /\ 1 .. n \subseteq 1 .. n + 1
      BY <1>2
    <3> QED  BY <1>3, <2>2, <2>4, <3>1
  <2>7. ShouldShutdown(line) <=>
          /\ "result" \in DOMAIN connection'.answers[n + 1]
          /\ connection'.answers[n + 1].result = "core.shutdown"
    BY <1>5, <2>3, AnswerOfLine
  <2>8. AnswersInOrder'
    <3>1. Len(connection.answers)' = n + 1 /\ Len(lines)' = n + 1 /\ n + 1 > 0
      BY <1>2, <1>3, <2>2, <2>3
    <3> HIDE DEF n
    <3> QED  BY <2>1, <2>5, <2>6, <2>7, <3>1 DEF AnswersInOrder
  <2>9. /\ connection' \in [answers : Seq(Responses), state : {"open", "stopped", "broken"}]
        /\ Len(connection'.answers) <= Len(lines')
        /\ connection'.state # "broken"
    <3>1. connection'.state \in {"open", "stopped"}
      BY <2>1
    <3>2. Len(connection'.answers) <= Len(lines')
      BY <1>2, <1>3, <2>2, <2>3
    <3> QED  BY <2>1, <2>3, <3>1, <3>2
  <2> QED  BY <1>3, <2>8, <2>9 DEF ConnectionInv
<1>6. CASE connection.state = "open" /\ (line.form = "unreadable" \/ ~Encodable(line))
  <2>1. connection' = [connection EXCEPT !.state = "broken"]
    BY <1>1, <1>6 DEF HandleLine
  <2>2. connection'.answers = connection.answers /\ connection'.state = "broken"
        /\ connection' \in [answers : Seq(Responses), state : {"open", "stopped", "broken"}]
    BY <2>1 DEF ConnectionInv
  <2>3. n = Len(lines) /\ n # Len(lines') /\ n < Len(lines') /\ lines'[n + 1] = line
        /\ \A k \in 1 .. n : lines'[k] = lines[k]
    <3>1. n = Len(lines)
      BY <1>6 DEF ConnectionInv, AnswersInOrder
    <3> QED  BY <1>2, <1>3, <3>1
  <2>4. ~(n > 0 /\ "result" \in DOMAIN connection.answers[n]
                /\ connection.answers[n].result = "core.shutdown")
    BY <1>6 DEF ConnectionInv, AnswersInOrder
  <2>5. \A k \in 1 .. n :
          /\ connection'.answers[k].id = IdOf(lines'[k])
          /\ lines'[k].form = "object" /\ Valid(lines'[k]) =>
               ReadResponse(connection'.answers[k], lines'[k].id) =
                   (IF lines'[k].method \in Methods THEN "result" ELSE "JsonRpcError")
    BY <2>2, <2>3 DEF ConnectionInv, AnswersInOrder
  <2>6. AnswersInOrder'
    <3>1. Len(connection.answers)' = n
      BY <2>2
    <3> HIDE DEF n
    <3> QED  BY <1>6, <2>2, <2>3, <2>4, <2>5, <3>1 DEF AnswersInOrder
  <2> QED  BY <1>2, <1>3, <2>2, <2>3, <2>6 DEF ConnectionInv
<1> QED  BY <1>4, <1>5, <1>6

LEMMA ConnectionStep == ConnectionInv /\ [Next]_vars => ConnectionInv'
<1> SUFFICES ASSUME ConnectionInv, [Next]_vars  PROVE ConnectionInv'
  OBVIOUS
<1>1. CASE AnotherLine
  BY <1>1, LineAnswered
<1>2. CASE LongerText \/ AnotherQuestion \/ UNCHANGED vars
  <2>1. UNCHANGED <<lines, connection>>
    BY <1>2 DEF LongerText, AnotherQuestion, vars
  <2> QED  BY <2>1 DEF ConnectionInv, AnswersInOrder
<1> QED  BY <1>1, <1>2 DEF Next

(* On every connection, whatever lines arrive and however many, the answers  *)
(* are those of the lines before the one that ends it, in their order and    *)
(* under their own ids (JsonRpcServer._handle_connection with the codec of   *)
(* protocol.py), so that CoreClient takes none for another's.                *)
THEOREM AnswersComeInOrder == Spec => []AnswersInOrder
<1>1. ConnectionInv => AnswersInOrder
  BY DEF ConnectionInv
<1> QED  BY <1>1, ConnectionStart, ConnectionStep, PTL DEF Spec
====
