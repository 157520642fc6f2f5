---- MODULE ContextMemoryProofs ----
(***************************************************************************)
(* For every number of processes, records and cuts: what the context       *)
(* memory holds is made of what was given to it, its damage is bounded,    *)
(* and what load finds changes only as RecordLog allows.                   *)
(***************************************************************************)
EXTENDS ContextMemoryProperties, SelectionProofs

LEMMA SizeType == \A r : Size(r) \in {3, 4}
BY DEF Size

(* The lines of a file. *)

LEMMA OneEnd ==
    ASSUME NEW f, Len(f) \in Nat, NEW i \in Nat, NEW j \in i .. Len(f), NEW k \in i .. Len(f),
           EndsLine(f, i, j), EndsLine(f, i, k)
    PROVE  j = k
<1>1. ASSUME NEW a \in i .. Len(f), NEW b \in i .. Len(f), a < b,
             EndsLine(f, i, a), EndsLine(f, i, b)
      PROVE  FALSE
  <2>1. Newline(f[a + 1]) /\ a + 1 \in i .. b
    BY <1>1 DEF EndsLine
  <2> QED  BY <1>1, <2>1 DEF EndsLine
<1>2. j < k \/ k < j \/ j = k
  OBVIOUS
<1> QED  BY <1>1, <1>2

(* The line of a record goes from i to j. *)
Line(f, i, j) ==
    /\ i \in 1 .. Len(f) /\ j \in i .. Len(f)
    /\ StartsLine(f, i) /\ EndsLine(f, i, j) /\ IsRecord(f, i, j)

LEMMA LineFound ==
    ASSUME NEW f, Len(f) \in Nat, DOMAIN f = 1 .. Len(f), NEW i, NEW j, Line(f, i, j)
    PROVE  i \in RecordLines(f) /\ LineEnd(f, i) = j
<1>1. i \in RecordLines(f)
  BY DEF Line, RecordLines, RecordAt
<1>2. \A k \in i .. Len(f) : EndsLine(f, i, k) => k = j
  BY OneEnd DEF Line
<1>3. LineEnd(f, i) = j
  BY <1>2 DEF Line, LineEnd
<1> QED  BY <1>1, <1>3

LEMMA LineRead ==
    ASSUME NEW f, Len(f) \in Nat, DOMAIN f = 1 .. Len(f), NEW i \in RecordLines(f)
    PROVE  /\ Line(f, i, LineEnd(f, i))
           /\ i \in Nat /\ i >= 1 /\ LineEnd(f, i) \in Nat /\ i <= LineEnd(f, i) /\ LineEnd(f, i) <= Len(f)
<1>1. PICK j \in i .. Len(f) : EndsLine(f, i, j) /\ IsRecord(f, i, j)
  BY DEF RecordLines, RecordAt
<1>2. Line(f, i, j)
  BY <1>1 DEF Line, RecordLines, RecordAt
<1>3. LineEnd(f, i) = j
  BY <1>2, LineFound
<1> QED  BY <1>2, <1>3 DEF Line

(* A line ends, newline and all, before another starts. *)
LEMMA LinesApart ==
    ASSUME NEW f, Len(f) \in Nat, DOMAIN f = 1 .. Len(f),
           NEW i \in RecordLines(f), NEW j \in RecordLines(f), i < j
    PROVE  LineEnd(f, i) + 1 < j
<1>1. PICK e \in Nat : e = LineEnd(f, i) /\ Line(f, i, e)
  BY LineRead
<1>2. j \in 1 .. Len(f) /\ StartsLine(f, j)
  BY LineRead DEF Line
<1>3. i \in 1 .. Len(f) /\ \A k \in i .. e : ~Newline(f[k])
  BY <1>1 DEF Line, EndsLine
<1>4. Newline(f[j - 1]) /\ j - 1 >= i
  BY <1>2, <1>3 DEF StartsLine
<1>5. ~(j - 1 \in i .. e)
  BY <1>3, <1>4
<1> QED  BY <1>1, <1>2, <1>3, <1>4, <1>5

(* The lines that end, newline and all, within the first n pieces. *)
EndedBy(f, n) == {i \in RecordLines(f) : LineEnd(f, i) + 1 <= n}

(* They stay what they are as long as those pieces do. *)
LEMMA SameLine ==
    ASSUME NEW f, Len(f) \in Nat, DOMAIN f = 1 .. Len(f),
           NEW g, Len(g) \in Nat, DOMAIN g = 1 .. Len(g),
           NEW n \in Nat, n <= Len(f), n <= Len(g), \A k \in 1 .. n : g[k] = f[k],
           NEW i \in EndedBy(f, n)
    PROVE  i \in EndedBy(g, n) /\ LineEnd(g, i) = LineEnd(f, i)
<1>1. PICK e \in Nat : e = LineEnd(f, i) /\ Line(f, i, e) /\ e + 1 <= n
  BY LineRead DEF EndedBy
<1>2. /\ i \in 1 .. e /\ StartsLine(f, i) /\ IsRecord(f, i, e)
      /\ Newline(f[e + 1]) /\ \A k \in i .. e : ~Newline(f[k])
  BY <1>1 DEF Line, EndsLine
<1>3. \A k \in i .. e + 1 : g[k] = f[k]
  BY <1>1, <1>2
<1>4. StartsLine(g, i)
  <2>1. i # 1 => i - 1 \in 1 .. n
    BY <1>1, <1>2
  <2> QED  BY <1>2, <2>1 DEF StartsLine
<1>5. EndsLine(g, i, e)
  BY <1>1, <1>2, <1>3 DEF EndsLine
<1>6. IsRecord(g, i, e)
  <2>1. /\ f[i][2] = 1 /\ f[e][2] = Size(f[e][1]) - 1
        /\ \A k \in i .. e - 1 : EndsInside(f[k]) /\ BeginsInside(f[k + 1])
        /\ \E k \in i .. e : f[k][2] = AnswerAt[f[k][1]]
    BY <1>2 DEF IsRecord
  <2>2. g[i] = f[i] /\ g[e] = f[e]
    BY <1>2, <1>3
  <2>3. \A k \in i .. e - 1 : k \in i .. e + 1 /\ k + 1 \in i .. e + 1
    BY <1>2
  <2>4. \A k \in i .. e - 1 : EndsInside(g[k]) /\ BeginsInside(g[k + 1])
    BY <1>3, <2>1, <2>3
  <2>5. \E k \in i .. e : g[k][2] = AnswerAt[g[k][1]]
    <3>1. PICK k \in i .. e : f[k][2] = AnswerAt[f[k][1]]
      BY <2>1
    <3>2. g[k] = f[k]
      BY <1>3, <3>1
    <3> QED  BY <3>1, <3>2
  <2> QED  BY <2>1, <2>2, <2>4, <2>5 DEF IsRecord
<1>7. Line(g, i, e)
  BY <1>1, <1>2, <1>4, <1>5, <1>6 DEF Line
<1> QED  BY <1>1, <1>7, LineFound DEF EndedBy

LEMMA SameText ==
    ASSUME NEW f, NEW g, NEW i \in Nat, NEW e \in Nat, i <= e, \A k \in i .. e : g[k] = f[k]
    PROVE  SubSeq(f, i, e) = SubSeq(g, i, e) /\ SubSeq(f, i, e)[1] = f[i]
<1> DEFINE S == {f[l] : l \in i .. e}
<1>1. (\A k \in i .. e : f[k] \in S) /\ (\A k \in i .. e : g[k] \in S)
  OBVIOUS
<1> HIDE DEF S
<1>2. /\ SubSeq(f, i, e) \in Seq(S) /\ Len(SubSeq(f, i, e)) = IF i <= e THEN e - i + 1 ELSE 0
      /\ \A k \in 1 .. e - i + 1 : SubSeq(f, i, e)[k] = f[i + k - 1]
  BY <1>1, SubSeqProperties
<1>3. /\ SubSeq(g, i, e) \in Seq(S) /\ Len(SubSeq(g, i, e)) = IF i <= e THEN e - i + 1 ELSE 0
      /\ \A k \in 1 .. e - i + 1 : SubSeq(g, i, e)[k] = g[i + k - 1]
  BY <1>1, SubSeqProperties
<1>4. \A k \in 1 .. e - i + 1 : i + k - 1 \in i .. e
  OBVIOUS
<1>5. SubSeq(f, i, e) = SubSeq(g, i, e)
  BY <1>2, <1>3, <1>4, SeqEqual
<1>6. 1 \in 1 .. e - i + 1 /\ i + 1 - 1 = i
  OBVIOUS
<1> QED  BY <1>2, <1>5, <1>6

LEMMA SameLines ==
    ASSUME NEW f, Len(f) \in Nat, DOMAIN f = 1 .. Len(f),
           NEW g, Len(g) \in Nat, DOMAIN g = 1 .. Len(g),
           NEW n \in Nat, n <= Len(f), n <= Len(g), \A k \in 1 .. n : g[k] = f[k]
    PROVE  /\ EndedBy(g, n) = EndedBy(f, n)
           /\ \A i \in EndedBy(f, n) : LineText(g, i) = LineText(f, i)
<1>1. EndedBy(f, n) \subseteq EndedBy(g, n)
  BY SameLine
<1>2. EndedBy(g, n) \subseteq EndedBy(f, n)
  <2>1. \A k \in 1 .. n : f[k] = g[k]
    OBVIOUS
  <2> QED  BY <2>1, SameLine
<1>3. ASSUME NEW i \in EndedBy(f, n)
      PROVE  LineText(g, i) = LineText(f, i)
  <2>1. PICK e \in Nat : e = LineEnd(f, i) /\ e = LineEnd(g, i) /\ e + 1 <= n /\ i \in Nat /\ i >= 1 /\ i <= e
    BY SameLine, LineRead DEF EndedBy
  <2>2. \A k \in i .. e : f[k] = g[k]
    BY <2>1
  <2>3. SubSeq(f, i, e) = SubSeq(g, i, e)
    BY <2>1, <2>2, SameText
  <2> QED  BY <2>1, <2>3 DEF LineText
<1> QED  BY <1>1, <1>2, <1>3

----
(* What is found in the lines. *)

LEMMA RecordsOfLines ==
    ASSUME NEW f, NEW lines \in SUBSET Nat, IsFiniteSet(lines), NEW S,
           \A i \in lines : LineText(f, i) \in S
    PROVE  /\ RecordsOf(f, lines) \in Seq(S)
           /\ Len(RecordsOf(f, lines)) = Cardinality(lines)
           /\ \A n \in 1 .. Cardinality(lines) :
                RecordsOf(f, lines)[n] = LineText(f, Nth(lines, n))
           /\ Range(RecordsOf(f, lines)) = {LineText(f, i) : i \in lines}
<1> DEFINE size == Cardinality(lines)
           log == [n \in 1 .. size |-> LineText(f, Nth(lines, n))]
<1>1. RecordsOf(f, lines) = log
  BY DEF RecordsOf
<1>2. size \in Nat
  BY FS_CardinalityType
<1>3. \A n \in 1 .. size : Nth(lines, n) \in lines
  BY NthMember
<1>4. log \in [1 .. size -> S]
  BY <1>3
<1>5. log \in Seq(S)
  BY <1>2, <1>4, SeqDef
<1>6. Len(log) = size
  BY <1>2, <1>4, <1>5, LenProperties
<1>7. Range(log) = {LineText(f, i) : i \in lines}
  <2>1. ASSUME NEW i \in lines  PROVE  \E n \in 1 .. size : Nth(lines, n) = i
    <3>1. Rank(lines, i) \in 1 .. size
      BY RankType
    <3>2. Nth(lines, Rank(lines, i)) = i
      BY <3>1, NthMember
    <3> QED  BY <3>1, <3>2
  <2> QED  BY <1>3, <2>1 DEF Range
<1> QED  BY <1>1, <1>5, <1>6, <1>7

LEMMA SameRecords ==
    ASSUME NEW f, NEW g, NEW lines \in SUBSET Nat, IsFiniteSet(lines),
           \A i \in lines : LineText(g, i) = LineText(f, i)
    PROVE  RecordsOf(g, lines) = RecordsOf(f, lines)
<1>1. \A n \in 1 .. Cardinality(lines) : Nth(lines, n) \in lines
  BY NthMember
<1> QED  BY <1>1 DEF RecordsOf

(* The first lines give the first records. *)
LEMMA FirstRecords ==
    ASSUME NEW f, NEW lines \in SUBSET Nat, IsFiniteSet(lines), NEW S,
           \A i \in lines : LineText(f, i) \in S,
           NEW first \in SUBSET lines, \A i \in first : \A j \in lines \ first : i < j
    PROVE  /\ Cardinality(first) \in 0 .. Cardinality(lines)
           /\ RecordsOf(f, first) = SubSeq(RecordsOf(f, lines), 1, Cardinality(first))
<1> DEFINE size == Cardinality(first)
           all == RecordsOf(f, lines)
           part == RecordsOf(f, first)
<1>1. IsFiniteSet(first) /\ first \in SUBSET Nat /\ size \in Nat /\ Cardinality(lines) \in Nat
      /\ size <= Cardinality(lines)
  BY FS_Subset, FS_CardinalityType
<1>2. ASSUME NEW n \in 1 .. size
      PROVE  part[n] = all[n] /\ all[n] \in S
  <2>a. Nth(first, n) \in first /\ Rank(first, Nth(first, n)) = n
    BY <1>1, NthMember
  <2>1. PICK i \in first : Nth(first, n) = i /\ Rank(first, i) = n
    BY <2>a
  <2>2. {j \in lines : j <= i} = {j \in first : j <= i}
    <3>1. \A j \in lines \ first : ~(j <= i)
      OBVIOUS
    <3> QED  BY <3>1
  <2>3. Rank(lines, i) = n /\ n \in 1 .. Cardinality(lines)
    BY <1>1, <2>1, <2>2 DEF Rank
  <2>4. i \in lines
    OBVIOUS
  <2>5. Nth(lines, n) = i
    BY <2>3, <2>4, NthMember
  <2> QED  BY <2>1, <2>3, <2>5 DEF RecordsOf
<1>3. part \in Seq(S) /\ Len(part) = size
  <2>1. \A i \in first : LineText(f, i) \in S
    OBVIOUS
  <2> QED  BY <1>1, <2>1, RecordsOfLines
<1> HIDE DEF size, all, part
<1>4. /\ SubSeq(all, 1, size) \in Seq(S)
      /\ Len(SubSeq(all, 1, size)) = IF 1 <= size THEN size - 1 + 1 ELSE 0
      /\ \A n \in 1 .. size - 1 + 1 : SubSeq(all, 1, size)[n] = all[1 + n - 1]
  BY <1>1, <1>2, SubSeqProperties
<1>5. \A n \in 1 .. size : n \in 1 .. size - 1 + 1 /\ 1 + n - 1 = n
  BY <1>1
<1>6. Len(SubSeq(all, 1, size)) = size /\ \A n \in 1 .. size : SubSeq(all, 1, size)[n] = part[n]
  BY <1>1, <1>2, <1>4, <1>5
<1>7. part = SubSeq(all, 1, size)
  BY <1>3, <1>4, <1>6, SeqEqual
<1> QED  BY <1>1, <1>7 DEF size, all, part

(* One more line, after the others, is one more record at the end. *)
LEMMA LineAdded ==
    ASSUME NEW f, NEW lines \in SUBSET Nat, IsFiniteSet(lines), NEW S, NEW i \in Nat,
           \A j \in lines : j < i /\ LineText(f, j) \in S, LineText(f, i) \in S
    PROVE  RecordsOf(f, lines \cup {i}) = Append(RecordsOf(f, lines), LineText(f, i))
<1> DEFINE more == lines \cup {i}
           size == Cardinality(lines)
           log == RecordsOf(f, lines)
           log2 == RecordsOf(f, more)
<1>1. /\ more \in SUBSET Nat /\ IsFiniteSet(more) /\ size \in Nat
      /\ Cardinality(more) = size + 1 /\ i \notin lines
  BY FS_AddElement, FS_CardinalityType
<1>2. \A j \in more : LineText(f, j) \in S
  OBVIOUS
<1>3. \A j \in lines : \A k \in more \ lines : j < k
  OBVIOUS
<1>4. log = SubSeq(log2, 1, size)
  BY <1>1, <1>2, <1>3, FirstRecords
<1>5. log \in Seq(S) /\ Len(log) = size
  BY RecordsOfLines
<1>6. /\ log2 \in Seq(S) /\ Len(log2) = size + 1
      /\ \A n \in 1 .. size + 1 : log2[n] = LineText(f, Nth(more, n))
  BY <1>1, <1>2, RecordsOfLines
<1>7. Nth(more, size + 1) = i
  <2>1. {j \in more : j <= i} = more
    <3>1. \A j \in more : j < i \/ j = i
      OBVIOUS
    <3>2. \A j \in more : j <= i
      BY <1>1, <3>1
    <3> QED  BY <3>2
  <2>2. Rank(more, i) = size + 1 /\ i \in more /\ size + 1 \in 1 .. Cardinality(more)
    BY <1>1, <2>1 DEF Rank
  <2> QED  BY <1>1, <2>2, NthMember
<1> HIDE DEF log, log2, more, size
<1>8. log2[size + 1] = LineText(f, i)
  BY <1>1, <1>6, <1>7
<1>9. \A n \in 1 .. size : log2[n] \in S
  <2>1. \A n \in 1 .. size : n \in 1 .. Len(log2)
    BY <1>1, <1>6
  <2> QED  BY <1>6, <2>1, ElementOfSeq
<1>10. \A n \in 1 .. size : log[n] = log2[n]
  <2>1. \A n \in 1 .. size - 1 + 1 : log[n] = log2[1 + n - 1]
    BY <1>1, <1>4, <1>9, SubSeqProperties
  <2>2. \A n \in 1 .. size : n \in 1 .. size - 1 + 1 /\ 1 + n - 1 = n
    BY <1>1
  <2> QED  BY <2>1, <2>2
<1>11. /\ Append(log, LineText(f, i)) \in Seq(S) /\ Len(Append(log, LineText(f, i))) = size + 1
       /\ \A n \in 1 .. size : Append(log, LineText(f, i))[n] = log[n]
       /\ Append(log, LineText(f, i))[size + 1] = LineText(f, i)
  BY <1>5, AppendProperties
<1>12. \A n \in 1 .. size + 1 : log2[n] = Append(log, LineText(f, i))[n]
  <2>1. \A n \in 1 .. size + 1 : n \in 1 .. size \/ n = size + 1
    BY <1>1
  <2> QED  BY <1>8, <1>10, <1>11, <2>1
<1>13. log2 = Append(log, LineText(f, i))
  BY <1>6, <1>11, <1>12, SeqEqual
<1> QED  BY <1>13 DEF log, log2, more

LEMMA FrontOfAppend ==
    ASSUME NEW S, NEW s \in Seq(S), NEW e \in S
    PROVE  SubSeq(Append(s, e), 1, Len(Append(s, e)) - 1) = s
<1> DEFINE t == Append(s, e)
<1>1. PICK len \in Nat : len = Len(s)
  BY LenProperties
<1>2. t \in Seq(S) /\ Len(t) = len + 1 /\ \A n \in 1 .. len : t[n] = s[n]
  BY <1>1, AppendProperties
<1>3. \A n \in 1 .. len : t[n] \in S
  BY <1>1, <1>2, ElementOfSeq
<1> HIDE DEF t
<1>4. /\ SubSeq(t, 1, len) \in Seq(S)
      /\ Len(SubSeq(t, 1, len)) = IF 1 <= len THEN len - 1 + 1 ELSE 0
      /\ \A n \in 1 .. len - 1 + 1 : SubSeq(t, 1, len)[n] = t[1 + n - 1]
  BY <1>3, SubSeqProperties
<1>5. Len(SubSeq(t, 1, len)) = len
  BY <1>4
<1>6. ASSUME NEW n \in 1 .. len  PROVE  SubSeq(t, 1, len)[n] = s[n]
  <2>1. n \in 1 .. len - 1 + 1 /\ 1 + n - 1 = n
    OBVIOUS
  <2> QED  BY <1>2, <1>4, <2>1
<1>7. SubSeq(t, 1, len) = s
  BY <1>1, <1>4, <1>5, <1>6, SeqEqual
<1>8. Len(t) - 1 = len
  BY <1>2
<1> QED  BY <1>7, <1>8 DEF t

(* What load returns of any file made of pieces of what was given to it. *)
LEMMA LoadFacts ==
    ASSUME NEW S, NEW f \in Seq(S)
    PROVE  /\ Len(f) \in Nat /\ DOMAIN f = 1 .. Len(f)
           /\ RecordLines(f) \in SUBSET Nat /\ IsFiniteSet(RecordLines(f))
           /\ \A i \in RecordLines(f) : LineText(f, i) \in Seq(S)
           /\ ReadRecords(f) \in Seq(Seq(S)) /\ Len(ReadRecords(f)) = Cardinality(RecordLines(f))
           /\ Range(ReadRecords(f)) = {LineText(f, i) : i \in RecordLines(f)}
<1>1. Len(f) \in Nat /\ DOMAIN f = 1 .. Len(f) /\ \A i \in 1 .. Len(f) : f[i] \in S
  BY LenProperties
<1>2. RecordLines(f) \in SUBSET (1 .. Len(f)) /\ IsFiniteSet(1 .. Len(f))
  BY <1>1, FS_Interval DEF RecordLines
<1>3. RecordLines(f) \in SUBSET Nat /\ IsFiniteSet(RecordLines(f))
  BY <1>1, <1>2, FS_Subset
<1>4. ASSUME NEW i \in RecordLines(f)  PROVE  LineText(f, i) \in Seq(S)
  <2>1. PICK e \in Nat : e = LineEnd(f, i) /\ i \in Nat /\ i >= 1 /\ e <= Len(f)
    BY <1>1, LineRead
  <2>2. \A k \in i .. e : f[k] \in S
    BY <1>1, <2>1
  <2>3. SubSeq(f, i, e) \in Seq(S)
    BY <2>1, <2>2, SubSeqProperties
  <2> QED  BY <2>1, <2>3 DEF LineText
<1>5. /\ ReadRecords(f) \in Seq(Seq(S)) /\ Len(ReadRecords(f)) = Cardinality(RecordLines(f))
      /\ Range(ReadRecords(f)) = {LineText(f, i) : i \in RecordLines(f)}
  BY <1>3, <1>4, RecordsOfLines DEF ReadRecords
<1> QED  BY <1>1, <1>3, <1>4, <1>5

(* The records of the lines that end within the first n pieces are the first *)
(* ones, and the same in every file that begins with those pieces.           *)
LEMMA PrefixRecords ==
    ASSUME NEW S, NEW f \in Seq(S), NEW n \in Nat
    PROVE  /\ EndedBy(f, n) \in SUBSET Nat /\ IsFiniteSet(EndedBy(f, n))
           /\ EndedBy(f, n) \in SUBSET RecordLines(f)
           /\ Cardinality(EndedBy(f, n)) \in 0 .. Len(ReadRecords(f))
           /\ RecordsOf(f, EndedBy(f, n)) = SubSeq(ReadRecords(f), 1, Cardinality(EndedBy(f, n)))
           /\ RecordsOf(f, EndedBy(f, n)) \in Seq(Seq(S))
           /\ Len(RecordsOf(f, EndedBy(f, n))) = Cardinality(EndedBy(f, n))
<1> DEFINE first == EndedBy(f, n)
<1>1. /\ Len(f) \in Nat /\ DOMAIN f = 1 .. Len(f)
      /\ RecordLines(f) \in SUBSET Nat /\ IsFiniteSet(RecordLines(f))
      /\ \A i \in RecordLines(f) : LineText(f, i) \in Seq(S)
      /\ Len(ReadRecords(f)) = Cardinality(RecordLines(f))
  BY LoadFacts
<1>2. first \in SUBSET RecordLines(f)
  BY DEF EndedBy
<1>3. ASSUME NEW i \in first, NEW j \in RecordLines(f) \ first  PROVE  i < j
  <2>1. /\ i \in Nat /\ j \in Nat /\ LineEnd(f, i) \in Nat /\ LineEnd(f, j) \in Nat
        /\ LineEnd(f, i) + 1 <= n /\ ~(LineEnd(f, j) + 1 <= n) /\ i <= LineEnd(f, i)
    BY <1>1, <1>2, LineRead DEF EndedBy
  <2>2. j < i => LineEnd(f, j) + 1 < i
    BY <1>1, <1>2, LinesApart
  <2>3. i # j
    OBVIOUS
  <2> QED  BY <2>1, <2>2, <2>3
<1>4. first \in SUBSET Nat /\ IsFiniteSet(first)
  BY <1>1, <1>2, FS_Subset
<1>5. /\ Cardinality(first) \in 0 .. Cardinality(RecordLines(f))
      /\ RecordsOf(f, first) = SubSeq(RecordsOf(f, RecordLines(f)), 1, Cardinality(first))
  <2> HIDE DEF first
  <2> QED  BY <1>1, <1>2, <1>3, FirstRecords
<1>6. RecordsOf(f, first) \in Seq(Seq(S)) /\ Len(RecordsOf(f, first)) = Cardinality(first)
  <2>1. \A i \in first : LineText(f, i) \in Seq(S)
    BY <1>1, <1>2
  <2> HIDE DEF first
  <2> QED  BY <1>4, <2>1, RecordsOfLines
<1> QED  BY <1>1, <1>2, <1>4, <1>5, <1>6 DEF ReadRecords

LEMMA SamePrefix ==
    ASSUME NEW S, NEW f \in Seq(S), NEW g \in Seq(S), NEW n \in Nat,
           n <= Len(f), n <= Len(g), \A k \in 1 .. n : g[k] = f[k]
    PROVE  /\ EndedBy(g, n) = EndedBy(f, n)
           /\ RecordsOf(g, EndedBy(g, n)) = RecordsOf(f, EndedBy(f, n))
<1>1. /\ Len(f) \in Nat /\ DOMAIN f = 1 .. Len(f) /\ Len(g) \in Nat /\ DOMAIN g = 1 .. Len(g)
  BY LoadFacts
<1>2. EndedBy(g, n) = EndedBy(f, n) /\ \A i \in EndedBy(f, n) : LineText(g, i) = LineText(f, i)
  BY <1>1, SameLines
<1>3. EndedBy(f, n) \in SUBSET Nat /\ IsFiniteSet(EndedBy(f, n))
  BY PrefixRecords
<1> QED  BY <1>2, <1>3, SameRecords

----
(* The invariant. *)

Busy(p) == pc[p] \in {"writing", "sought"}

(* The pieces of r that follow the first m. *)
Rest(r, m) == [k \in 1 .. Size(r) - m |-> <<r, m + k>>]

Writes(p) == unwritten[p][1][1]

(* p has written the first m pieces of r, which are all that there is of it. *)
WriterOK(p, r, m) ==
    /\ unwritten[p] = Rest(r, m) /\ m < Size(r) /\ r \notin written
    /\ m > 0 => atomic /\ <<r, m>> \in cuts
    /\ \A i \in DOMAIN file : file[i][1] = r => file[i][2] <= m

WritersOK ==
    /\ \A p \in Processes : Busy(p) => \E r \in started, m \in 0..3 : WriterOK(p, r, m)
    /\ \A p, q \in Processes : p # q /\ Busy(p) /\ Busy(q) => Writes(p) # Writes(q)

(* The piece at i follows the one before it in its record, and is followed   *)
(* by the next one, unless the record was cut there.                         *)
Chained(i) ==
    LET r == file[i][1]
        k == file[i][2]
    IN /\ k > 1 => <<r, k - 1>> \in cuts \/ (i > 1 /\ file[i - 1] = <<r, k - 1>>)
       /\ k < Size(r) => <<r, k>> \in cuts \/ (i < Len(file) /\ file[i + 1] = <<r, k + 1>>)

AppendsOK ==
    atomic =>
        /\ \A p \in Processes : pc[p] # "sought" /\ taken[p] = <<>>
        /\ \A i, j \in DOMAIN file : i < j /\ file[i][1] = file[j][1] => file[i][2] < file[j][2]
        /\ \A i \in DOMAIN file : Chained(i)
        /\ \A r \in written : \A k \in 1 .. Size(r) : \E i \in DOMAIN file : file[i] = <<r, k>>
        /\ \A piece \in cuts : \E i \in DOMAIN file : file[i] = piece

(* As far as f goes, r and nothing else of it stands from i on, on a line of *)
(* its own.                                                                  *)
Stands(f, r, i) ==
    /\ \A j \in DOMAIN f : f[j][1] = r => j \in i .. i + Size(r) - 1
    /\ \A j \in i .. i + Size(r) - 1 : j \in DOMAIN f => f[j] = <<r, j - i + 1>>
    /\ i - 1 \in DOMAIN f => Newline(f[i - 1])

(* The text of r is there for all to read, and nobody will write over it. *)
TextAt(r, i) ==
    /\ i + Size(r) - 1 <= Len(file) /\ Stands(file, r, i)
    /\ \A p \in Processes :
         Stands(taken[p], r, i) /\ (pc[p] = "sought" => at[p] >= i + Size(r) - 1)

SeeksOK ==
    ~atomic =>
        /\ cuts = {}
        /\ file = <<>> \/ Newline(file[Len(file)])
        /\ \A i \in DOMAIN file : file[i][1] \in written
        /\ \A p \in Processes :
             /\ \A i \in DOMAIN taken[p] : taken[p][i][1] \in written
             /\ Len(file) \in DOMAIN taken[p] => Newline(taken[p][Len(file)])
        /\ \A r \in written \ met : \E i \in DOMAIN file : TextAt(r, i)

MixedOK ==
    ~atomic => \A p \in Processes : \A text \in Mixtures(views[p]) :
                 \A piece \in Range(text) : piece[1] \in met

(* What p was sure of comes from pieces that are out of reach, and that it   *)
(* has read or will.                                                         *)
ReaderOK(p) ==
    /\ pc[p] # "loading" => sure[p] = <<>>
    /\ pc[p] # "idle" => views[p] = <<>>
    /\ pc[p] = "loading" =>
         \E n \in 0 .. Len(file) :
            /\ Beyond(n) /\ sure[p] = RecordsOf(file, EndedBy(file, n))
            /\ \A k \in 1 .. n : k \in DOMAIN taken[p] => taken[p][k] = file[k]

MemoryInv ==
    /\ TypeOK /\ IsFiniteSet(cuts)
    /\ WritersOK /\ AppendsOK /\ SeeksOK /\ MixedOK
    /\ \A p \in Processes : ReaderOK(p)

----
LEMMA PieceFacts ==
    ASSUME NEW S, NEW f \in Seq(Pieces(S))
    PROVE  /\ Len(f) \in Nat /\ DOMAIN f = 1 .. Len(f) /\ f \in [1 .. Len(f) -> Pieces(S)]
           /\ \A i \in DOMAIN f :
                /\ f[i][1] \in S /\ f[i][2] \in 1 .. Size(f[i][1]) /\ f[i][2] \in Nat
                /\ f[i] = <<f[i][1], f[i][2]>> /\ f[i] \in Pieces(S)
<1>1. Len(f) \in Nat /\ DOMAIN f = 1 .. Len(f) /\ f \in [1 .. Len(f) -> Pieces(S)]
  BY LenProperties
<1>2. \A piece \in Pieces(S) : /\ piece[1] \in S /\ piece[2] \in 1 .. Size(piece[1])
                               /\ piece[2] \in Nat /\ piece = <<piece[1], piece[2]>>
  BY SizeType DEF Pieces
<1> QED  BY <1>1, <1>2

LEMMA FileFacts ==
    ASSUME MemoryInv
    PROVE  /\ Len(file) \in Nat /\ DOMAIN file = 1 .. Len(file)
           /\ \A i \in DOMAIN file :
                /\ file[i][1] \in started /\ file[i][2] \in 1 .. Size(file[i][1]) /\ file[i][2] \in Nat
                /\ file[i] = <<file[i][1], file[i][2]>> /\ file[i] \in Pieces(started)
<1>1. file \in Seq(Pieces(started))
  BY DEF MemoryInv, TypeOK
<1> QED  BY <1>1, PieceFacts

LEMMA TakenFacts ==
    ASSUME MemoryInv, NEW p \in Processes
    PROVE  /\ taken[p] \in Seq(Pieces(started))
           /\ Len(taken[p]) \in Nat /\ DOMAIN taken[p] = 1 .. Len(taken[p])
           /\ Len(taken[p]) <= Len(file)
<1>1. taken[p] \in Seq(Pieces(started)) /\ Len(taken[p]) <= Len(file)
  BY DEF MemoryInv, TypeOK
<1> QED  BY <1>1, PieceFacts

LEMMA RestFacts ==
    ASSUME NEW r, NEW m \in 0..3, m < Size(r)
    PROVE  /\ Rest(r, m) \in Seq(Pieces({r})) /\ Len(Rest(r, m)) = Size(r) - m
           /\ Rest(r, m) # <<>> /\ Rest(r, m)[1] = <<r, m + 1>>
           /\ \A k \in 1 .. Size(r) - m : Rest(r, m)[k] = <<r, m + k>>
<1>1. Size(r) - m \in Nat \ {0}
  BY SizeType
<1>2. Rest(r, m) \in [1 .. Size(r) - m -> Pieces({r})]
  <2>1. \A k \in 1 .. Size(r) - m : m + k \in 1..4 /\ m + k <= Size(r)
    BY SizeType
  <2> QED  BY <2>1 DEF Rest, Pieces
<1>3. Rest(r, m) \in Seq(Pieces({r}))
  BY <1>1, <1>2, SeqDef
<1>4. Len(Rest(r, m)) = Size(r) - m
  BY <1>1, <1>3, LenProperties DEF Rest
<1>5. 1 \in 1 .. Size(r) - m
  BY <1>1
<1> QED  BY <1>1, <1>3, <1>4, <1>5, EmptySeq DEF Rest

LEMMA WriterFacts ==
    ASSUME NEW p \in Processes, NEW r, NEW m \in 0..3, WriterOK(p, r, m)
    PROVE  /\ Writes(p) = r /\ Len(unwritten[p]) = Size(r) - m
           /\ \A k \in 1 .. Size(r) - m : unwritten[p][k] = <<r, m + k>>
<1>1. unwritten[p] = Rest(r, m) /\ m < Size(r)
  BY DEF WriterOK
<1>2. /\ Len(Rest(r, m)) = Size(r) - m /\ Rest(r, m)[1] = <<r, m + 1>>
      /\ \A k \in 1 .. Size(r) - m : Rest(r, m)[k] = <<r, m + k>>
  BY <1>1, RestFacts
<1>3. <<r, m + 1>>[1] = r
  OBVIOUS
<1> QED  BY <1>1, <1>2, <1>3 DEF Writes

LEMMA MorePieces ==
    ASSUME NEW S, NEW T, S \subseteq T
    PROVE  /\ Pieces(S) \subseteq Pieces(T) /\ Seq(Pieces(S)) \subseteq Seq(Pieces(T))
           /\ Seq(Seq(Pieces(S))) \subseteq Seq(Seq(Pieces(T)))
<1>1. Pieces(S) \subseteq Pieces(T)
  BY DEF Pieces
<1>2. Seq(Pieces(S)) \subseteq Seq(Pieces(T))
  BY <1>1, SeqMonotonic
<1> QED  BY <1>1, <1>2, SeqMonotonic

LEMMA InitInv == Init => MemoryInv
<1> SUFFICES ASSUME Init PROVE MemoryInv
  OBVIOUS
<1>1. TypeOK
  <2>1. \A p \in Processes : Len(taken[p]) <= Len(file) /\ at[p] \in 0 .. Len(file)
    BY EmptySeq DEF Init
  <2> QED  BY <2>1, EmptySeq DEF Init, TypeOK
<1>2. IsFiniteSet(cuts)
  BY FS_EmptySet DEF Init
<1>3. WritersOK /\ AppendsOK /\ SeeksOK
  <2>1. DOMAIN <<>> = {}
    OBVIOUS
  <2> QED  BY <2>1 DEF Init, WritersOK, Busy, AppendsOK, SeeksOK
<1>4. MixedOK
  <2>1. \A p \in Processes : Mixtures(views[p]) = {}
    BY DEF Init, Mixtures, Range
  <2> QED  BY <2>1 DEF MixedOK
<1>5. \A p \in Processes : ReaderOK(p)
  BY DEF Init, ReaderOK
<1> QED  BY <1>1, <1>2, <1>3, <1>4, <1>5 DEF MemoryInv

(* Writers that go on, or give up, while nobody writes. *)
LEMMA WritersStay ==
    ASSUME WritersOK, UNCHANGED <<atomic, file, written, cuts>>, started \subseteq started',
           \A q \in Processes : Busy(q)' => Busy(q) /\ unwritten'[q] = unwritten[q]
    PROVE  WritersOK'
<1>1. ASSUME NEW q \in Processes, Busy(q)'
      PROVE  \E r \in started', m \in 0..3 : WriterOK(q, r, m)'
  <2>1. PICK r \in started, m \in 0..3 : WriterOK(q, r, m)
    BY <1>1 DEF WritersOK
  <2>2. WriterOK(q, r, m)'
    BY <1>1, <2>1 DEF WriterOK
  <2> QED  BY <2>1, <2>2
<1>2. ASSUME NEW q \in Processes, NEW u \in Processes, q # u, Busy(q)', Busy(u)'
      PROVE  Writes(q)' # Writes(u)'
  BY <1>2 DEF WritersOK, Writes
<1> QED  BY <1>1, <1>2 DEF WritersOK

(* Each piece of g is in the file, or was when p read it. *)
Between(g, p) ==
    \A k \in DOMAIN g : \/ k \in DOMAIN taken[p] /\ g[k] = taken[p][k]
                        \/ k \in DOMAIN file /\ g[k] = file[k]

LEMMA StandsBetween ==
    ASSUME NEW p \in Processes, NEW g, Between(g, p), NEW r, NEW i,
           Stands(taken[p], r, i), Stands(file, r, i)
    PROVE  Stands(g, r, i)
<1>1. ASSUME NEW j \in DOMAIN g, g[j][1] = r  PROVE  j \in i .. i + Size(r) - 1
  BY <1>1 DEF Between, Stands
<1>2. ASSUME NEW j \in i .. i + Size(r) - 1, j \in DOMAIN g  PROVE  g[j] = <<r, j - i + 1>>
  BY <1>2 DEF Between, Stands
<1>3. ASSUME i - 1 \in DOMAIN g  PROVE  Newline(g[i - 1])
  BY <1>3 DEF Between, Stands
<1> QED  BY <1>1, <1>2, <1>3 DEF Stands

LEMMA TextsStay ==
    ASSUME MemoryInv, UNCHANGED <<atomic, file, written, cuts, met>>,
           \A q \in Processes :
              /\ Between(taken'[q], q)
              /\ pc'[q] = "sought" =>
                   at'[q] = Len(file) \/ (pc[q] = "sought" /\ at'[q] = at[q])
    PROVE  SeeksOK'
<1> USE DEF MemoryInv
<1>1. ASSUME ~atomic, NEW r \in written \ met
      PROVE  \E i \in DOMAIN file : TextAt(r, i)'
  <2>1. PICK i \in DOMAIN file : TextAt(r, i)
    BY <1>1 DEF SeeksOK
  <2>2. \A q \in Processes : Stands(taken'[q], r, i)
    BY <2>1, StandsBetween DEF TextAt
  <2>3. TextAt(r, i)'
    BY <2>1, <2>2 DEF TextAt, Stands
  <2> QED  BY <2>3
<1>2. ASSUME ~atomic, NEW q \in Processes
      PROVE  /\ \A i \in DOMAIN taken'[q] : taken'[q][i][1] \in written
             /\ Len(file) \in DOMAIN taken'[q] => Newline(taken'[q][Len(file)])
  <2>1. \A i \in DOMAIN taken'[q] : taken'[q][i][1] \in written
    BY <1>2 DEF Between, SeeksOK
  <2>2. ASSUME Len(file) \in DOMAIN taken'[q]  PROVE  Newline(taken'[q][Len(file)])
    <3>1. \/ Len(file) \in DOMAIN taken[q] /\ taken'[q][Len(file)] = taken[q][Len(file)]
          \/ Len(file) \in DOMAIN file /\ taken'[q][Len(file)] = file[Len(file)]
      BY <2>2 DEF Between
    <3> QED  BY <1>2, <3>1 DEF SeeksOK
  <2> QED  BY <2>1, <2>2
<1> QED  BY <1>1, <1>2 DEF SeeksOK

LEMMA MixedStays ==
    ASSUME MixedOK, atomic' = atomic, started \subseteq started', met \subseteq met',
           \A q \in Processes : views'[q] = views[q] \/ views'[q] = <<>>
    PROVE  MixedOK'
<1>1. ASSUME NEW q \in Processes  PROVE  Mixtures(views[q])' \subseteq Mixtures(views[q])
  <2>1. CASE views'[q] = views[q]
    BY <2>1 DEF Mixtures, Body
  <2>2. CASE views'[q] = <<>>
    BY <2>2 DEF Mixtures, Range
  <2> QED  BY <2>1, <2>2
<1>2. \A q \in Processes : Mixtures(views[q])' \subseteq Mixtures(views[q])
  BY <1>1
<1> QED  BY <1>2 DEF MixedOK, Range

(* A reader goes on, or stops, while what is out of reach stays. *)
LEMMA ReaderStays ==
    ASSUME MemoryInv, TypeOK', NEW q \in Processes, Len(file) <= Len(file'),
           \A n \in 0 .. Len(file) : Beyond(n) => Beyond(n)' /\ \A k \in 1 .. n : file'[k] = file[k],
           pc'[q] = "loading" => pc[q] = "loading" /\ sure'[q] = sure[q],
           Between(taken'[q], q),
           pc'[q] # "loading" => sure'[q] = <<>>, pc'[q] # "idle" => views'[q] = <<>>
    PROVE  ReaderOK(q)'
<1> USE DEF MemoryInv
<1>1. ASSUME pc'[q] = "loading"
      PROVE  \E n \in 0 .. Len(file') :
                /\ Beyond(n)' /\ sure'[q] = RecordsOf(file', EndedBy(file', n))
                /\ \A k \in 1 .. n : k \in DOMAIN taken'[q] => taken'[q][k] = file'[k]
  <2>1. PICK n \in 0 .. Len(file) :
            /\ Beyond(n) /\ sure[q] = RecordsOf(file, EndedBy(file, n))
            /\ \A k \in 1 .. n : k \in DOMAIN taken[q] => taken[q][k] = file[k]
    BY <1>1 DEF ReaderOK
  <2>2. Len(file) \in Nat /\ Len(file') \in Nat
    BY FileFacts, LenProperties DEF TypeOK
  <2>3. Beyond(n)' /\ (\A k \in 1 .. n : file'[k] = file[k]) /\ n <= Len(file) /\ n <= Len(file') /\ n \in Nat
    BY <2>1, <2>2
  <2>4. PICK S : file \in Seq(S) /\ file' \in Seq(S)
    <3>1. file \in Seq(Pieces(started \cup started')) /\ file' \in Seq(Pieces(started \cup started'))
      BY MorePieces DEF TypeOK
    <3> QED  BY <3>1
  <2>5. RecordsOf(file', EndedBy(file', n)) = RecordsOf(file, EndedBy(file, n))
    BY <2>3, <2>4, SamePrefix
  <2>6. \A k \in 1 .. n : k \in DOMAIN taken'[q] => taken'[q][k] = file'[k]
    BY <2>1, <2>3 DEF Between
  <2> QED  BY <1>1, <2>1, <2>2, <2>3, <2>5, <2>6
<1> QED  BY <1>1 DEF ReaderOK

----
(* Reading, and what of the file is out of reach. *)

LEMMA FirmBound ==
    ASSUME MemoryInv
    PROVE  \E n \in 0 .. Len(file) : Beyond(n) /\ FirmLines = EndedBy(file, n)
<1> USE DEF MemoryInv
<1>1. PICK len \in Nat : len = Len(file)
  BY FileFacts
<1> DEFINE T == {m \in 0 .. len : Beyond(len - m)}
<1>2. len \in T
  <2>1. \A q \in Processes : at[q] \in Nat
    BY <1>1 DEF TypeOK
  <2> QED  BY <2>1 DEF Beyond
<1>3. PICK m \in T : \A l \in T : m <= l
  <2>1. T \in SUBSET Nat
    OBVIOUS
  <2> HIDE DEF T
  <2> QED  BY <1>2, <2>1, LeastNat
<1>4. m \in 0 .. len /\ len - m \in 0 .. len /\ Beyond(len - m)
  OBVIOUS
<1>5. ASSUME NEW i \in RecordLines(file)
      PROVE  i \in FirmLines <=> LineEnd(file, i) + 1 <= len - m
  <2>1. PICK newline \in Nat : newline = LineEnd(file, i) + 1
    BY FileFacts, LineRead
  <2>2. i \in FirmLines <=> newline <= len /\ Beyond(newline)
    BY <1>1, <2>1 DEF FirmLines
  <2>3. newline <= len /\ Beyond(newline) => newline <= len - m
    <3>1. newline <= len /\ Beyond(newline) => len - newline \in T
      <4>1. len - (len - newline) = newline
        BY <2>1
      <4> QED  BY <4>1
    <3> HIDE DEF T
    <3>2. newline <= len /\ Beyond(newline) => m <= len - newline
      BY <1>3, <3>1
    <3> QED  BY <1>4, <3>2
  <2>4. newline <= len - m => newline <= len /\ Beyond(newline)
    <3>1. \A q \in Processes : at[q] \in Nat
      BY <1>1 DEF TypeOK
    <3> QED  BY <1>4, <3>1 DEF Beyond
  <2> QED  BY <2>1, <2>2, <2>3, <2>4
<1>6. FirmLines = EndedBy(file, len - m)
  BY <1>5 DEF FirmLines, EndedBy
<1> QED  BY <1>1, <1>4, <1>6

LEMMA FirmFacts ==
    ASSUME MemoryInv
    PROVE  /\ RecordsOf(file, FirmLines) \in Seq(Seq(Pieces(started)))
           /\ RecordsOf(file, FirmLines) = SubSeq(ReadRecords(file), 1, Cardinality(FirmLines))
           /\ Cardinality(FirmLines) \in 0 .. Len(ReadRecords(file))
<1>1. file \in Seq(Pieces(started))
  BY DEF MemoryInv, TypeOK
<1>2. PICK n \in Nat : FirmLines = EndedBy(file, n)
  BY FirmBound
<1> QED  BY <1>1, <1>2, PrefixRecords

(* A step that writes nothing and begins no load. *)
LEMMA QuietInv ==
    ASSUME MemoryInv, TypeOK', UNCHANGED <<atomic, file, written, cuts, met>>,
           started \subseteq started', WritersOK', MixedOK',
           \A q \in Processes :
              /\ Between(taken'[q], q) /\ (atomic => taken'[q] = <<>>)
              /\ pc'[q] = "sought" =>
                   ~atomic /\ (at'[q] = Len(file) \/ (pc[q] = "sought" /\ at'[q] = at[q]))
              /\ ReaderOK(q)' \/ ( /\ pc'[q] = "loading" => pc[q] = "loading" /\ sure'[q] = sure[q]
                                   /\ pc'[q] # "loading" => sure'[q] = <<>>
                                   /\ pc'[q] # "idle" => views'[q] = <<>>)
    PROVE  MemoryInv'
<1> USE DEF MemoryInv
<1>1. AppendsOK'
  BY DEF AppendsOK, Chained
<1>2. SeeksOK'
  BY TextsStay
<1>3. \A n \in 0 .. Len(file) : Beyond(n) => Beyond(n)' /\ \A k \in 1 .. n : file'[k] = file[k]
  <2>1. Len(file) \in Nat
    BY FileFacts
  <2> QED  BY <2>1 DEF Beyond
<1>4. ASSUME NEW q \in Processes  PROVE  ReaderOK(q)'
  <2>1. Len(file) <= Len(file')
    BY FileFacts
  <2>2. CASE ReaderOK(q)'
    BY <2>2
  <2>3. CASE ~ReaderOK(q)'
    BY <1>3, <2>1, <2>3, ReaderStays
  <2> QED  BY <2>2, <2>3
<1> QED  BY <1>1, <1>2, <1>4

LEMMA LoadInv ==
    ASSUME MemoryInv, NEW p \in Processes, Load(p)
    PROVE  MemoryInv'
<1> USE DEF MemoryInv
<1>1. /\ UNCHANGED <<atomic, file, written, cuts, met, unwritten, at, started, taken>>
      /\ pc[p] \in {"idle", "written"} /\ pc' = [pc EXCEPT ![p] = "loading"]
      /\ sure' = [sure EXCEPT ![p] = RecordsOf(file, FirmLines)]
      /\ views' = [views EXCEPT ![p] = <<>>]
  BY DEF Load, Goto, file_vars, write_vars
<1>2. RecordsOf(file, FirmLines) \in Seq(Seq(Pieces(started)))
  BY FirmFacts
<1>3. TypeOK'
  <2>1. <<>> \in Seq(Seq(Pieces(started)))
    BY EmptySeq
  <2>2. \A q \in Processes : (pc'[q] \in {"writing", "sought"} <=> pc[q] \in {"writing", "sought"})
                             /\ (pc'[q] # "loading" => pc[q] # "loading")
    BY <1>1 DEF TypeOK
  <2> QED  BY <1>1, <1>2, <2>1, <2>2 DEF TypeOK
<1>4. \A q \in Processes : /\ Busy(q)' <=> Busy(q) 
                           /\ pc'[q] = "sought" <=> pc[q] = "sought"
                           /\ views'[q] = views[q] \/ views'[q] = <<>>
  BY <1>1 DEF Busy, TypeOK
<1>5. WritersOK' /\ MixedOK'
  BY <1>1, <1>4, WritersStay, MixedStays
<1>6. taken[p] = <<>>
  BY <1>1 DEF TypeOK
<1>7. ReaderOK(p)'
  <2>1. PICK n \in 0 .. Len(file) : Beyond(n) /\ FirmLines = EndedBy(file, n)
    BY FirmBound
  <2>2. Beyond(n)'
    BY <1>1, <1>4, <2>1 DEF Beyond
  <2>3. sure'[p] = RecordsOf(file', EndedBy(file', n))
    BY <1>1, <2>1 DEF TypeOK
  <2>4. views'[p] = <<>> /\ pc'[p] = "loading" /\ DOMAIN taken'[p] = {}
    BY <1>1, <1>6 DEF TypeOK
  <2> QED  BY <1>1, <2>1, <2>2, <2>3, <2>4 DEF ReaderOK
<1>8. ASSUME NEW q \in Processes, q # p
      PROVE  /\ pc'[q] = "loading" => pc[q] = "loading" /\ sure'[q] = sure[q]
             /\ pc'[q] # "loading" => sure'[q] = <<>>
             /\ pc'[q] # "idle" => views'[q] = <<>>
  <2>1. pc'[q] = pc[q] /\ sure'[q] = sure[q] /\ views'[q] = views[q]
    BY <1>1, <1>8 DEF TypeOK
  <2> QED  BY <2>1 DEF ReaderOK
<1>9. \A q \in Processes : Between(taken'[q], q) /\ (atomic => taken'[q] = <<>>)
  BY <1>1 DEF Between, AppendsOK
<1>10. \A q \in Processes : pc'[q] = "sought" => ~atomic /\ pc[q] = "sought" /\ at'[q] = at[q]
  BY <1>1, <1>4 DEF AppendsOK
<1> QED  BY <1>1, <1>3, <1>5, <1>7, <1>8, <1>9, <1>10, QuietInv

LEMMA ReadOnInv ==
    ASSUME MemoryInv, NEW p \in Processes, ReadOn(p)
    PROVE  MemoryInv'
<1> USE DEF MemoryInv
<1>1. PICK n \in Len(taken[p]) + 1 .. Len(file) :
        taken' = [taken EXCEPT ![p] = @ \o SubSeq(file, Len(@) + 1, n)]
  BY DEF ReadOn
<1>2. /\ UNCHANGED <<atomic, file, written, cuts, met, unwritten, at, started, pc, views, sure>>
      /\ ~atomic /\ pc[p] = "loading"
  BY DEF ReadOn, file_vars, write_vars
<1>3. PICK got \in Nat, len \in Nat :
        /\ got = Len(taken[p]) /\ len = Len(file) /\ n \in got + 1 .. len
        /\ DOMAIN taken[p] = 1 .. got /\ DOMAIN file = 1 .. len
        /\ taken[p] \in Seq(Pieces(started)) /\ \A k \in 1 .. len : file[k] \in Pieces(started)
  BY TakenFacts, FileFacts
<1> DEFINE more == SubSeq(file, got + 1, n)
           all == taken[p] \o more
<1>4. /\ more \in Seq(Pieces(started)) /\ Len(more) = n - got
      /\ \A k \in 1 .. n - got : more[k] = file[got + k]
  <2>1. \A k \in got + 1 .. n : file[k] \in Pieces(started)
    BY <1>3
  <2>a. got + 1 \in Int /\ n \in Int
    BY <1>3
  <2>2. /\ more \in Seq(Pieces(started)) /\ Len(more) = (IF got + 1 <= n THEN n - (got + 1) + 1 ELSE 0)
        /\ \A k \in 1 .. n - (got + 1) + 1 : more[k] = file[(got + 1) + k - 1]
    BY <2>a, <2>1, SubSeqProperties
  <2> HIDE DEF more
  <2>3. n - (got + 1) + 1 = n - got /\ got + 1 <= n
    BY <1>3
  <2>4. \A k \in 1 .. n - got : (got + 1) + k - 1 = got + k
    BY <1>3
  <2> QED  BY <2>2, <2>3, <2>4
<1>5. /\ all \in Seq(Pieces(started)) /\ Len(all) = n
      /\ \A k \in 1 .. n : all[k] = IF k <= got THEN taken[p][k] ELSE file[k]
  <2> HIDE DEF more
  <2>1. /\ all \in Seq(Pieces(started)) /\ Len(all) = Len(taken[p]) + Len(more)
        /\ \A k \in 1 .. Len(taken[p]) + Len(more) :
             all[k] = IF k <= Len(taken[p]) THEN taken[p][k] ELSE more[k - Len(taken[p])]
    BY <1>3, <1>4, ConcatProperties
  <2> HIDE DEF all
  <2>2. Len(taken[p]) + Len(more) = n
    BY <1>3, <1>4
  <2>3. \A k \in 1 .. n : ~(k <= got) => k - got \in 1 .. n - got /\ got + (k - got) = k
    BY <1>3
  <2> QED  BY <1>3, <1>4, <2>1, <2>2, <2>3
<1>6. taken' = [taken EXCEPT ![p] = all]
  BY <1>1, <1>3 DEF TypeOK
<1> HIDE DEF all
<1>7. TypeOK'
  <2>1. taken' \in [Processes -> Seq(Pieces(started))]
    BY <1>5, <1>6 DEF TypeOK
  <2>2. \A q \in Processes : Len(taken'[q]) <= Len(file) /\ (pc[q] # "loading" => taken'[q] = <<>>)
    BY <1>2, <1>3, <1>5, <1>6 DEF TypeOK
  <2> QED  BY <1>2, <2>1, <2>2 DEF TypeOK
<1>8. \A q \in Processes : Busy(q)' <=> Busy(q)
  BY <1>2 DEF Busy
<1>9. WritersOK' /\ MixedOK'
  BY <1>2, <1>8, WritersStay, MixedStays
<1>10. ASSUME NEW q \in Processes  PROVE  Between(taken'[q], q)
  <2>1. CASE q = p
    <3>1. taken'[p] = all /\ DOMAIN all = 1 .. n
      BY <1>5, <1>6, LenProperties DEF TypeOK
    <3>2. \A k \in 1 .. n : (k <= got => k \in 1 .. got) /\ k \in 1 .. len
      BY <1>3
    <3> QED  BY <1>3, <1>5, <2>1, <3>1, <3>2 DEF Between
  <2>2. CASE q # p
    BY <1>6, <2>2 DEF TypeOK, Between
  <2> QED  BY <2>1, <2>2
<1>11. \A q \in Processes : /\ pc'[q] = "loading" => pc[q] = "loading" /\ sure'[q] = sure[q]
                            /\ pc'[q] # "loading" => sure'[q] = <<>>
                            /\ pc'[q] # "idle" => views'[q] = <<>>
  BY <1>2 DEF ReaderOK
<1> QED  BY <1>2, <1>7, <1>9, <1>10, <1>11, QuietInv

(* What is read in the end: the length of the file, and pieces that were in  *)
(* it.                                                                       *)
LEMMA AllTakenFacts ==
    ASSUME MemoryInv, NEW p \in Processes
    PROVE  /\ AllTaken(p) \in Seq(Pieces(started)) /\ Len(AllTaken(p)) = Len(file)
           /\ Between(AllTaken(p), p)
           /\ taken[p] = <<>> => AllTaken(p) = file
<1> USE DEF MemoryInv
<1>1. PICK got \in Nat, len \in Nat :
        /\ got = Len(taken[p]) /\ len = Len(file) /\ got <= len
        /\ DOMAIN taken[p] = 1 .. got /\ DOMAIN file = 1 .. len
        /\ taken[p] \in Seq(Pieces(started)) /\ \A k \in 1 .. len : file[k] \in Pieces(started)
  BY TakenFacts, FileFacts
<1> DEFINE more == SubSeq(file, got + 1, len)
           all == taken[p] \o more
<1>2. /\ more \in Seq(Pieces(started)) /\ Len(more) = len - got
      /\ \A k \in 1 .. len - got : more[k] = file[got + k]
  <2>1. \A k \in got + 1 .. len : file[k] \in Pieces(started)
    BY <1>1
  <2>a. got + 1 \in Int /\ len \in Int
    BY <1>1
  <2>2. /\ more \in Seq(Pieces(started))
        /\ Len(more) = (IF got + 1 <= len THEN len - (got + 1) + 1 ELSE 0)
        /\ \A k \in 1 .. len - (got + 1) + 1 : more[k] = file[(got + 1) + k - 1]
    BY <2>a, <2>1, SubSeqProperties
  <2> HIDE DEF more
  <2>3. len - (got + 1) + 1 = len - got /\ (~(got + 1 <= len) => len - got = 0)
    BY <1>1
  <2>4. \A k \in 1 .. len - got : (got + 1) + k - 1 = got + k
    BY <1>1
  <2> QED  BY <2>2, <2>3, <2>4
<1>3. /\ all \in Seq(Pieces(started)) /\ Len(all) = len
      /\ \A k \in 1 .. len : all[k] = IF k <= got THEN taken[p][k] ELSE file[k]
  <2> HIDE DEF more
  <2>1. /\ all \in Seq(Pieces(started)) /\ Len(all) = Len(taken[p]) + Len(more)
        /\ \A k \in 1 .. Len(taken[p]) + Len(more) :
             all[k] = IF k <= Len(taken[p]) THEN taken[p][k] ELSE more[k - Len(taken[p])]
    BY <1>1, <1>2, ConcatProperties
  <2> HIDE DEF all
  <2>2. Len(taken[p]) + Len(more) = len
    BY <1>1, <1>2
  <2>3. \A k \in 1 .. len : ~(k <= got) => k - got \in 1 .. len - got /\ got + (k - got) = k
    BY <1>1
  <2> QED  BY <1>1, <1>2, <2>1, <2>2, <2>3
<1>4. AllTaken(p) = all
  BY <1>1 DEF AllTaken
<1> HIDE DEF all
<1>5. Between(all, p)
  <2>1. DOMAIN all = 1 .. len
    BY <1>3, LenProperties
  <2>2. \A k \in 1 .. len : k <= got => k \in 1 .. got
    BY <1>1
  <2> QED  BY <1>1, <1>3, <2>1, <2>2 DEF Between
<1>6. ASSUME taken[p] = <<>>  PROVE  all = file
  <2>1. got = 0 /\ file \in Seq(Pieces(started))
    BY <1>1, <1>6, EmptySeq DEF TypeOK
  <2>2. \A k \in 1 .. len : all[k] = file[k]
    BY <1>3, <2>1
  <2> QED  BY <1>1, <1>3, <2>1, <2>2, SeqEqual
<1> QED  BY <1>1, <1>3, <1>4, <1>5, <1>6

(* A text that stands on its own is a line, and no other has a piece of it. *)
LEMMA TextIsLine ==
    ASSUME NEW f, Len(f) \in Nat, DOMAIN f = 1 .. Len(f), NEW r \in Records,
           NEW i \in 1 .. Len(f), i + Size(r) - 1 <= Len(f), Stands(f, r, i)
    PROVE  /\ i \in RecordLines(f) /\ LineText(f, i) = Body(r)
           /\ \A l \in RecordLines(f) : \A k \in l .. LineEnd(f, l) : f[k][1] = r => l = i
<1>1. PICK len \in Nat, size \in {3, 4} : len = Len(f) /\ size = Size(r)
  BY SizeType
<1> DEFINE last == i + size - 2
<1>2. \A k \in i .. last + 1 : k \in 1 .. len /\ f[k] = <<r, k - i + 1>>
  <2>1. \A k \in i .. last + 1 : k \in 1 .. len /\ k \in i .. i + Size(r) - 1
    BY <1>1
  <2> QED  BY <1>1, <2>1 DEF Stands
<1>3. /\ last \in i .. len /\ last + 1 \in 1 .. len /\ i \in i .. last + 1
      /\ last \in i .. last + 1 /\ last + 1 \in i .. last + 1
  BY <1>1
<1>4. i = 1 \/ Newline(f[i - 1])
  <2>1. i # 1 => i - 1 \in 1 .. len
    BY <1>1
  <2> QED  BY <1>1, <2>1 DEF Stands
<1>5. \A k \in i .. last + 1 : Newline(f[k]) <=> k = last + 1
  <2> SUFFICES ASSUME NEW k \in i .. last + 1  PROVE  Newline(f[k]) <=> k = last + 1
    OBVIOUS
  <2>1. f[k][1] = r /\ f[k][2] = k - i + 1
    BY <1>2
  <2> QED  BY <1>1, <2>1 DEF Newline
<1> HIDE DEF last
<1>6. EndsLine(f, i, last)
  <2>1. \A k \in i .. last : k \in i .. last + 1 /\ k # last + 1
    BY <1>1, <1>3
  <2> QED  BY <1>3, <1>5, <2>1 DEF EndsLine
<1>7. IsRecord(f, i, last)
  <2>1. f[i] = <<r, 1>> /\ f[last] = <<r, size - 1>>
    <3>1. i - i + 1 = 1 /\ last - i + 1 = size - 1
      BY <1>1 DEF last
    <3> QED  BY <1>2, <1>3, <3>1
  <2>2. ASSUME NEW k \in i .. last - 1
        PROVE  EndsInside(f[k]) /\ BeginsInside(f[k + 1])
    <3>1. k \in i .. last + 1 /\ k + 1 \in i .. last + 1
      BY <1>1, <1>3
    <3>2. f[k] = <<r, k - i + 1>> /\ f[k + 1] = <<r, (k + 1) - i + 1>>
      BY <1>2, <3>1
    <3>3. k - i + 1 < size - 1 /\ (k + 1) - i + 1 \in 2 .. size - 1
      BY <1>1 DEF last
    <3> QED  BY <1>1, <3>2, <3>3 DEF EndsInside, BeginsInside
  <2>3. \E k \in i .. last : f[k][2] = AnswerAt[f[k][1]]
    <3>1. PICK a \in 1 .. 3 : a = AnswerAt[r] /\ a <= size - 1
      BY <1>1, RecordsAssumption DEF Size
    <3>2. i + a - 1 \in i .. last /\ i + a - 1 \in i .. last + 1 /\ (i + a - 1) - i + 1 = a
      BY <1>1, <3>1 DEF last
    <3>3. f[i + a - 1] = <<r, a>>
      BY <1>2, <3>2
    <3> QED  BY <3>1, <3>2, <3>3
  <2>4. f[i][2] = 1 /\ f[last][2] = Size(f[last][1]) - 1
    BY <1>1, <2>1
  <2> QED  BY <2>2, <2>3, <2>4 DEF IsRecord
<1>8. Line(f, i, last)
  BY <1>1, <1>3, <1>4, <1>6, <1>7 DEF Line, StartsLine
<1>9. LineText(f, i) = Body(r)
  <2>1. LineEnd(f, i) = last
    BY <1>8, LineFound
  <2> DEFINE S == {<<r, k>> : k \in 1 .. size}
  <2>2. \A k \in i .. last : f[k] \in S
    <3> SUFFICES ASSUME NEW k \in i .. last  PROVE  f[k] \in S
      OBVIOUS
    <3>1. k \in i .. last + 1 /\ k - i + 1 \in 1 .. size
      BY <1>1 DEF last
    <3> QED  BY <1>2, <3>1
  <2>3. /\ SubSeq(f, i, last) \in Seq(S)
        /\ Len(SubSeq(f, i, last)) = IF i <= last THEN last - i + 1 ELSE 0
        /\ \A k \in 1 .. last - i + 1 : SubSeq(f, i, last)[k] = f[i + k - 1]
    <3>1. i \in Int /\ last \in Int
      BY <1>3
    <3> HIDE DEF S
    <3> QED  BY <2>2, <3>1, SubSeqProperties
  <2>4. last - i + 1 = size - 1 /\ i <= last /\ size - 1 \in Nat
    BY <1>1 DEF last
  <2>5. ASSUME NEW k \in 1 .. size - 1  PROVE  SubSeq(f, i, last)[k] = <<r, k>>
    <3>1. i + k - 1 \in i .. last + 1 /\ (i + k - 1) - i + 1 = k
      BY <1>1 DEF last
    <3> QED  BY <1>2, <2>3, <2>4, <3>1
  <2>6. Body(r) = [k \in 1 .. size - 1 |-> <<r, k>>]
    BY <1>1 DEF Body
  <2>7. Body(r) \in [1 .. size - 1 -> S]
    BY <1>1, <2>6
  <2>8. Body(r) \in Seq(S) /\ Len(Body(r)) = size - 1
    <3> HIDE DEF S
    <3>1. Body(r) \in Seq(S)
      BY <2>4, <2>7, SeqDef
    <3> QED  BY <2>4, <2>7, <3>1, LenProperties
  <2>9. SubSeq(f, i, last) = Body(r)
    <3> HIDE DEF S
    <3> QED  BY <2>3, <2>4, <2>5, <2>6, <2>8, SeqEqual
  <2> QED  BY <2>1, <2>9 DEF LineText
<1>10. ASSUME NEW l \in RecordLines(f), NEW k \in l .. LineEnd(f, l), f[k][1] = r
       PROVE  l = i
  <2>1. PICK e \in Nat : e = LineEnd(f, l) /\ Line(f, l, e) /\ l \in Nat /\ l >= 1 /\ e <= len
    BY <1>1, LineRead
  <2>2. StartsLine(f, l) /\ \A j \in l .. e : ~Newline(f[j])
    BY <2>1 DEF Line, EndsLine
  <2>3. k \in i .. last + 1 /\ k \in 1 .. len /\ k \in l .. e
    <3>1. k \in 1 .. len
      BY <1>1, <2>1
    <3>2. k \in i .. i + Size(r) - 1
      BY <1>1, <1>10, <3>1 DEF Stands
    <3> QED  BY <1>1, <2>1, <3>1, <3>2 DEF last
  <2>4. ASSUME l < i  PROVE  FALSE
    <3>1. i - 1 \in l .. e /\ i # 1
      BY <1>1, <2>1, <2>3, <2>4
    <3> QED  BY <1>4, <2>2, <3>1
  <2>5. ASSUME i < l  PROVE  FALSE
    <3>1. l - 1 \in i .. last + 1 /\ l - 1 # last + 1 /\ l # 1
      BY <1>1, <1>3, <2>1, <2>3, <2>5
    <3> QED  BY <1>5, <2>2, <3>1 DEF StartsLine
  <2> QED  BY <2>1, <2>4, <2>5
<1> QED  BY <1>1, <1>8, <1>9, <1>10, LineFound

(* What load makes of a file that was overwritten as it was read: a mixture  *)
(* has only parts of records whose writing met another's.                    *)
LEMMA MixedByMeeting ==
    ASSUME MemoryInv, ~atomic, NEW p \in Processes,
           NEW text \in Mixtures(ReadRecords(AllTaken(p))), NEW piece \in Range(text)
    PROVE  piece[1] \in met
<1> USE DEF MemoryInv
<1>1. PICK g : g = AllTaken(p)
  OBVIOUS
<1>2. g \in Seq(Pieces(started)) /\ Len(g) = Len(file) /\ Between(g, p)
  BY <1>1, AllTakenFacts
<1>3. PICK len \in Nat : len = Len(g) /\ len = Len(file) /\ DOMAIN g = 1 .. len /\ DOMAIN file = 1 .. len
  BY <1>2, PieceFacts, FileFacts
<1>4. PICK l \in RecordLines(g) : text = LineText(g, l)
  <2>1. text \in Range(ReadRecords(g))
    BY <1>1 DEF Mixtures
  <2> QED  BY <1>2, <2>1, LoadFacts
<1>5. PICK e \in Nat : e = LineEnd(g, l) /\ l \in Nat /\ l >= 1 /\ l <= e /\ e <= len
  BY <1>3, LineRead
<1>6. PICK k \in l .. e : piece = g[k]
  <2>1. \A k \in l .. e : g[k] \in Pieces(started)
    <3>1. \A k \in l .. e : k \in 1 .. len
      BY <1>5
    <3> QED  BY <1>2, <1>3, <3>1, PieceFacts
  <2>2. /\ SubSeq(g, l, e) \in Seq(Pieces(started))
        /\ Len(SubSeq(g, l, e)) = (IF l <= e THEN e - l + 1 ELSE 0)
        /\ \A k \in 1 .. e - l + 1 : SubSeq(g, l, e)[k] = g[l + k - 1]
    BY <1>5, <2>1, SubSeqProperties
  <2>3. DOMAIN SubSeq(g, l, e) = 1 .. e - l + 1
    BY <1>5, <2>2, LenProperties
  <2>4. PICK k \in 1 .. e - l + 1 : piece = g[l + k - 1]
    BY <1>4, <1>5, <2>2, <2>3 DEF LineText, Range
  <2>5. l + k - 1 \in l .. e
    BY <1>5
  <2> QED  BY <2>4, <2>5
<1>7. PICK r : r = piece[1]
  OBVIOUS
<1>8. r \in written
  <2>1. k \in DOMAIN g
    BY <1>3, <1>5
  <2> QED  BY <1>2, <1>6, <1>7, <2>1 DEF Between, SeeksOK
<1>9. ASSUME r \notin met  PROVE  FALSE
  <2>1. PICK i \in DOMAIN file : TextAt(r, i)
    BY <1>8, <1>9 DEF SeeksOK
  <2>2. Stands(g, r, i)
    BY <1>2, <2>1, StandsBetween DEF TextAt
  <2>3. r \in Records /\ r \in started
    BY <1>8 DEF TypeOK
  <2>4. i \in 1 .. Len(g) /\ i + Size(r) - 1 <= Len(g)
    BY <1>3, <2>1 DEF TextAt
  <2>5. LineText(g, i) = Body(r) /\ l = i
    BY <1>3, <1>5, <1>6, <1>7, <2>2, <2>3, <2>4, TextIsLine
  <2> QED  BY <1>4, <2>3, <2>5 DEF Mixtures
<1> QED  BY <1>7, <1>9

LEMMA EndLoadInv ==
    ASSUME MemoryInv, NEW p \in Processes, EndLoad(p)
    PROVE  MemoryInv'
<1> USE DEF MemoryInv
<1>1. /\ UNCHANGED <<atomic, file, written, cuts, met, unwritten, at, started>>
      /\ pc[p] = "loading" /\ pc' = [pc EXCEPT ![p] = "idle"]
      /\ taken' = [taken EXCEPT ![p] = <<>>] /\ sure' = [sure EXCEPT ![p] = <<>>]
      /\ views' = views \/ views' = [views EXCEPT ![p] = ReadRecords(AllTaken(p))]
  BY DEF EndLoad, Goto, file_vars, write_vars
<1>2. ReadRecords(AllTaken(p)) \in Seq(Seq(Pieces(started)))
  BY AllTakenFacts, LoadFacts
<1>3. TypeOK'
  <2>1. \A q \in Processes : (pc'[q] \in {"writing", "sought"} <=> pc[q] \in {"writing", "sought"})
                             /\ (pc'[q] # "loading" => q = p \/ pc[q] # "loading")
    BY <1>1 DEF TypeOK
  <2>2. <<>> \in Seq(Pieces(started)) /\ <<>> \in Seq(Seq(Pieces(started))) /\ Len(<<>>) = 0
    BY EmptySeq
  <2>3. taken' \in [Processes -> Seq(Pieces(started))] /\ sure' \in [Processes -> Seq(Seq(Pieces(started)))]
        /\ views' \in [Processes -> Seq(Seq(Pieces(started)))]
    BY <1>1, <1>2, <2>2 DEF TypeOK
  <2>4. \A q \in Processes : Len(taken'[q]) <= Len(file) /\ (q = p \/ pc[q] # "loading" => taken'[q] = <<>>)
    BY <1>1, <2>2, FileFacts DEF TypeOK
  <2> QED  BY <1>1, <2>1, <2>3, <2>4 DEF TypeOK
<1>4. \A q \in Processes : /\ Busy(q)' <=> Busy(q)
                           /\ pc'[q] = "sought" <=> pc[q] = "sought"
  BY <1>1 DEF Busy, TypeOK
<1>5. WritersOK'
  BY <1>1, <1>4, WritersStay
<1>6. MixedOK'
  <2> SUFFICES ASSUME ~atomic, NEW q \in Processes, NEW text \in Mixtures(views'[q]),
                      NEW piece \in Range(text)
               PROVE  piece[1] \in met
    BY <1>1 DEF MixedOK, Mixtures, Body
  <2>1. CASE views'[q] = views[q]
    BY <2>1 DEF MixedOK
  <2>2. CASE views'[q] # views[q]
    <3>1. q = p /\ views'[q] = ReadRecords(AllTaken(p))
      BY <1>1, <2>2 DEF TypeOK
    <3> QED  BY <3>1, MixedByMeeting
  <2> QED  BY <2>1, <2>2
<1>7. \A q \in Processes : Between(taken'[q], q) /\ (atomic => taken'[q] = <<>>)
  BY <1>1 DEF Between, AppendsOK, TypeOK
<1>8. ASSUME NEW q \in Processes
      PROVE  /\ pc'[q] = "loading" => pc[q] = "loading" /\ sure'[q] = sure[q]
             /\ pc'[q] # "loading" => sure'[q] = <<>>
             /\ pc'[q] # "idle" => views'[q] = <<>>
  <2>1. q # p => pc'[q] = pc[q] /\ sure'[q] = sure[q] /\ views'[q] = views[q]
    BY <1>1 DEF TypeOK
  <2>2. pc'[p] = "idle" /\ sure'[p] = <<>>
    BY <1>1 DEF TypeOK
  <2> QED  BY <2>1, <2>2 DEF ReaderOK
<1>9. \A q \in Processes : pc'[q] = "sought" => ~atomic /\ pc[q] = "sought" /\ at'[q] = at[q]
  BY <1>1, <1>4 DEF AppendsOK
<1> QED  BY <1>1, <1>3, <1>5, <1>6, <1>7, <1>8, <1>9, QuietInv

LEMMA AbandonInv ==
    ASSUME MemoryInv, NEW p \in Processes, Abandon(p)
    PROVE  MemoryInv'
<1> USE DEF MemoryInv
<1>1. /\ UNCHANGED <<atomic, file, written, cuts, met, views, started>> /\ pc[p] # "idle"
      /\ pc' = [pc EXCEPT ![p] = "idle"] /\ unwritten' = [unwritten EXCEPT ![p] = <<>>]
      /\ at' = [at EXCEPT ![p] = 0]
      /\ taken' = [taken EXCEPT ![p] = <<>>] /\ sure' = [sure EXCEPT ![p] = <<>>]
  BY DEF Abandon, Goto, file_vars
<1>2. TypeOK'
  <2>1. /\ <<>> \in Seq(Pieces(started)) /\ <<>> \in Seq(Seq(Pieces(started))) /\ Len(<<>>) = 0
        /\ Len(file) \in Nat
    BY EmptySeq, FileFacts
  <2>2. /\ taken' \in [Processes -> Seq(Pieces(started))] /\ unwritten' \in [Processes -> Seq(Pieces(started))]
        /\ sure' \in [Processes -> Seq(Seq(Pieces(started)))] /\ at' \in [Processes -> 0 .. Len(file)]
        /\ pc' \in [Processes -> {"idle", "loading", "writing", "sought", "written"}]
    BY <1>1, <2>1 DEF TypeOK
  <2>3. \A q \in Processes : /\ pc'[q] \in {"writing", "sought"} <=> unwritten'[q] # <<>>
                             /\ Len(taken'[q]) <= Len(file)
                             /\ pc'[q] # "loading" => taken'[q] = <<>>
    BY <1>1, <2>1 DEF TypeOK
  <2> QED  BY <1>1, <2>2, <2>3 DEF TypeOK
<1>3. \A q \in Processes :
         /\ Busy(q)' => Busy(q) /\ unwritten'[q] = unwritten[q]
         /\ pc'[q] = "sought" => pc[q] = "sought" /\ at'[q] = at[q]
  BY <1>1 DEF Busy, TypeOK
<1>4. WritersOK' /\ MixedOK'
  BY <1>1, <1>3, WritersStay, MixedStays
<1>5. \A q \in Processes : Between(taken'[q], q) /\ (atomic => taken'[q] = <<>>)
  BY <1>1 DEF Between, AppendsOK, TypeOK
<1>6. ASSUME NEW q \in Processes
      PROVE  /\ pc'[q] = "loading" => pc[q] = "loading" /\ sure'[q] = sure[q]
             /\ pc'[q] # "loading" => sure'[q] = <<>>
             /\ pc'[q] # "idle" => views'[q] = <<>>
  <2>1. q # p => pc'[q] = pc[q] /\ sure'[q] = sure[q]
    BY <1>1 DEF TypeOK
  <2>2. pc'[p] = "idle" /\ sure'[p] = <<>>
    BY <1>1 DEF TypeOK
  <2> QED  BY <1>1, <2>1, <2>2 DEF ReaderOK
<1>7. \A q \in Processes : pc'[q] = "sought" => ~atomic /\ pc[q] = "sought" /\ at'[q] = at[q]
  BY <1>1, <1>3 DEF AppendsOK
<1> QED  BY <1>1, <1>2, <1>4, <1>5, <1>6, <1>7, QuietInv

LEMMA SeekInv ==
    ASSUME MemoryInv, NEW p \in Processes, Seek(p)
    PROVE  MemoryInv'
<1> USE DEF MemoryInv
<1>1. /\ UNCHANGED <<atomic, file, written, cuts, met, unwritten, started, taken, views, sure>>
      /\ ~atomic /\ pc[p] = "writing" /\ pc' = [pc EXCEPT ![p] = "sought"]
      /\ at' = [at EXCEPT ![p] = Len(file)]
  BY DEF Seek, Goto, file_vars, read_vars
<1>2. TypeOK'
  <2>1. Len(file) \in Nat
    BY FileFacts
  <2>2. at' \in [Processes -> 0 .. Len(file)]
    BY <1>1, <2>1 DEF TypeOK
  <2>3. \A q \in Processes : (pc'[q] \in {"writing", "sought"} <=> pc[q] \in {"writing", "sought"})
                             /\ (pc'[q] # "loading" <=> pc[q] # "loading")
    BY <1>1 DEF TypeOK
  <2> QED  BY <1>1, <2>2, <2>3 DEF TypeOK
<1>3. \A q \in Processes :
         /\ Busy(q)' <=> Busy(q)
         /\ pc'[q] = "sought" => at'[q] = Len(file) \/ (pc[q] = "sought" /\ at'[q] = at[q])
  BY <1>1 DEF Busy, TypeOK
<1>4. WritersOK' /\ MixedOK'
  BY <1>1, <1>3, WritersStay, MixedStays
<1>5. \A q \in Processes : Between(taken'[q], q)
  BY <1>1 DEF Between
<1>6. ASSUME NEW q \in Processes
      PROVE  /\ pc'[q] = "loading" => pc[q] = "loading" /\ sure'[q] = sure[q]
             /\ pc'[q] # "loading" => sure'[q] = <<>>
             /\ pc'[q] # "idle" => views'[q] = <<>>
  <2>1. (pc'[q] = "loading" <=> pc[q] = "loading") /\ (pc'[q] # "idle" => pc[q] # "idle")
    BY <1>1 DEF TypeOK
  <2> QED  BY <1>1, <2>1 DEF ReaderOK
<1> QED  BY <1>1, <1>2, <1>3, <1>4, <1>5, <1>6, QuietInv

LEMMA OpenInv ==
    ASSUME MemoryInv, NEW p \in Processes, Open(p)
    PROVE  MemoryInv'
<1> USE DEF MemoryInv
<1>1. PICK r \in Records \ started :
        /\ unwritten' = [unwritten EXCEPT ![p] = Text(r)] /\ started' = started \cup {r}
        /\ pc[p] = "idle" /\ pc' = [pc EXCEPT ![p] = "writing"]
        /\ views' = [views EXCEPT ![p] = <<>>]
        /\ UNCHANGED <<atomic, file, written, cuts, met, at, taken, sure>>
  BY DEF Open, Goto, file_vars
<1>2. Text(r) = Rest(r, 0) /\ 0 < Size(r)
  BY SizeType DEF Text, Rest
<1>3. Text(r) \in Seq(Pieces(started')) /\ Text(r) # <<>> /\ Text(r)[1][1] = r
  <2>1. /\ Text(r) \in Seq(Pieces({r})) /\ Text(r) # <<>> /\ Text(r)[1] = <<r, 1>>
    BY <1>2, RestFacts
  <2>2. Seq(Pieces({r})) \subseteq Seq(Pieces(started'))
    BY <1>1, MorePieces
  <2>3. <<r, 1>>[1] = r
    OBVIOUS
  <2> QED  BY <2>1, <2>2, <2>3
<1>4. TypeOK'
  <2>1. /\ Pieces(started) \subseteq Pieces(started') /\ Seq(Pieces(started)) \subseteq Seq(Pieces(started'))
        /\ Seq(Seq(Pieces(started))) \subseteq Seq(Seq(Pieces(started')))
        /\ <<>> \in Seq(Seq(Pieces(started')))
    BY <1>1, MorePieces, EmptySeq
  <2>2. unwritten' \in [Processes -> Seq(Pieces(started'))]
    BY <1>1, <1>3, <2>1 DEF TypeOK
  <2>3. views' \in [Processes -> Seq(Seq(Pieces(started')))]
    BY <1>1, <2>1 DEF TypeOK
  <2>4. taken' \in [Processes -> Seq(Pieces(started'))] /\ sure' \in [Processes -> Seq(Seq(Pieces(started')))]
    BY <1>1, <2>1 DEF TypeOK
  <2>5. \A q \in Processes : /\ pc'[q] \in {"writing", "sought"} <=> unwritten'[q] # <<>>
                             /\ Len(taken'[q]) <= Len(file)
                             /\ pc'[q] # "loading" => taken'[q] = <<>>
    BY <1>1, <1>3 DEF TypeOK
  <2> QED  BY <1>1, <2>1, <2>2, <2>3, <2>4, <2>5 DEF TypeOK
<1>5. \A q \in Processes \ {p} : Busy(q)' = Busy(q) /\ unwritten'[q] = unwritten[q]
  BY <1>1 DEF Busy, TypeOK
<1>6. WriterOK(p, r, 0)'
  <2>1. unwritten'[p] = Rest(r, 0)
    BY <1>1, <1>2 DEF TypeOK
  <2>2. r \notin written /\ \A i \in DOMAIN file : file[i][1] # r
    BY <1>1, FileFacts DEF TypeOK
  <2> QED  BY <1>1, <1>2, <2>1, <2>2 DEF WriterOK
<1>7. WritersOK'
  <2>1. ASSUME NEW q \in Processes \ {p}, Busy(q)
        PROVE  Writes(q)' = Writes(q) /\ Writes(q) \in started
               /\ \E s \in started, m \in 0..3 : WriterOK(q, s, m)'
    <3>1. PICK s \in started, m \in 0..3 : WriterOK(q, s, m)
      BY <2>1 DEF WritersOK
    <3>2. Writes(q) = s
      BY <3>1, WriterFacts
    <3>3. WriterOK(q, s, m)'
      BY <1>1, <1>5, <3>1 DEF WriterOK
    <3> QED  BY <1>5, <3>2, <3>3 DEF Writes
  <2>2. Writes(p)' = r
    BY <1>1, <1>3 DEF Writes, TypeOK
  <2> QED  BY <1>1, <1>5, <1>6, <2>1, <2>2 DEF WritersOK
<1>8. MixedOK'
  <2>1. \A q \in Processes : views'[q] = views[q] \/ views'[q] = <<>>
    BY <1>1 DEF TypeOK
  <2> QED  BY <1>1, <2>1, MixedStays
<1>9. \A q \in Processes : /\ Between(taken'[q], q) /\ (atomic => taken'[q] = <<>>)
                           /\ pc'[q] = "sought" => ~atomic /\ pc[q] = "sought" /\ at'[q] = at[q]
  BY <1>1 DEF Between, AppendsOK, TypeOK
<1>10. ASSUME NEW q \in Processes
       PROVE  /\ pc'[q] = "loading" => pc[q] = "loading" /\ sure'[q] = sure[q]
              /\ pc'[q] # "loading" => sure'[q] = <<>>
              /\ pc'[q] # "idle" => views'[q] = <<>>
  <2>1. q # p => pc'[q] = pc[q] /\ views'[q] = views[q]
    BY <1>1 DEF TypeOK
  <2>2. pc'[p] = "writing" /\ views'[p] = <<>>
    BY <1>1 DEF TypeOK
  <2> QED  BY <1>1, <2>1, <2>2 DEF ReaderOK
<1> QED  BY <1>1, <1>4, <1>7, <1>8, <1>9, <1>10, QuietInv
----
(* Writing. *)

LEMMA PutFacts ==
    ASSUME NEW S, file \in Seq(S), NEW pieces \in Seq(S), NEW place \in 0 .. Len(file)
    PROVE  /\ Put(pieces, place) \in Seq(S)
           /\ Len(Put(pieces, place)) = (IF place + Len(pieces) <= Len(file) THEN Len(file)
                                         ELSE place + Len(pieces))
           /\ \A i \in 1 .. Len(Put(pieces, place)) :
                Put(pieces, place)[i] = IF i \in place + 1 .. place + Len(pieces)
                                        THEN pieces[i - place] ELSE file[i]
<1> DEFINE n == Len(pieces)
           head == SubSeq(file, 1, place)
           tail == SubSeq(file, place + n + 1, Len(file))
<1>1. Len(file) \in Nat /\ n \in Nat /\ \A i \in 1 .. Len(file) : file[i] \in S
  BY LenProperties, ElementOfSeq
<1>2. head \in Seq(S) /\ Len(head) = place /\ \A i \in 1 .. place : head[i] = file[i]
  BY <1>1, SubSeqProperties
<1>3. /\ tail \in Seq(S)
      /\ Len(tail) = IF place + n + 1 <= Len(file) THEN Len(file) - (place + n) ELSE 0
      /\ \A i \in 1 .. Len(tail) : tail[i] = file[i + (place + n)]
  <2>1. \A i \in place + n + 1 .. Len(file) : file[i] \in S
    BY <1>1
  <2>2. /\ tail \in Seq(S)
        /\ Len(tail) = IF place + n + 1 <= Len(file) THEN Len(file) - (place + n + 1) + 1 ELSE 0
        /\ \A i \in 1 .. Len(file) - (place + n + 1) + 1 : tail[i] = file[(place + n + 1) + i - 1]
    BY <1>1, <2>1, SubSeqProperties
  <2> HIDE DEF tail, n
  <2> QED  BY <1>1, <2>2
<1>4. /\ head \o pieces \in Seq(S) /\ Len(head \o pieces) = place + n
      /\ \A i \in 1 .. place + n :
           (head \o pieces)[i] = IF i <= place THEN file[i] ELSE pieces[i - place]
  <2>1. /\ head \o pieces \in Seq(S) /\ Len(head \o pieces) = Len(head) + n
        /\ \A i \in 1 .. Len(head) + n :
             (head \o pieces)[i] = IF i <= Len(head) THEN head[i] ELSE pieces[i - Len(head)]
    BY <1>2, ConcatProperties
  <2> HIDE DEF head, n
  <2> QED  BY <1>1, <1>2, <2>1
<1> DEFINE front == head \o pieces
           all == front \o tail
<1>5. /\ all \in Seq(S) /\ Len(all) = Len(front) + Len(tail)
      /\ \A i \in 1 .. Len(front) + Len(tail) :
           all[i] = IF i <= Len(front) THEN front[i] ELSE tail[i - Len(front)]
  <2>1. front \in Seq(S) /\ tail \in Seq(S)
    BY <1>3, <1>4
  <2> HIDE DEF front, tail
  <2> QED  BY <2>1, ConcatProperties
<1>6. Put(pieces, place) = all
  BY DEF Put
<1>7. Len(all) = IF place + n <= Len(file) THEN Len(file) ELSE place + n
  <2>1. Len(front) = place + n
    BY <1>4
  <2> HIDE DEF front, tail, n, head, all
  <2>2. CASE place + n + 1 <= Len(file)
    BY <1>1, <1>3, <1>5, <2>1, <2>2
  <2>3. CASE ~(place + n + 1 <= Len(file))
    <3>1. Len(tail) = 0
      BY <1>3, <2>3
    <3> QED  BY <1>1, <1>5, <2>1, <2>3, <3>1
  <2> QED  BY <2>2, <2>3
<1>8. ASSUME NEW i \in 1 .. Len(all)
      PROVE  all[i] = IF i \in place + 1 .. place + n THEN pieces[i - place] ELSE file[i]
  <2>a. Len(front) = place + n /\ Len(tail) \in Nat
    BY <1>3, <1>4, LenProperties
  <2> HIDE DEF all, front, tail, n, head
  <2>1. i <= place + n => all[i] = front[i] /\ i \in 1 .. place + n
    BY <1>1, <1>5, <2>a
  <2>2. i > place + n => all[i] = tail[i - (place + n)] /\ i - (place + n) \in 1 .. Len(tail)
    BY <1>1, <1>5, <2>a
  <2>3. CASE i > place + n
    <3>1. tail[i - (place + n)] = file[(i - (place + n)) + (place + n)]
      BY <1>3, <2>2, <2>3
    <3>2. (i - (place + n)) + (place + n) = i
      BY <1>1
    <3>3. i \notin place + 1 .. place + n
      BY <1>1, <2>3
    <3> QED  BY <2>2, <2>3, <3>1, <3>2, <3>3
  <2>4. CASE i <= place + n
    <3>1. all[i] = IF i <= place THEN file[i] ELSE pieces[i - place]
      BY <1>4, <2>1, <2>4 DEF front
    <3>2. i <= place <=> i \notin place + 1 .. place + n
      BY <1>1, <2>1, <2>4
    <3> QED  BY <3>1, <3>2
  <2> QED  BY <1>1, <2>3, <2>4
<1> HIDE DEF all
<1> QED  BY <1>5, <1>6, <1>7, <1>8

(* n pieces of r, after the first m, have come to the file after its first   *)
(* place pieces.                                                             *)
Lands(r, m, n, place) ==
    /\ place \in 0 .. Len(file) /\ n \in 1 .. Size(r) - m
    /\ file' \in Seq(Pieces(started))
    /\ Len(file') = IF place + n <= Len(file) THEN Len(file) ELSE place + n
    /\ \A i \in 1 .. Len(file') :
         file'[i] = IF i \in place + 1 .. place + n THEN <<r, m + (i - place)>> ELSE file[i]

LEMMA RestLands ==
    ASSUME MemoryInv, NEW p \in Processes, WriteRest(p)
    PROVE  \E r \in started, m \in 0..3 :
             /\ WriterOK(p, r, m) /\ Writes(p) = r /\ Lands(r, m, Size(r) - m, Place(p))
             /\ written' = written \cup {r} /\ cuts' = cuts
             /\ met' = IF MeetsAnother(p) THEN met \cup {r} ELSE met
<1> USE DEF MemoryInv
<1>1. Busy(p)
  BY DEF WriteRest, Busy
<1>2. PICK r \in started, m \in 0..3 : WriterOK(p, r, m)
  BY <1>1 DEF WritersOK
<1>3. /\ Writes(p) = r /\ Len(unwritten[p]) = Size(r) - m
      /\ \A k \in 1 .. Size(r) - m : unwritten[p][k] = <<r, m + k>>
  BY <1>2, WriterFacts
<1>4. /\ written' = written \cup {r} /\ cuts' = cuts
      /\ met' = IF MeetsAnother(p) THEN met \cup {r} ELSE met
      /\ file' = Put(unwritten[p], Place(p))
  BY <1>3 DEF WriteRest, Writes
<1>5. Place(p) \in 0 .. Len(file)
  <2>1. Len(file) \in Nat
    BY FileFacts
  <2>2. at[p] \in 0 .. Len(file)
    BY DEF TypeOK
  <2> QED  BY <2>1, <2>2 DEF Place
<1>6. Size(r) - m \in 1 .. Size(r) - m
  BY <1>2, SizeType DEF WriterOK
<1>7. /\ file' \in Seq(Pieces(started))
      /\ Len(file') = (IF Place(p) + Len(unwritten[p]) <= Len(file) THEN Len(file)
                       ELSE Place(p) + Len(unwritten[p]))
      /\ \A i \in 1 .. Len(file') :
           file'[i] = IF i \in Place(p) + 1 .. Place(p) + Len(unwritten[p])
                      THEN unwritten[p][i - Place(p)] ELSE file[i]
  <2>a. PICK place \in Nat : place = Place(p)
    BY <1>5, FileFacts
  <2>1. PICK pieces : pieces = unwritten[p] /\ place = Place(p)
    BY <2>a
  <2>2. /\ file \in Seq(Pieces(started)) /\ pieces \in Seq(Pieces(started))
        /\ place \in 0 .. Len(file)
    BY <1>5, <2>1 DEF TypeOK
  <2>3. /\ Put(pieces, place) \in Seq(Pieces(started))
        /\ Len(Put(pieces, place)) = (IF place + Len(pieces) <= Len(file) THEN Len(file)
                                      ELSE place + Len(pieces))
        /\ \A i \in 1 .. Len(Put(pieces, place)) :
             Put(pieces, place)[i] = IF i \in place + 1 .. place + Len(pieces)
                                     THEN pieces[i - place] ELSE file[i]
    BY <2>2, PutFacts
  <2> QED  BY <1>4, <2>1, <2>3
<1>8. ASSUME NEW i \in 1 .. Len(file'), i \in Place(p) + 1 .. Place(p) + (Size(r) - m)
      PROVE  unwritten[p][i - Place(p)] = <<r, m + (i - Place(p))>>
  <2>1. i - Place(p) \in 1 .. Size(r) - m
    BY <1>5, <1>6, <1>8
  <2> QED  BY <1>3, <2>1
<1>9. Lands(r, m, Size(r) - m, Place(p))
  BY <1>3, <1>5, <1>6, <1>7, <1>8 DEF Lands
<1> QED  BY <1>2, <1>3, <1>4, <1>9

LEMMA PartLands ==
    ASSUME MemoryInv, NEW p \in Processes, WriteCutShort(p)
    PROVE  \E r \in started, m \in 0..3, n \in 1..3 :
             /\ WriterOK(p, r, m) /\ Writes(p) = r /\ Lands(r, m, n, Len(file))
             /\ m + n < Size(r)
             /\ cuts' = cuts \cup {<<r, m + n>>}
             /\ unwritten' = [unwritten EXCEPT ![p] = Rest(r, m + n)]
<1> USE DEF MemoryInv
<1>1. Busy(p)
  BY DEF WriteCutShort, Busy
<1>2. PICK r \in started, m \in 0..3 : WriterOK(p, r, m)
  BY <1>1 DEF WritersOK
<1>3. /\ Writes(p) = r /\ Len(unwritten[p]) = Size(r) - m
      /\ \A k \in 1 .. Size(r) - m : unwritten[p][k] = <<r, m + k>>
  BY <1>2, WriterFacts
<1>4. PICK n \in 1 .. Len(unwritten[p]) - 1 :
        /\ file' = file \o SubSeq(unwritten[p], 1, n)
        /\ unwritten' = [unwritten EXCEPT ![p] = SubSeq(@, n + 1, Len(@))]
        /\ cuts' = cuts \cup {unwritten[p][n]}
  BY DEF WriteCutShort
<1>5. n \in 1..3 /\ m + n < Size(r) /\ n \in 1 .. Size(r) - m /\ m + n \in 0..3
  <2>1. Size(r) \in {3, 4} /\ n \in 1 .. (Size(r) - m) - 1
    BY <1>3, SizeType
  <2> QED  BY <2>1
<1>6. file \in Seq(Pieces(started)) /\ unwritten[p] \in Seq(Pieces(started)) /\ Len(file) \in Nat
  BY FileFacts DEF TypeOK
<1> DEFINE part == SubSeq(unwritten[p], 1, n)
           rest == SubSeq(unwritten[p], n + 1, Len(unwritten[p]))
<1>7. /\ part \in Seq(Pieces(started)) /\ Len(part) = n
      /\ \A k \in 1 .. n : part[k] = unwritten[p][k]
  <2>1. \A k \in 1 .. n : unwritten[p][k] \in Pieces(started)
    BY <1>3, <1>5, <1>6, ElementOfSeq, SizeType
  <2>2. /\ part \in Seq(Pieces(started)) /\ Len(part) = IF 1 <= n THEN n - 1 + 1 ELSE 0
        /\ \A k \in 1 .. n - 1 + 1 : part[k] = unwritten[p][1 + k - 1]
    BY <1>5, <2>1, SubSeqProperties
  <2> HIDE DEF part
  <2> QED  BY <1>5, <2>2
<1>8. /\ file' \in Seq(Pieces(started)) /\ Len(file') = Len(file) + n
      /\ \A i \in 1 .. Len(file) + n :
           file'[i] = IF i <= Len(file) THEN file[i] ELSE part[i - Len(file)]
  <2> HIDE DEF part
  <2>1. /\ file \o part \in Seq(Pieces(started)) /\ Len(file \o part) = Len(file) + Len(part)
        /\ \A i \in 1 .. Len(file) + Len(part) :
             (file \o part)[i] = IF i <= Len(file) THEN file[i] ELSE part[i - Len(file)]
    BY <1>6, <1>7, ConcatProperties
  <2> QED  BY <1>4, <1>7, <2>1 DEF part
<1>9. ASSUME NEW i \in 1 .. Len(file')
      PROVE  file'[i] = IF i \in Len(file) + 1 .. Len(file) + n
                        THEN <<r, m + (i - Len(file))>> ELSE file[i]
  <2>1. CASE i <= Len(file)
    BY <1>6, <1>8, <2>1
  <2>2. CASE i > Len(file)
    <3>a. i \in 1 .. Len(file) + n /\ Size(r) \in Nat
      <4>1. i \in 1 .. Len(file) + n
        BY <1>8
      <4> QED  BY <4>1, SizeType
    <3>1. i - Len(file) \in 1 .. n /\ i - Len(file) \in 1 .. Size(r) - m
      BY <1>5, <1>6, <2>2, <3>a
    <3>2. file'[i] = part[i - Len(file)]
      <4> HIDE DEF part
      <4> QED  BY <1>6, <1>8, <2>2, <3>a
    <3>3. part[i - Len(file)] = <<r, m + (i - Len(file))>>
      BY <1>3, <1>7, <3>1
    <3>4. i \in Len(file) + 1 .. Len(file) + n
      BY <1>5, <1>6, <1>8, <2>2
    <3> QED  BY <3>2, <3>3, <3>4
  <2> QED  BY <1>6, <1>8, <2>1, <2>2
<1>10. Lands(r, m, n, Len(file))
  BY <1>5, <1>6, <1>8, <1>9 DEF Lands
<1>11. rest = Rest(r, m + n)
  <2>1. \A k \in n + 1 .. Len(unwritten[p]) : unwritten[p][k] \in Pieces(started)
    BY <1>3, <1>5, <1>6, ElementOfSeq, SizeType
  <2>2. /\ rest \in Seq(Pieces(started))
        /\ Len(rest) = IF n + 1 <= Len(unwritten[p]) THEN Len(unwritten[p]) - (n + 1) + 1 ELSE 0
        /\ \A k \in 1 .. Len(unwritten[p]) - (n + 1) + 1 : rest[k] = unwritten[p][(n + 1) + k - 1]
    BY <1>3, <1>5, <2>1, SubSeqProperties, SizeType
  <2> HIDE DEF rest
  <2>3. Len(rest) = Size(r) - (m + n)
    <3>1. PICK size \in {3, 4} : size = Size(r)
      BY SizeType
    <3>2. PICK all \in Nat : all = Len(unwritten[p]) /\ all = size - m /\ n + 1 <= all
      BY <1>3, <1>5, <3>1
    <3>3. Len(rest) = all - (n + 1) + 1
      BY <2>2, <3>2
    <3> QED  BY <3>1, <3>2, <3>3
  <2>4. ASSUME NEW k \in 1 .. Size(r) - (m + n)
        PROVE  rest[k] = <<r, (m + n) + k>>
    <3>1. rest[k] = unwritten[p][n + k] /\ n + k \in 1 .. Size(r) - m
      <4>1. (n + 1) + k - 1 = n + k /\ k \in 1 .. Len(unwritten[p]) - (n + 1) + 1
        <5>1. PICK size \in {3, 4} : size = Size(r)
          BY SizeType
        <5>2. k \in 1 .. (size - m) - (n + 1) + 1
          BY <5>1
        <5> QED  BY <1>3, <5>1, <5>2
      <4>2. n + k \in 1 .. Size(r) - m
        BY <1>5, SizeType
      <4> QED  BY <2>2, <4>1, <4>2
    <3>2. m + (n + k) = (m + n) + k
      BY <1>5
    <3> QED  BY <1>3, <3>1, <3>2
  <2>5. rest \in [1 .. Size(r) - (m + n) -> Pieces(started)]
    BY <2>2, <2>3, LenProperties
  <2> QED  BY <2>4, <2>5 DEF Rest
<1>12. unwritten' = [unwritten EXCEPT ![p] = Rest(r, m + n)] /\ cuts' = cuts \cup {<<r, m + n>>}
  BY <1>3, <1>4, <1>5, <1>11
<1> QED  BY <1>2, <1>3, <1>5, <1>10, <1>12

(* Other writers, and what they have written, stay what they were. *)
LEMMA OthersWrite ==
    ASSUME MemoryInv, NEW p \in Processes, NEW r \in started, NEW m \in 0..3, NEW n \in 1..4,
           NEW place \in Nat, Busy(p), Writes(p) = r, Lands(r, m, n, place),
           atomic' = atomic, started' = started, cuts \subseteq cuts', written' \subseteq written \cup {r},
           \A q \in Processes \ {p} : pc'[q] = pc[q] /\ unwritten'[q] = unwritten[q],
           Busy(p)' => Writes(p)' = r /\ \E l \in 0..3 : WriterOK(p, r, l)'
    PROVE  WritersOK'
<1> USE DEF MemoryInv
<1>1. ASSUME NEW i \in DOMAIN file', file'[i][1] # r
      PROVE  i \in DOMAIN file /\ file'[i] = file[i]
  <2>1. DOMAIN file' = 1 .. Len(file') /\ DOMAIN file = 1 .. Len(file) /\ Len(file) \in Nat
    BY FileFacts, LenProperties DEF Lands
  <2>2. ~(i \in place + 1 .. place + n)
    <3>1. \A k : <<r, k>>[1] = r
      OBVIOUS
    <3> QED  BY <1>1, <2>1, <3>1 DEF Lands
  <2>3. file'[i] = file[i]
    BY <2>1, <2>2 DEF Lands
  <2>4. i <= Len(file)
    BY <2>1, <2>2 DEF Lands
  <2> QED  BY <2>1, <2>3, <2>4
<1>2. ASSUME NEW q \in Processes \ {p}, Busy(q)
      PROVE  /\ Writes(q)' = Writes(q) /\ Writes(q) # r
             /\ \E s \in started, l \in 0..3 : WriterOK(q, s, l)'
  <2>1. PICK s \in started, l \in 0..3 : WriterOK(q, s, l)
    BY <1>2 DEF WritersOK
  <2>2. Writes(q) = s /\ s # r
    BY <1>2, <2>1, WriterFacts DEF WritersOK
  <2>3. WriterOK(q, s, l)'
    BY <1>1, <2>1, <2>2 DEF WriterOK
  <2> QED  BY <2>2, <2>3 DEF Writes
<1>3. \A q \in Processes \ {p} : Busy(q)' = Busy(q)
  BY DEF Busy
<1> QED  BY <1>2, <1>3 DEF WritersOK

(* What lands at the end where appending is atomic. *)
LEMMA AppendInv ==
    ASSUME MemoryInv, atomic, atomic' = atomic, NEW p \in Processes,
           NEW r \in started, NEW m \in 0..3, NEW n \in 1..4,
           WriterOK(p, r, m), Lands(r, m, n, Len(file)),
           cuts' = IF m + n < Size(r) THEN cuts \cup {<<r, m + n>>} ELSE cuts,
           written' = IF m + n < Size(r) THEN written ELSE written \cup {r},
           \A q \in Processes : pc'[q] # "sought" /\ taken'[q] = <<>>
    PROVE  AppendsOK'
<1> USE DEF MemoryInv
<1> DEFINE len == Len(file)
           Present(s, k) == \E i \in DOMAIN file : file[i] = <<s, k>>
<1>1. /\ len \in Nat /\ DOMAIN file = 1 .. len /\ DOMAIN file' = 1 .. len + n
      /\ n \in 1 .. Size(r) - m /\ Size(r) \in {3, 4} /\ Len(file') = len + n
  <2>1. len \in Nat /\ DOMAIN file = 1 .. len /\ Size(r) \in {3, 4}
    BY FileFacts, SizeType
  <2>2. Len(file') = len + n /\ n \in 1 .. Size(r) - m
    BY <2>1 DEF Lands
  <2> QED  BY <2>1, <2>2, LenProperties DEF Lands
<1>a. \A i \in 1 .. len + n :
         file'[i] = IF i \in len + 1 .. len + n THEN <<r, m + (i - len)>> ELSE file[i]
  BY <1>1 DEF Lands
<1>2. \A i \in 1 .. len : file'[i] = file[i]
  <2>1. \A i \in 1 .. len : i \in 1 .. len + n /\ i \notin len + 1 .. len + n
    BY <1>1
  <2> QED  BY <1>a, <2>1
<1>3. \A i \in len + 1 .. len + n : file'[i] = <<r, m + (i - len)>>
  <2>1. \A i \in len + 1 .. len + n : i \in 1 .. len + n
    BY <1>1
  <2> QED  BY <1>a, <2>1
<1>4. \A i \in 1 .. len + n : i \in 1 .. len \/ i \in len + 1 .. len + n
  BY <1>1
<1>5. \A i \in 1 .. len : file[i][1] = r => file[i][2] <= m
  BY <1>1 DEF WriterOK
<1>6. /\ \A i, j \in 1 .. len : i < j /\ file[i][1] = file[j][1] => file[i][2] < file[j][2]
      /\ \A i \in 1 .. len : Chained(i)
      /\ \A s \in written : \A k \in 1 .. Size(s) : Present(s, k)
      /\ \A piece \in cuts : \E i \in 1 .. len : file[i] = piece
  BY <1>1 DEF AppendsOK
<1>7. m > 0 => <<r, m>> \in cuts
  BY DEF WriterOK
<1> HIDE DEF len
<1>8. ASSUME NEW i \in 1 .. len + n, NEW j \in 1 .. len + n, i < j, file'[i][1] = file'[j][1]
      PROVE  file'[i][2] < file'[j][2]
  <2>1. CASE j \in 1 .. len
    <3>1. i \in 1 .. len
      BY <1>1, <1>8, <2>1
    <3> QED  BY <1>2, <1>6, <1>8, <2>1, <3>1
  <2>2. CASE j \in len + 1 .. len + n
    <3>1. file'[j][1] = r /\ file'[j][2] = m + (j - len) /\ m + (j - len) > m
      BY <1>1, <1>3, <2>2
    <3>2. CASE i \in 1 .. len
      <4>1. file'[i] = file[i] /\ file[i][2] \in Nat
        BY <1>1, <1>2, <3>2, FileFacts
      <4>2. file[i][2] <= m
        BY <1>5, <1>8, <3>1, <3>2, <4>1
      <4> QED  BY <1>1, <2>2, <3>1, <4>1, <4>2
    <3>3. CASE i \in len + 1 .. len + n
      <4>1. file'[i][2] = m + (i - len)
        BY <1>1, <1>3, <3>3
      <4> QED  BY <1>1, <1>8, <2>2, <3>1, <3>3, <4>1
    <3> QED  BY <1>4, <3>2, <3>3
  <2> QED  BY <1>4, <2>1, <2>2
<1>9. ASSUME NEW i \in 1 .. len + n
      PROVE  Chained(i)'
  <2>1. CASE i \in 1 .. len
    <3> DEFINE s == file[i][1]
               k == file[i][2]
    <3>1. file'[i] = file[i]
      BY <1>2, <2>1
    <3>2. /\ k > 1 => <<s, k - 1>> \in cuts \/ (i > 1 /\ file[i - 1] = <<s, k - 1>>)
          /\ k < Size(s) => <<s, k>> \in cuts \/ (i < len /\ file[i + 1] = <<s, k + 1>>)
      BY <1>6, <2>1 DEF Chained, len
    <3> HIDE DEF s, k
    <3>3. i > 1 => file'[i - 1] = file[i - 1]
      BY <1>1, <1>2, <2>1
    <3>4. i < len => file'[i + 1] = file[i + 1] /\ i < Len(file')
      BY <1>1, <1>2, <2>1
    <3>5. cuts \subseteq cuts'
      OBVIOUS
    <3>6. /\ k > 1 => <<s, k - 1>> \in cuts' \/ (i > 1 /\ file'[i - 1] = <<s, k - 1>>)
          /\ k < Size(s) => <<s, k>> \in cuts' \/ (i < Len(file') /\ file'[i + 1] = <<s, k + 1>>)
      BY <3>2, <3>3, <3>4, <3>5
    <3> QED  BY <3>1, <3>6 DEF Chained, s, k
  <2>2. CASE i \in len + 1 .. len + n
    <3> DEFINE k == m + (i - len)
    <3>1. file'[i] = <<r, k>> /\ k \in Nat
      BY <1>1, <1>3, <2>2
    <3>2. k > 1 => <<r, k - 1>> \in cuts' \/ (i > 1 /\ file'[i - 1] = <<r, k - 1>>)
      <4>1. CASE i = len + 1
        <5>1. k - 1 = m /\ (k > 1 => m > 0)
          BY <1>1, <4>1
        <5> HIDE DEF k
        <5> QED  BY <1>7, <5>1
      <4>2. CASE i # len + 1
        <5>1. i - 1 \in len + 1 .. len + n /\ m + ((i - 1) - len) = k - 1 /\ i > 1
          BY <1>1, <2>2, <4>2
        <5> QED  BY <1>3, <5>1
      <4> QED  BY <4>1, <4>2
    <3>3. k < Size(r) => <<r, k>> \in cuts' \/ (i < Len(file') /\ file'[i + 1] = <<r, k + 1>>)
      <4>1. CASE i = len + n
        <5>1. k = m + n
          BY <1>1, <4>1
        <5> QED  BY <5>1
      <4>2. CASE i # len + n
        <5>1. i + 1 \in len + 1 .. len + n /\ m + ((i + 1) - len) = k + 1 /\ i < len + n
          BY <1>1, <2>2, <4>2
        <5> QED  BY <1>1, <1>3, <5>1
      <4> QED  BY <4>1, <4>2
    <3> HIDE DEF k
    <3> QED  BY <3>1, <3>2, <3>3 DEF Chained
  <2> QED  BY <1>4, <2>1, <2>2
<1>10. ASSUME NEW s, NEW k \in Nat, Present(s, k + 1), k >= 1
       PROVE  Present(s, k)
  <2>1. PICK i \in 1 .. len : file[i] = <<s, k + 1>>
    BY <1>1, <1>10
  <2>2. file[i][1] = s /\ file[i][2] = k + 1
    BY <2>1
  <2>3. <<s, (k + 1) - 1>> \in cuts \/ (i > 1 /\ file[i - 1] = <<s, (k + 1) - 1>>)
    <3>1. k + 1 > 1
      BY <1>10
    <3>2. Chained(i)
      BY <1>6
    <3> QED  BY <2>2, <3>1, <3>2 DEF Chained
  <2>4. (k + 1) - 1 = k
    OBVIOUS
  <2>5. i > 1 => i - 1 \in 1 .. len
    BY <1>1
  <2> QED  BY <1>1, <1>6, <2>3, <2>4, <2>5
<1>11. ASSUME NEW s, NEW k \in Nat, Present(s, k)
       PROVE  \E i \in 1 .. len + n : file'[i] = <<s, k>>
  <2>1. PICK i \in 1 .. len : file[i] = <<s, k>>
    BY <1>1, <1>11
  <2>2. i \in 1 .. len + n
    BY <1>1
  <2> QED  BY <1>2, <2>1, <2>2
<1>12. ASSUME NEW k \in 1 .. m + n
       PROVE  \E i \in 1 .. len + n : file'[i] = <<r, k>>
  <2>1. CASE k > m
    <3>1. len + (k - m) \in len + 1 .. len + n /\ m + ((len + (k - m)) - len) = k
      BY <1>1, <2>1
    <3>2. len + (k - m) \in 1 .. len + n
      BY <1>1, <3>1
    <3> QED  BY <1>3, <3>1, <3>2
  <2>2. CASE k <= m
    <3>1. Present(r, m)
      BY <1>1, <1>6, <1>7, <2>2
    <3> HIDE DEF Present
    <3>2. m - 1 >= 1 => m - 1 \in Nat /\ (m - 1) + 1 = m
      OBVIOUS
    <3>3. m - 1 >= 1 => Present(r, m - 1)
      BY <1>10, <3>1, <3>2
    <3>4. m - 2 >= 1 => m - 2 \in Nat /\ (m - 2) + 1 = m - 1 /\ m - 1 >= 1
      OBVIOUS
    <3>5. m - 2 >= 1 => Present(r, m - 2)
      BY <1>10, <3>3, <3>4
    <3>6. k \in Nat /\ (k = m \/ (k = m - 1 /\ m - 1 >= 1) \/ (k = m - 2 /\ m - 2 >= 1))
      BY <2>2
    <3>7. Present(r, k)
      BY <3>1, <3>3, <3>5, <3>6
    <3> QED  BY <1>11, <3>6, <3>7
  <2> QED  BY <2>1, <2>2
<1>13. ASSUME NEW s \in written', NEW k \in 1 .. Size(s)
       PROVE  \E i \in 1 .. len + n : file'[i] = <<s, k>>
  <2>1. CASE s \in written
    <3>1. Present(s, k) /\ k \in Nat
      BY <1>6, <2>1
    <3> QED  BY <1>11, <3>1
  <2>2. CASE s \notin written
    <3>1. s = r /\ Size(r) = m + n
      BY <1>1, <2>2
    <3> QED  BY <1>12, <3>1
  <2> QED  BY <2>1, <2>2
<1>14. ASSUME NEW piece \in cuts'
       PROVE  \E i \in 1 .. len + n : file'[i] = piece
  <2>1. CASE piece \in cuts
    <3>1. PICK i \in 1 .. len : file[i] = piece
      BY <1>6, <2>1
    <3>2. i \in 1 .. len + n
      BY <1>1
    <3> QED  BY <1>2, <3>1, <3>2
  <2>2. CASE piece \notin cuts
    <3>1. piece = <<r, m + n>> /\ m + n \in 1 .. m + n
      BY <1>1, <2>2
    <3> QED  BY <1>12, <3>1
  <2> QED  BY <2>1, <2>2
<1> QED  BY <1>1, <1>8, <1>9, <1>13, <1>14 DEF AppendsOK

(* What lands where a seek has put it. *)
LEMMA SoughtInv ==
    ASSUME MemoryInv, ~atomic, atomic' = atomic, NEW p \in Processes, NEW r \in started,
           NEW n \in 1..4, n = Size(r), NEW place \in Nat, place = at[p], taken' = taken,
           pc[p] = "sought", WriterOK(p, r, 0), Lands(r, 0, n, place),
           cuts' = cuts, written' = written \cup {r},
           MeetsAnother(p) => met' = met \cup {r}, ~MeetsAnother(p) => met' = met,
           \A q \in Processes : pc'[q] = "sought" => q # p /\ pc[q] = "sought" /\ at'[q] = at[q]
    PROVE  SeeksOK'
<1> USE DEF MemoryInv
<1>0. PICK len \in Nat, long \in Nat :
        /\ len = Len(file) /\ place = at[p] /\ n = Size(r) /\ long = Len(file') /\ n \in {3, 4}
        /\ place <= len /\ long = IF place + n <= len THEN len ELSE place + n
  <2>1. Len(file) \in Nat /\ n \in {3, 4} /\ Len(file') \in Nat
    BY FileFacts, SizeType, LenProperties DEF Lands
  <2>2. place \in 0 .. Len(file)
    BY DEF TypeOK
  <2>3. Len(file') = IF place + n <= Len(file) THEN Len(file) ELSE place + n
    BY DEF Lands
  <2> QED  BY <2>1, <2>2, <2>3
<1> DEFINE new == place + 1 .. place + n
<1>1. DOMAIN file = 1 .. len /\ DOMAIN file' = 1 .. long
  BY <1>0, FileFacts, LenProperties DEF Lands
<1>2. \A i \in 1 .. long : file'[i] = IF i \in new THEN <<r, i - place>> ELSE file[i]
  <2>1. \A i \in new : 0 + (i - place) = i - place
    OBVIOUS
  <2> QED  BY <1>0, <2>1 DEF Lands
<1>a. long = IF place + n <= len THEN len ELSE place + n
  BY <1>0
<1>3. \A i \in 1 .. long : i \in new \/ (i \in 1 .. len /\ i \notin new)
  BY <1>0
<1>4. len <= long /\ \A i \in 1 .. len : i \in 1 .. long
  BY <1>0
<1>5. \A q \in Processes : pc'[q] = "sought" => q # p /\ pc[q] = "sought" /\ at'[q] = at[q]
  OBVIOUS
<1>6. /\ cuts = {}
      /\ len # 0 => Newline(file[len])
      /\ \A i \in 1 .. len : file[i][1] \in written
      /\ \A q \in Processes : /\ \A i \in DOMAIN taken[q] : taken[q][i][1] \in written
                              /\ len \in DOMAIN taken[q] => Newline(taken[q][len])
      /\ \A s \in written \ met : \E i \in 1 .. len : TextAt(s, i)
  BY <1>0, <1>1, EmptySeq DEF SeeksOK
<1>7. r \notin written /\ met \subseteq written
  BY DEF WriterOK, TypeOK
<1>8. \A k : Newline(<<r, k>>) <=> k = n
  BY <1>0 DEF Newline
<1>b. \A q \in Processes : \A i \in DOMAIN taken[q] : i \in 1 .. len
  BY <1>0, TakenFacts
<1>9. Newline(file'[long])
  <2>1. CASE place + n < len
    <3>1. long = len /\ len \in 1 .. long /\ len \notin new /\ len # 0
      BY <1>a, <2>1
    <3> QED  BY <1>2, <1>6, <3>1
  <2>2. CASE place + n >= len
    <3>1. long = place + n /\ place + n \in 1 .. long /\ place + n \in new
          /\ (place + n) - place = n
      BY <1>a, <2>2
    <3>2. file'[long] = <<r, n>>
      BY <1>2, <3>1
    <3> QED  BY <1>8, <3>2
  <2> QED  BY <1>1, <2>1, <2>2
<1>10. \A i \in 1 .. long : file'[i][1] \in written'
  <2> SUFFICES ASSUME NEW i \in 1 .. long  PROVE  file'[i][1] \in written'
    OBVIOUS
  <2>1. CASE i \in new
    <3>1. file'[i] = <<r, i - place>>
      BY <1>2, <2>1
    <3> QED  BY <3>1
  <2>2. CASE i \notin new
    <3>1. i \in 1 .. len /\ file'[i] = file[i]
      BY <1>2, <1>3, <2>2
    <3> QED  BY <1>6, <3>1
  <2> QED  BY <2>1, <2>2
<1>c. \A q \in Processes : /\ \A i \in DOMAIN taken'[q] : taken'[q][i][1] \in written'
                           /\ long \in DOMAIN taken'[q] => Newline(taken'[q][long])
  <2>1. \A q \in Processes : long \in DOMAIN taken[q] => long = len
    BY <1>4, <1>b
  <2> QED  BY <1>6, <2>1
<1>11. ASSUME NEW s \in written', s \notin met'
       PROVE  \E i \in 1 .. long : TextAt(s, i)'
  <2>1. CASE s = r
    <3>1. ~MeetsAnother(p)
      BY <1>7, <1>11, <2>1
    <3>2. place = len /\ \A q \in Processes \ {p} : pc[q] # "sought"
      BY <1>0, <3>1 DEF MeetsAnother, Place
    <3>3. \A q \in Processes : pc'[q] # "sought"
      BY <1>5, <3>2
    <3>4. long = len + n
      BY <1>a, <3>2
    <3> DEFINE start == len + 1
    <3>5. start - 1 \in 1 .. long => Newline(file'[start - 1])
      <4> SUFFICES ASSUME len # 0  PROVE  Newline(file'[len])
        OBVIOUS
      <4>1. len \in 1 .. long /\ len \notin new
        BY <3>2, <3>4
      <4>2. file'[len] = file[len]
        BY <1>2, <4>1
      <4> QED  BY <1>6, <4>2
    <3>6. start + n - 1 <= long
      BY <3>4
    <3>7. ASSUME NEW j \in start .. start + n - 1
          PROVE  file'[j] = <<r, j - start + 1>>
      <4>1. j \in new /\ j \in 1 .. long /\ j - place = j - start + 1
        BY <3>2, <3>4
      <4> QED  BY <1>2, <4>1
    <3>8. ASSUME NEW j \in 1 .. long, file'[j][1] = r
          PROVE  j \in start .. start + n - 1
      <4>1. j \in new
        BY <1>2, <1>3, <1>6, <1>7, <3>8
      <4> QED  BY <3>2, <4>1
    <3>9. start \in 1 .. long
      BY <3>4
    <3>10. ASSUME NEW q \in Processes  PROVE  Stands(taken[q], r, start)
      <4>1. \A j \in DOMAIN taken[q] : taken[q][j][1] # r
        BY <1>6, <1>7
      <4>2. \A j \in start .. start + n - 1 : j \notin DOMAIN taken[q]
        BY <1>b
      <4>3. start - 1 = len
        OBVIOUS
      <4> HIDE DEF start
      <4> QED  BY <1>0, <1>6, <4>1, <4>2, <4>3 DEF Stands
    <3> HIDE DEF start
    <3>11. Stands(file', r, start)
      BY <1>0, <1>1, <3>5, <3>7, <3>8 DEF Stands
    <3>12. TextAt(r, start)'
      <4>1. \A q \in Processes : Stands(taken[q], r, start)'
        BY <3>10 DEF Stands, Newline, Size
      <4>2. Stands(file, r, start)'
        BY <3>11 DEF Stands, Newline, Size
      <4> QED  BY <1>0, <3>3, <3>6, <4>1, <4>2 DEF TextAt, Size
    <3> QED  BY <2>1, <3>9, <3>12
  <2>2. CASE s # r
    <3>1. s \in written \ met
      BY <1>11, <2>2
    <3>2. PICK i \in 1 .. len : TextAt(s, i)
      BY <1>6, <3>1
    <3>a. PICK size \in {3, 4} : size = Size(s)
      BY SizeType
    <3>3. /\ i + size - 1 <= len
          /\ \A j \in 1 .. len : file[j][1] = s => j \in i .. i + size - 1
          /\ \A j \in i .. i + size - 1 : j \in 1 .. len => file[j] = <<s, j - i + 1>>
          /\ i - 1 \in 1 .. len => Newline(file[i - 1])
          /\ \A q \in Processes : Stands(taken[q], s, i) /\ (pc[q] = "sought" => at[q] >= i + size - 1)
      BY <1>0, <1>1, <3>2, <3>a DEF TextAt, Stands
    <3>4. place >= i + size - 1
      BY <1>0, <3>3
    <3>5. \A j \in 1 .. i + size - 1 : j \in 1 .. len /\ j \notin new
      BY <3>3, <3>4
    <3>6. \A j \in 1 .. i + size - 1 : file'[j] = file[j]
      BY <1>2, <1>4, <3>5
    <3>7. i - 1 \in 1 .. long => Newline(file'[i - 1])
      <4>1. i - 1 \in 1 .. long => i - 1 \in 1 .. len /\ i - 1 \in 1 .. i + size - 1
        BY <3>4
      <4> QED  BY <3>3, <3>6, <4>1
    <3>8. ASSUME NEW j \in i .. i + size - 1
          PROVE  file'[j] = <<s, j - i + 1>>
      <4>1. j \in 1 .. i + size - 1
        OBVIOUS
      <4> QED  BY <3>3, <3>5, <3>6, <4>1
    <3>9. ASSUME NEW j \in 1 .. long, file'[j][1] = s
          PROVE  j \in i .. i + size - 1
      <4>1. \A k : <<r, k>>[1] = r
        OBVIOUS
      <4>2. j \notin new
        BY <1>2, <2>2, <3>9, <4>1
      <4>3. j \in 1 .. len /\ file'[j] = file[j]
        BY <1>2, <1>3, <4>2
      <4> QED  BY <3>3, <3>9, <4>3
    <3>10. i + size - 1 <= long /\ i \in 1 .. long
      BY <1>4, <3>3, <3>4
    <3>11. Stands(file', s, i)
      BY <1>1, <3>a, <3>7, <3>8, <3>9 DEF Stands
    <3>12. TextAt(s, i)'
      <4>1. \A q \in Processes : Stands(taken[q], s, i)'
        BY <3>3 DEF Stands, Newline, Size
      <4>2. Stands(file, s, i)'
        BY <3>11 DEF Stands, Newline, Size
      <4>3. \A q \in Processes : pc'[q] = "sought" => at'[q] >= i + size - 1
        BY <1>5, <3>3
      <4> QED  BY <1>0, <3>a, <3>10, <4>1, <4>2, <4>3 DEF TextAt, Size
    <3> QED  BY <3>10, <3>12
  <2> QED  BY <2>1, <2>2
<1> QED  BY <1>0, <1>1, <1>6, <1>9, <1>10, <1>c, <1>11 DEF SeeksOK

(* A write leaves alone what was out of its reach. *)
LEMMA OutOfReach ==
    ASSUME MemoryInv, NEW r, NEW m \in 0..3, NEW n \in 1..4, NEW place, Lands(r, m, n, place),
           \A l \in 0 .. Len(file) : Beyond(l) => l <= place,
           \A q \in Processes : pc'[q] = "sought" => pc[q] = "sought" /\ at'[q] = at[q]
    PROVE  /\ Len(file) \in Nat /\ Len(file') \in Nat /\ Len(file) <= Len(file')
           /\ \A l \in 0 .. Len(file) : Beyond(l) => Beyond(l)' /\ \A k \in 1 .. l : file'[k] = file[k]
<1>1. PICK len \in Nat, long \in Nat :
        /\ len = Len(file) /\ long = Len(file') /\ place \in 0 .. len
        /\ long = IF place + n <= len THEN len ELSE place + n
  BY FileFacts, LenProperties DEF Lands
<1>2. len <= long
  BY <1>1
<1>3. ASSUME NEW l \in 0 .. len, l <= place, NEW k \in 1 .. l  PROVE  file'[k] = file[k]
  <2>1. k \in 1 .. long /\ k \notin place + 1 .. place + n
    BY <1>1, <1>2, <1>3
  <2> QED  BY <1>1, <2>1 DEF Lands
<1>4. \A l \in 0 .. len : Beyond(l) => Beyond(l)'
  BY DEF Beyond
<1> QED  BY <1>1, <1>2, <1>3, <1>4

LEMMA WriteRestInv ==
    ASSUME MemoryInv, NEW p \in Processes, WriteRest(p)
    PROVE  MemoryInv'
<1> USE DEF MemoryInv
<1>1. PICK r \in started, m \in 0..3 :
        /\ WriterOK(p, r, m) /\ Writes(p) = r /\ Lands(r, m, Size(r) - m, Place(p))
        /\ written' = written \cup {r} /\ cuts' = cuts
        /\ met' = IF MeetsAnother(p) THEN met \cup {r} ELSE met
  BY RestLands
<1>2. /\ UNCHANGED <<atomic, views, started, taken, sure>>
      /\ pc[p] = IF atomic THEN "writing" ELSE "sought"
      /\ pc' = [pc EXCEPT ![p] = "written"] /\ unwritten' = [unwritten EXCEPT ![p] = <<>>]
      /\ at' = [at EXCEPT ![p] = 0]
  BY DEF WriteRest, Goto, read_vars
<1>3. PICK n \in 1..4 : /\ n = Size(r) - m /\ Lands(r, m, n, Place(p)) /\ m + n = Size(r)
                        /\ Place(p) \in Nat
  <2>1. Size(r) - m \in 1..4 /\ m + (Size(r) - m) = Size(r) /\ Place(p) \in Nat
    BY <1>1, FileFacts, SizeType DEF Lands
  <2> QED  BY <1>1, <2>1
<1>4. \A q \in Processes : pc'[q] = "sought" => q # p /\ pc[q] = "sought" /\ at'[q] = at[q]
  BY <1>2 DEF TypeOK
<1>5. \A l \in 0 .. Len(file) : Beyond(l) => l <= Place(p)
  <2>1. Len(file) \in Nat /\ at[p] \in Nat
    BY FileFacts DEF TypeOK
  <2> QED  BY <1>2, <2>1 DEF Beyond, Place
<1>6. /\ Len(file) \in Nat /\ Len(file') \in Nat /\ Len(file) <= Len(file')
      /\ \A l \in 0 .. Len(file) : Beyond(l) => Beyond(l)' /\ \A k \in 1 .. l : file'[k] = file[k]
  BY <1>3, <1>4, <1>5, OutOfReach
<1>7. TypeOK'
  <2>1. \A q \in Processes : at'[q] \in 0 .. Len(file')
    <3>1. \A q \in Processes : at[q] \in 0 .. Len(file)
      BY DEF TypeOK
    <3>2. \A q \in Processes : at'[q] = IF q = p THEN 0 ELSE at[q]
      BY <1>2 DEF TypeOK
    <3> QED  BY <1>6, <3>1, <3>2
  <2>2. \A q \in Processes : /\ pc'[q] \in {"writing", "sought"} <=> unwritten'[q] # <<>>
                             /\ pc'[q] # "loading" => taken[q] = <<>>
    BY <1>2 DEF TypeOK
  <2>3. \A q \in Processes : Len(taken'[q]) <= Len(file')
    BY <1>2, <1>6, TakenFacts
  <2>4. file' \in Seq(Pieces(started))
    BY <1>3 DEF Lands
  <2>5. at' \in [Processes -> 0 .. Len(file')]
    BY <1>2, <2>1 DEF TypeOK
  <2>6. unwritten' \in [Processes -> Seq(Pieces(started))]
    BY <1>2, EmptySeq DEF TypeOK
  <2>7. met' \subseteq written' /\ written' \subseteq started
    BY <1>1 DEF TypeOK
  <2> QED  BY <1>1, <1>2, <2>2, <2>3, <2>4, <2>5, <2>6, <2>7 DEF TypeOK
<1>8. Busy(p) /\ ~Busy(p)' /\ \A q \in Processes \ {p} : pc'[q] = pc[q] /\ unwritten'[q] = unwritten[q]
  BY <1>2 DEF Busy, TypeOK
<1>9. WritersOK'
  BY <1>1, <1>2, <1>3, <1>8, OthersWrite
<1>10. AppendsOK'
  <2>1. CASE atomic
    <3>1. Place(p) = Len(file) /\ \A q \in Processes : pc'[q] # "sought" /\ taken'[q] = <<>>
      BY <1>2, <1>4, <2>1 DEF Place, AppendsOK
    <3>2. ~(m + n < Size(r))
      BY <1>3, SizeType
    <3>3. Lands(r, m, n, Len(file))
      BY <1>3, <3>1
    <3> QED  BY <1>1, <1>2, <2>1, <3>1, <3>2, <3>3, AppendInv
  <2> QED  BY <1>2, <2>1 DEF AppendsOK
<1>11. SeeksOK'
  <2>1. CASE ~atomic
    <3>1. m = 0 /\ n = Size(r) /\ Place(p) = at[p]
      BY <1>1, <1>3, <2>1, SizeType DEF WriterOK, Place
    <3>2. WriterOK(p, r, 0) /\ Lands(r, 0, n, Place(p))
      BY <1>1, <1>3, <3>1
    <3>3. (MeetsAnother(p) => met' = met \cup {r}) /\ (~MeetsAnother(p) => met' = met)
      BY <1>1, Zenon
    <3>4. taken' = taken /\ atomic' = atomic /\ pc[p] = "sought"
      BY <1>2, <2>1
    <3>5. Place(p) \in Nat
      BY <1>3
    <3> QED  BY <1>1, <1>4, <2>1, <3>1, <3>2, <3>3, <3>4, <3>5, SoughtInv, Zenon
  <2> QED  BY <1>2, <2>1 DEF SeeksOK
<1>12. MixedOK'
  <2>1. met \subseteq met'
    BY <1>1
  <2> QED  BY <1>2, <2>1, MixedStays
<1>13. ASSUME NEW q \in Processes  PROVE  ReaderOK(q)'
  <2>1. (pc'[q] = "loading" <=> pc[q] = "loading") /\ (pc'[q] # "idle" => pc[q] # "idle")
    BY <1>2 DEF TypeOK
  <2>2. Between(taken'[q], q)
    BY <1>2 DEF Between
  <2> QED  BY <1>2, <1>6, <1>7, <2>1, <2>2, ReaderStays DEF ReaderOK
<1>14. IsFiniteSet(cuts')
  BY <1>1
<1> QED  BY <1>7, <1>9, <1>10, <1>11, <1>12, <1>13, <1>14

LEMMA CutInv ==
    ASSUME MemoryInv, NEW p \in Processes, WriteCutShort(p)
    PROVE  MemoryInv'
<1> USE DEF MemoryInv
<1>1. PICK r \in started, m \in 0..3, n \in 1..3 :
        /\ WriterOK(p, r, m) /\ Writes(p) = r /\ Lands(r, m, n, Len(file))
        /\ m + n < Size(r)
        /\ cuts' = cuts \cup {<<r, m + n>>}
        /\ unwritten' = [unwritten EXCEPT ![p] = Rest(r, m + n)]
  BY PartLands
<1>2. /\ UNCHANGED <<atomic, pc, at, started, written, met, taken, views, sure>>
      /\ atomic /\ pc[p] = "writing"
  BY DEF WriteCutShort, read_vars
<1>3. /\ m + n \in 1..3 /\ Size(r) \in {3, 4} /\ Rest(r, m + n) \in Seq(Pieces(started))
      /\ Rest(r, m + n) # <<>> /\ n \in 1..4
  <2>1. Size(r) \in {3, 4} /\ m + n \in 1..3 /\ n \in 1..4
    BY <1>1, SizeType
  <2>2. Rest(r, m + n) \in Seq(Pieces({r})) /\ Rest(r, m + n) # <<>>
    BY <1>1, <2>1, RestFacts
  <2> QED  BY <2>1, <2>2, MorePieces
<1>4. <<r, m + n>> \in Pieces(started)
  BY <1>1, <1>3 DEF Pieces
<1>5. /\ Len(file) \in Nat /\ Len(file') \in Nat /\ Len(file) <= Len(file')
      /\ \A l \in 0 .. Len(file) : Beyond(l) => Beyond(l)' /\ \A k \in 1 .. l : file'[k] = file[k]
  <2>1. \A l \in 0 .. Len(file) : l <= Len(file)
    BY FileFacts
  <2> QED  BY <1>1, <1>2, <1>3, <2>1, OutOfReach
<1>6. IsFiniteSet(cuts')
  BY <1>1, FS_AddElement
<1>7. TypeOK'
  <2>1. \A q \in Processes : at'[q] \in 0 .. Len(file')
    <3>1. \A q \in Processes : at[q] \in 0 .. Len(file)
      BY DEF TypeOK
    <3> QED  BY <1>2, <1>5, <3>1
  <2>2. unwritten' \in [Processes -> Seq(Pieces(started))]
    BY <1>1, <1>3 DEF TypeOK
  <2>3. \A q \in Processes : pc'[q] \in {"writing", "sought"} <=> unwritten'[q] # <<>>
    BY <1>1, <1>2, <1>3 DEF TypeOK
  <2>4. \A q \in Processes : Len(taken'[q]) <= Len(file')
    BY <1>2, <1>5, TakenFacts
  <2>5. file' \in Seq(Pieces(started)) /\ cuts' \subseteq Pieces(started)
    BY <1>1, <1>4 DEF Lands, TypeOK
  <2>6. at' \in [Processes -> 0 .. Len(file')]
    BY <1>2, <2>1 DEF TypeOK
  <2> QED  BY <1>2, <2>2, <2>3, <2>4, <2>5, <2>6 DEF TypeOK
<1>8. WriterOK(p, r, m + n)' /\ Writes(p)' = r
  <2>1. unwritten'[p] = Rest(r, m + n)
    BY <1>1 DEF TypeOK
  <2>a. /\ DOMAIN file' = 1 .. Len(file') /\ Len(file') = Len(file) + n
        /\ \A i \in DOMAIN file' : file'[i] \in Pieces(started)
    <3>1. Len(file') = Len(file) + n
      BY <1>1, <1>5 DEF Lands
    <3> QED  BY <1>1, <3>1, PieceFacts DEF Lands
  <2>2. ASSUME NEW i \in DOMAIN file', file'[i][1] = r
        PROVE  file'[i][2] <= m + n
    <3>1. CASE i \in Len(file) + 1 .. Len(file) + n
      <4>1. file'[i] = <<r, m + (i - Len(file))>>
        BY <1>1, <2>a, <3>1 DEF Lands
      <4>2. i - Len(file) <= n
        BY <1>5, <3>1
      <4> QED  BY <1>5, <3>1, <4>1, <4>2
    <3>2. CASE i \notin Len(file) + 1 .. Len(file) + n
      <4>1. file'[i] = file[i]
        BY <1>1, <2>a, <3>2 DEF Lands
      <4>2. i \in DOMAIN file
        BY <1>5, <2>a, <3>2, FileFacts
      <4>3. file[i][2] <= m /\ file[i][2] \in Nat
        BY <1>1, <2>2, <4>1, <4>2, FileFacts DEF WriterOK
      <4> QED  BY <4>1, <4>3
    <3> QED  BY <3>1, <3>2
  <2>3. WriterOK(p, r, m + n)'
    BY <1>1, <1>2, <2>1, <2>2 DEF WriterOK
  <2>4. m + n \in 0..3
    BY <1>3
  <2>5. Rest(r, m + n)[1] = <<r, (m + n) + 1>>
    BY <1>1, <2>4, RestFacts
  <2>6. <<r, (m + n) + 1>>[1] = r
    OBVIOUS
  <2> QED  BY <2>1, <2>3, <2>5, <2>6 DEF Writes
<1>9. WritersOK'
  <2>1. Busy(p) /\ \A q \in Processes \ {p} : pc'[q] = pc[q] /\ unwritten'[q] = unwritten[q]
    BY <1>1, <1>2 DEF Busy, TypeOK
  <2>2. n \in 1..4 /\ Len(file) \in Nat /\ m + n \in 0..3
    BY <1>3, <1>5
  <2>3. Busy(p)' => Writes(p)' = r /\ \E l \in 0..3 : WriterOK(p, r, l)'
    BY <1>8, <2>2
  <2> QED  BY <1>1, <1>2, <2>1, <2>2, <2>3, OthersWrite
<1>10. AppendsOK'
  <2>1. \A q \in Processes : pc'[q] # "sought" /\ taken'[q] = <<>>
    BY <1>2 DEF AppendsOK
  <2> QED  BY <1>1, <1>2, <1>3, <2>1, AppendInv
<1>11. SeeksOK'
  BY <1>2 DEF SeeksOK
<1>12. MixedOK'
  BY <1>2, MixedStays
<1>13. ASSUME NEW q \in Processes  PROVE  ReaderOK(q)'
  <2>1. Between(taken'[q], q)
    BY <1>2 DEF Between
  <2> QED  BY <1>2, <1>5, <1>7, <2>1, ReaderStays DEF ReaderOK
<1> QED  BY <1>6, <1>7, <1>9, <1>10, <1>11, <1>12, <1>13

LEMMA MemoryInvariant == Spec => []MemoryInv
<1>1. MemoryInv /\ [Next]_vars => MemoryInv'
  <2> SUFFICES ASSUME MemoryInv, [Next]_vars PROVE MemoryInv'
    OBVIOUS
  <2>1. CASE UNCHANGED vars
    <3> USE DEF MemoryInv
    <3>1. UNCHANGED <<atomic, file, pc, unwritten, at, taken, views, started, written, cuts, met, sure>>
      BY <2>1 DEF vars, file_vars, write_vars, read_vars
    <3>2. TypeOK'
      BY <3>1 DEF TypeOK
    <3>3. WritersOK' /\ MixedOK'
      BY <3>1, WritersStay, MixedStays DEF Busy
    <3>4. \A q \in Processes : /\ Between(taken'[q], q) /\ (atomic => taken'[q] = <<>>)
                               /\ pc'[q] = "sought" => ~atomic /\ pc[q] = "sought" /\ at'[q] = at[q]
      BY <3>1 DEF Between, AppendsOK
    <3>5. \A q \in Processes : /\ pc'[q] = "loading" => pc[q] = "loading" /\ sure'[q] = sure[q]
                               /\ pc'[q] # "loading" => sure'[q] = <<>>
                               /\ pc'[q] # "idle" => views'[q] = <<>>
      BY <3>1 DEF ReaderOK
    <3> QED  BY <3>1, <3>2, <3>3, <3>4, <3>5, QuietInv
  <2>2. CASE Next
    BY <2>2, LoadInv, ReadOnInv, EndLoadInv, OpenInv, SeekInv, WriteRestInv, CutInv, AbandonInv DEF Next
  <2> QED  BY <2>1, <2>2
<1> QED  BY <1>1, InitInv, PTL DEF Spec

(* Type correctness: whatever is written over or cut short, the file, what   *)
(* is read of it and every list returned are made of pieces of what was      *)
(* given to remember, and a process that is not writing has nothing left to  *)
(* write.                                                                    *)
THEOREM MemoryTypeCorrect == Spec => []TypeOK
BY MemoryInvariant, PTL DEF MemoryInv

----
(* What is lost, and what is mixed. *)

LEMMA OnePlace ==
    ASSUME MemoryInv, atomic, NEW i \in DOMAIN file, NEW j \in DOMAIN file,
           file[i][1] = file[j][1], file[i][2] <= file[j][2]
    PROVE  i <= j /\ (file[i] = file[j] => i = j)
<1>1. i \in Nat /\ j \in Nat /\ file[i][2] \in Nat /\ file[j][2] \in Nat
  BY FileFacts
<1>2. (i < j => file[i][2] < file[j][2]) /\ (j < i => file[j][2] < file[i][2])
  BY DEF MemoryInv, AppendsOK
<1> QED  BY <1>1, <1>2

(* A record that no write of was cut short is a line, unless it follows a    *)
(* piece after which one was.                                                *)
LEMMA UncutLine ==
    ASSUME MemoryInv, atomic, NEW r \in written,
           \A piece \in cuts : piece[1] # r
    PROVE  \E i \in DOMAIN file :
             /\ file[i] = <<r, 1>>
             /\ \/ i \in RecordLines(file) /\ LineText(file, i) = Body(r)
                \/ i > 1 /\ file[i - 1] \in cuts
<1> USE DEF MemoryInv
<1>1. /\ \A i \in DOMAIN file : Chained(i)
      /\ \A k \in 1 .. Size(r) : \E i \in DOMAIN file : file[i] = <<r, k>>
  BY DEF AppendsOK
<1>2. PICK len \in Nat : len = Len(file) /\ DOMAIN file = 1 .. len
  BY FileFacts
<1>3. PICK size \in {3, 4} : size = Size(r)
  BY SizeType
<1>4. PICK i \in 1 .. len : file[i] = <<r, 1>>
  <2>1. 1 \in 1 .. Size(r)
    BY SizeType
  <2> QED  BY <1>1, <1>2, <2>1
<1>5. ASSUME NEW j \in 1 .. len, NEW k \in 1 .. 4, k < size, file[j] = <<r, k>>
      PROVE  j + 1 \in 1 .. len /\ file[j + 1] = <<r, k + 1>>
  <2>1. file[j][1] = r /\ file[j][2] = k
    BY <1>5
  <2>2. <<r, k>> \notin cuts
    <3>1. <<r, k>>[1] = r
      OBVIOUS
    <3> QED  BY <3>1
  <2>3. k < Size(r)
    BY <1>3, <1>5
  <2>4. Chained(j)
    BY <1>1, <1>2
  <2>5. j < Len(file) /\ file[j + 1] = <<r, k + 1>>
    BY <2>1, <2>2, <2>3, <2>4 DEF Chained
  <2> QED  BY <1>2, <2>5
<1>6. \A k \in 1 .. size : i + k - 1 \in 1 .. len /\ file[i + k - 1] = <<r, k>>
  <2>1. i + 1 \in 1 .. len /\ file[i + 1] = <<r, 2>>
    BY <1>3, <1>4, <1>5
  <2>2. i + 2 \in 1 .. len /\ file[i + 2] = <<r, 3>>
    <3>1. (i + 1) + 1 = i + 2
      OBVIOUS
    <3> QED  BY <1>3, <1>5, <2>1, <3>1
  <2>3. size = 4 => i + 3 \in 1 .. len /\ file[i + 3] = <<r, 4>>
    <3>1. (i + 2) + 1 = i + 3
      OBVIOUS
    <3> QED  BY <1>3, <1>5, <2>2, <3>1
  <2> QED  BY <1>3, <1>4, <2>1, <2>2, <2>3
<1>7. CASE StartsLine(file, i)
  <2>1. ASSUME NEW j \in 1 .. len, file[j][1] = r  PROVE  j \in i .. i + size - 1
    <3>1. PICK k \in 1 .. size : file[j] = <<r, k>>
      <4>1. file[j] = <<file[j][1], file[j][2]>> /\ file[j][2] \in 1 .. Size(file[j][1])
        BY <1>2, FileFacts
      <4> QED  BY <1>3, <2>1, <4>1
    <3>2. i + k - 1 \in 1 .. len /\ file[i + k - 1] = file[j]
      BY <1>6, <3>1
    <3>3. j = i + k - 1
      <4>1. file[j][2] \in Nat
        BY <1>2, FileFacts
      <4> QED  BY <1>2, <3>2, <4>1, OnePlace
    <3> QED  BY <1>3, <3>3
  <2>2. ASSUME NEW j \in i .. i + size - 1  PROVE  file[j] = <<r, j - i + 1>>
    <3>1. j - i + 1 \in 1 .. size /\ i + (j - i + 1) - 1 = j
      BY <1>3
    <3> QED  BY <1>6, <3>1
  <2>3. i - 1 \in 1 .. len => Newline(file[i - 1])
    BY <1>7 DEF StartsLine
  <2>4. Stands(file, r, i)
    BY <1>2, <1>3, <2>1, <2>2, <2>3 DEF Stands
  <2>5. i + Size(r) - 1 <= Len(file)
    <3>1. i + size - 1 \in 1 .. len
      BY <1>3, <1>6
    <3> QED  BY <1>2, <1>3, <3>1
  <2>6. r \in Records
    BY DEF TypeOK
  <2> QED  BY <1>2, <1>4, <2>4, <2>5, <2>6, TextIsLine
<1>8. CASE ~StartsLine(file, i)
  <2>1. i # 1 /\ i - 1 \in 1 .. len /\ ~Newline(file[i - 1]) /\ (i - 1) + 1 = i
    BY <1>2, <1>8 DEF StartsLine
  <2> DEFINE piece == file[i - 1]
  <2>2. piece = <<piece[1], piece[2]>> /\ piece[2] \in 1 .. Size(piece[1])
    BY <1>2, <2>1, FileFacts
  <2>3. piece[2] < Size(piece[1]) /\ piece[2] + 1 # 1
    BY <2>1, <2>2, SizeType DEF Newline
  <2>4. Chained(i - 1)
    BY <1>1, <1>2, <2>1
  <2>5. file[i] # <<piece[1], piece[2] + 1>>
    BY <1>4, <2>3
  <2>6. <<piece[1], piece[2]>> \in cuts
    BY <2>1, <2>3, <2>4, <2>5 DEF Chained
  <2> QED  BY <1>2, <1>4, <2>1, <2>2, <2>6
<1> QED  BY <1>7, <1>8

(* Each cut loses the record it was made in and the one that follows it. *)
LEMMA LossCounted ==
    ASSUME MemoryInv, atomic
    PROVE  Cardinality(Lost) <= 2 * Cardinality(cuts)
<1> USE DEF MemoryInv
<1> DEFINE own == [piece \in cuts |-> piece[1]]
           next == [piece \in cuts |-> file[(CHOOSE i \in DOMAIN file : file[i] = piece) + 1][1]]
           A == {own[piece] : piece \in cuts}
           B == {next[piece] : piece \in cuts}
<1>1. IsFiniteSet(cuts) /\ Cardinality(cuts) \in Nat
  BY FS_CardinalityType
<1>2. own \in Surjection(cuts, A) /\ next \in Surjection(cuts, B)
  BY DEF Surjection
<1>3. Lost \subseteq A \cup B
  <2> SUFFICES ASSUME NEW r \in Lost, r \notin A  PROVE  r \in B
    OBVIOUS
  <2>a. file \in Seq(Pieces(started))
    BY DEF TypeOK
  <2>1. r \in written /\ \A i \in RecordLines(file) : LineText(file, i) # Body(r)
    BY <2>a, LoadFacts DEF Lost
  <2>2. \A piece \in cuts : piece[1] # r
    OBVIOUS
  <2>3. PICK i \in DOMAIN file : file[i] = <<r, 1>> /\ i > 1 /\ file[i - 1] \in cuts
    BY <2>1, <2>2, UncutLine
  <2>4. file[i][1] = r
    BY <2>3
  <2>6. i - 1 \in DOMAIN file /\ (i - 1) + 1 = i
    BY <2>3, FileFacts
  <2>7. \A j \in DOMAIN file : file[j] = file[i - 1] => j = i - 1
    <3>1. file[i - 1][2] \in Nat
      BY <2>6, FileFacts
    <3> QED  BY <2>6, <3>1, OnePlace
  <2>8. (CHOOSE j \in DOMAIN file : file[j] = file[i - 1]) = i - 1
    BY <2>6, <2>7
  <2>9. next[file[i - 1]] = r
    BY <2>3, <2>4, <2>6, <2>8
  <2> QED  BY <2>3, <2>9
<1> HIDE DEF own, next, A, B
<1>4. /\ IsFiniteSet(A) /\ Cardinality(A) <= Cardinality(cuts)
      /\ IsFiniteSet(B) /\ Cardinality(B) <= Cardinality(cuts)
  BY <1>1, <1>2, FS_Surjection
<1>5. /\ IsFiniteSet(A \cup B) /\ IsFiniteSet(A \cap B)
      /\ Cardinality(A \cup B) = Cardinality(A) + Cardinality(B) - Cardinality(A \cap B)
  BY <1>4, FS_Union, FS_Intersection
<1>6. Cardinality(Lost) <= Cardinality(A \cup B) /\ IsFiniteSet(Lost)
  BY <1>3, <1>5, FS_Subset
<1>7. /\ Cardinality(A) \in Nat /\ Cardinality(B) \in Nat /\ Cardinality(A \cap B) \in Nat
      /\ Cardinality(Lost) \in Nat /\ Cardinality(A \cup B) \in Nat
  BY <1>4, <1>5, <1>6, FS_CardinalityType
<1> QED  BY <1>1, <1>4, <1>5, <1>6, <1>7

(* Where a piece is followed by one that is not the next of its record. *)
Joint(k) ==
    /\ file[k] \in cuts
    /\ LET after == file[k + 1]
       IN /\ <<after[1], after[2] - 1>> \in cuts
          /\ <<after[1], after[2] - 1>> # file[k]

(* A line that load finds and that nobody gave is joined of two cut records. *)
LEMMA JoinedLine ==
    ASSUME MemoryInv, atomic, NEW l \in RecordLines(file),
           \A r \in started : LineText(file, l) # Body(r)
    PROVE  \E k \in l .. LineEnd(file, l) - 1 : Joint(k)
<1> USE DEF MemoryInv
<1>1. PICK len \in Nat : len = Len(file) /\ DOMAIN file = 1 .. len
  BY FileFacts
<1>2. PICK e \in Nat : /\ e = LineEnd(file, l) /\ Line(file, l, e)
                       /\ l \in Nat /\ l >= 1 /\ l <= e /\ e <= len
  BY <1>1, LineRead
<1>3. /\ file[l][2] = 1 /\ file[e][2] = Size(file[e][1]) - 1
      /\ \A k \in l .. e - 1 : EndsInside(file[k]) /\ BeginsInside(file[k + 1])
  BY <1>2 DEF Line, IsRecord
<1>4. \A k \in l .. e : k \in 1 .. len
  BY <1>1, <1>2
<1> DEFINE Next1(k) == file[k + 1] = <<file[k][1], file[k][2] + 1>>
<1>5. \E k \in l .. e - 1 : ~Next1(k)
  <2> SUFFICES ASSUME \A k \in l .. e - 1 : Next1(k)  PROVE  FALSE
    OBVIOUS
  <2>1. PICK r \in started, size \in {3, 4} : r = file[l][1] /\ size = Size(r) /\ file[l] = <<r, 1>>
    <3>1. l \in 1 .. len
      BY <1>2
    <3>2. file[l][1] \in started /\ file[l] = <<file[l][1], file[l][2]>>
      BY <1>1, <3>1, FileFacts
    <3> QED  BY <1>3, <3>2, SizeType
  <2>2. e >= l + 1 => file[l + 1] = <<r, 2>>
    <3>1. e >= l + 1 => l \in l .. e - 1
      BY <1>2
    <3>2. file[l][1] = r /\ file[l][2] + 1 = 2
      BY <1>3, <2>1
    <3>3. e >= l + 1 => file[l + 1] = <<file[l][1], file[l][2] + 1>>
      BY <3>1
    <3> QED  BY <3>2, <3>3
  <2>3. e >= l + 2 => file[l + 2] = <<r, 3>>
    <3>1. e >= l + 2 => l + 1 \in l .. e - 1 /\ (l + 1) + 1 = l + 2 /\ e >= l + 1
      BY <1>2
    <3> QED  BY <2>2, <3>1
  <2>4. e >= l + 1 => 1 < size - 1
    BY <2>1
  <2>5. e >= l + 2 => 2 < size - 1
    <3>1. e >= l + 2 => l + 1 \in l .. e - 1 /\ e >= l + 1
      BY <1>2
    <3> QED  BY <1>3, <2>1, <2>2, <3>1 DEF EndsInside
  <2>6. ~(e >= l + 3)
    <3>1. e >= l + 3 => l + 2 \in l .. e - 1 /\ e >= l + 2
      BY <1>2
    <3> QED  BY <1>3, <2>1, <2>3, <3>1 DEF EndsInside
  <2>7. e = l \/ e = l + 1 \/ e = l + 2
    BY <1>2, <2>6
  <2>8. e = l + size - 2
    <3>1. e = l => 1 = size - 1
      BY <1>3, <2>1
    <3>2. e = l + 1 => 2 = size - 1
      BY <1>2, <1>3, <2>1, <2>2
    <3>3. e = l + 2 => 3 = size - 1
      BY <1>2, <1>3, <2>1, <2>3
    <3> QED  BY <2>1, <2>7, <3>1, <3>2, <3>3
  <2>9. \A k \in l .. e : file[k] = <<r, k - l + 1>>
    <3> SUFFICES ASSUME NEW k \in l .. e  PROVE  file[k] = <<r, k - l + 1>>
      OBVIOUS
    <3>1. k = l \/ (k = l + 1 /\ e >= l + 1) \/ (k = l + 2 /\ e >= l + 2)
      BY <1>2, <2>7
    <3>2. CASE k = l
      <4>1. k - l + 1 = 1
        BY <1>2, <3>2
      <4> QED  BY <2>1, <3>2, <4>1
    <3>3. CASE k = l + 1 /\ e >= l + 1
      <4>1. k - l + 1 = 2
        BY <1>2, <3>3
      <4> QED  BY <2>2, <3>3, <4>1
    <3>4. CASE k = l + 2 /\ e >= l + 2
      <4>1. k - l + 1 = 3
        BY <1>2, <3>4
      <4> QED  BY <2>3, <3>4, <4>1
    <3> QED  BY <3>1, <3>2, <3>3, <3>4
  <2>10. SubSeq(file, l, e) = Body(r)
    <3> DEFINE S == {<<r, k>> : k \in 1 .. size}
    <3>1. \A k \in l .. e : file[k] \in S
      <4>1. \A k \in l .. e : k - l + 1 \in 1 .. size
        BY <1>2, <2>1, <2>8
      <4> QED  BY <2>9, <4>1
    <3>2. Body(r) = [k \in 1 .. size - 1 |-> <<r, k>>] /\ size - 1 \in Nat
      BY <2>1 DEF Body
    <3>3. Body(r) \in [1 .. size - 1 -> S]
      BY <3>2
    <3> HIDE DEF S
    <3>4. Body(r) \in Seq(S) /\ Len(Body(r)) = size - 1
      <4>1. Body(r) \in Seq(S)
        BY <3>2, <3>3, SeqDef
      <4> QED  BY <3>2, <3>3, <4>1, LenProperties
    <3>5. /\ SubSeq(file, l, e) \in Seq(S)
          /\ Len(SubSeq(file, l, e)) = (IF l <= e THEN e - l + 1 ELSE 0)
          /\ \A k \in 1 .. e - l + 1 : SubSeq(file, l, e)[k] = file[l + k - 1]
      <4>1. l \in Int /\ e \in Int
        BY <1>2
      <4> QED  BY <3>1, <4>1, SubSeqProperties
    <3>6. e - l + 1 = size - 1
      BY <1>2, <2>8
    <3>7. ASSUME NEW k \in 1 .. size - 1  PROVE  SubSeq(file, l, e)[k] = Body(r)[k]
      <4>1. l + k - 1 \in l .. e /\ (l + k - 1) - l + 1 = k
        BY <1>2, <2>8
      <4>2. file[l + k - 1] = <<r, k>>
        BY <2>9, <4>1
      <4> QED  BY <3>2, <3>5, <3>6, <4>2
    <3>8. Len(SubSeq(file, l, e)) = size - 1
      BY <1>2, <3>5, <3>6
    <3> QED  BY <3>4, <3>5, <3>7, <3>8, SeqEqual
  <2> QED  BY <1>2, <2>10 DEF LineText
<1>6. PICK k \in l .. e - 1 : ~Next1(k)
  BY <1>5
<1>7. EndsInside(file[k]) /\ BeginsInside(file[k + 1]) /\ k \in 1 .. len /\ k + 1 \in 1 .. len
  BY <1>2, <1>3, <1>6
<1>8. PICK a \in Nat, b \in Nat :
        \E s, t : file[k] = <<s, a>> /\ file[k + 1] = <<t, b>>
  <2>1. /\ file[k] = <<file[k][1], file[k][2]>> /\ file[k][2] \in Nat
        /\ file[k + 1] = <<file[k + 1][1], file[k + 1][2]>> /\ file[k + 1][2] \in Nat
    BY <1>1, <1>7, FileFacts
  <2> QED  BY <2>1
<1>9. PICK s, t : file[k] = <<s, a>> /\ file[k + 1] = <<t, b>> /\ Chained(k) /\ Chained(k + 1)
  BY <1>1, <1>7, <1>8 DEF AppendsOK
<1>10. <<s, a>> \in cuts
  <2>1. a < Size(s)
    BY <1>7, <1>9, SizeType DEF EndsInside
  <2> QED  BY <1>6, <1>9, <1>9, <2>1 DEF Chained
<1>11. <<t, b - 1>> \in cuts /\ <<t, b - 1>> # <<s, a>>
  <2>1. b > 1 /\ (k + 1) - 1 = k
    BY <1>7, <1>9, SizeType DEF BeginsInside
  <2>2. <<t, b - 1>> # <<s, a>>
    <3>1. <<t, b - 1>> = <<s, a>> => t = s /\ b = a + 1
      <4>1. <<t, b - 1>> = <<s, a>> => t = s /\ b - 1 = a
        OBVIOUS
      <4> QED  BY <1>9, <4>1
    <3> QED  BY <1>6, <1>9, <3>1
  <2>3. <<t, b - 1>> \in cuts \/ file[k] = <<t, b - 1>>
    <3>1. file[k + 1][1] = t /\ file[k + 1][2] = b
      BY <1>9
    <3> QED  BY <1>9, <2>1, <3>1 DEF Chained
  <2> QED  BY <1>9, <2>2, <2>3
<1>12. Joint(k)
  <2>1. file[k + 1][1] = t /\ file[k + 1][2] = b
    BY <1>9
  <2> QED  BY <1>9, <1>10, <1>11, <2>1 DEF Joint
<1> QED  BY <1>2, <1>6, <1>12

(* Each mixture has a cut of its own, and one cut has no mixture: that of    *)
(* the later of the two parts that the first joint joins.                    *)
LEMMA MixturesCounted ==
    ASSUME MemoryInv, atomic
    PROVE  \/ Mixtures(ReadRecords(file)) = {}
           \/ Cardinality(Mixtures(ReadRecords(file))) < Cardinality(cuts)
<1> USE DEF MemoryInv
<1> DEFINE M == Mixtures(ReadRecords(file))
           Joins(text, k) == \E l \in RecordLines(file) :
               text = LineText(file, l) /\ k \in l .. LineEnd(file, l) - 1 /\ Joint(k)
           joint == [text \in M |-> CHOOSE k \in DOMAIN file : Joins(text, k)]
<1> SUFFICES ASSUME M # {}  PROVE  Cardinality(M) < Cardinality(cuts)
  OBVIOUS
<1>1. PICK len \in Nat : len = Len(file) /\ DOMAIN file = 1 .. len
  BY FileFacts
<1>2. ASSUME NEW text \in M  PROVE  joint[text] \in DOMAIN file /\ Joins(text, joint[text])
  <2>a. file \in Seq(Pieces(started))
    BY DEF TypeOK
  <2>1. PICK l \in RecordLines(file) : text = LineText(file, l)
    BY <2>a, LoadFacts DEF Mixtures
  <2>2. \A r \in started : LineText(file, l) # Body(r)
    BY <2>1 DEF Mixtures
  <2>3. PICK k \in l .. LineEnd(file, l) - 1 : Joint(k)
    BY <2>2, JoinedLine
  <2>4. k \in DOMAIN file
    <3>1. l \in Nat /\ l >= 1 /\ LineEnd(file, l) \in Nat /\ LineEnd(file, l) <= len
      BY <1>1, LineRead
    <3> QED  BY <1>1, <3>1
  <2>5. Joins(text, k)
    BY <2>1, <2>3
  <2> HIDE DEF Joins
  <2> QED  BY <2>4, <2>5
<1>3. ASSUME NEW t \in M, NEW u \in M, joint[t] = joint[u]  PROVE  t = u
  <2>1. PICK l \in RecordLines(file), n \in RecordLines(file) : \E k :
          /\ t = LineText(file, l) /\ u = LineText(file, n)
          /\ k \in l .. LineEnd(file, l) - 1 /\ k \in n .. LineEnd(file, n) - 1
    <3>1. PICK k : k = joint[t] /\ k = joint[u]
      BY <1>3
    <3>2. Joins(t, k) /\ Joins(u, k)
      BY <1>2, <3>1
    <3>3. PICK l \in RecordLines(file) :
            t = LineText(file, l) /\ k \in l .. LineEnd(file, l) - 1
      BY <3>2
    <3>4. PICK n \in RecordLines(file) :
            u = LineText(file, n) /\ k \in n .. LineEnd(file, n) - 1
      BY <3>2
    <3> QED  BY <3>3, <3>4
  <2>2. /\ l \in Nat /\ n \in Nat /\ LineEnd(file, l) \in Nat /\ LineEnd(file, n) \in Nat
    BY <1>1, LineRead
  <2>3. (l < n => LineEnd(file, l) + 1 < n) /\ (n < l => LineEnd(file, n) + 1 < l)
    BY <1>1, LinesApart
  <2>4. l = n
    BY <2>1, <2>2, <2>3
  <2> QED  BY <2>1, <2>4
<1>4. \A text \in M : joint[text] \in DOMAIN file /\ Joint(joint[text])
  BY <1>2
<1> DEFINE K == {joint[text] : text \in M}
           image == [text \in M |-> file[joint[text]]]
<1> HIDE DEF M, Joins, joint
<1>5. PICK first \in K : \A k \in K : first <= k
  <2>1. K \in SUBSET Nat /\ K # {}
    BY <1>1, <1>4
  <2> HIDE DEF K
  <2> QED  BY <2>1, LeastNat
<1>6. first \in 1 .. len /\ Joint(first)
  BY <1>1, <1>4
<1>7. PICK t, b : /\ file[first + 1][1] = t /\ file[first + 1][2] = b
                  /\ <<t, b - 1>> \in cuts /\ <<t, b - 1>> # file[first]
  BY <1>6 DEF Joint
<1>a. first + 1 \in 1 .. len /\ b \in Nat
  <2>1. PICK text \in M : first = joint[text]
    OBVIOUS
  <2>2. PICK l \in RecordLines(file) : first \in l .. LineEnd(file, l) - 1
    BY <1>2, <2>1 DEF Joins
  <2>3. l \in Nat /\ l >= 1 /\ LineEnd(file, l) \in Nat /\ LineEnd(file, l) <= len
    BY <1>1, LineRead
  <2>4. first + 1 \in 1 .. len
    BY <1>1, <2>2, <2>3
  <2> QED  BY <1>1, <1>7, <2>4, FileFacts
<1>8. PICK i \in 1 .. len : file[i] = <<t, b - 1>>
  BY <1>1, <1>7 DEF AppendsOK
<1>9. i < first
  <2>1. file[i][1] = file[first + 1][1] /\ file[i][2] = b - 1
    BY <1>7, <1>8
  <2>2. file[i][2] <= file[first + 1][2] /\ file[i] # file[first + 1]
    BY <1>7, <1>a, <2>1
  <2>3. i <= first + 1
    BY <1>1, <1>a, <2>1, <2>2, OnePlace
  <2>4. i # first + 1 /\ i # first
    BY <1>7, <1>8, <2>2
  <2> QED  BY <1>6, <2>3, <2>4
<1>10. \A text \in M : image[text] \in cuts /\ image[text] # <<t, b - 1>>
  <2> SUFFICES ASSUME NEW text \in M  PROVE  image[text] \in cuts /\ image[text] # <<t, b - 1>>
    OBVIOUS
  <2>1. image[text] \in cuts
    BY <1>4 DEF Joint
  <2>2. ASSUME file[joint[text]] = file[i]  PROVE  FALSE
    <3>1. joint[text] = i
      <4>1. file[i][2] \in Nat
        BY <1>1, FileFacts
      <4> QED  BY <1>1, <1>4, <2>2, <4>1, OnePlace
    <3>2. first <= joint[text]
      BY <1>5
    <3> QED  BY <1>6, <1>9, <3>1, <3>2
  <2> QED  BY <1>8, <2>1, <2>2
<1>11. image \in Injection(M, cuts \ {<<t, b - 1>>})
  <2>1. image \in [M -> cuts \ {<<t, b - 1>>}]
    BY <1>10
  <2>2. ASSUME NEW s \in M, NEW u \in M, image[s] = image[u]  PROVE  s = u
    <3>1. file[joint[s]] = file[joint[u]]
      BY <2>2
    <3>2. joint[s] \in DOMAIN file /\ joint[u] \in DOMAIN file
      BY <1>4
    <3>3. joint[s] = joint[u]
      <4>1. file[joint[s]][2] \in Nat
        BY <3>2, FileFacts
      <4> QED  BY <3>1, <3>2, <4>1, OnePlace
    <3> QED  BY <1>3, <3>3
  <2> HIDE DEF image
  <2> QED  BY <2>1, <2>2 DEF Injection, IsInjective
<1>12. /\ IsFiniteSet(cuts \ {<<t, b - 1>>})
       /\ Cardinality(cuts \ {<<t, b - 1>>}) = Cardinality(cuts) - 1
       /\ Cardinality(cuts) \in Nat
  BY <1>7, FS_RemoveElement, FS_CardinalityType
<1>13. IsFiniteSet(M) /\ Cardinality(M) <= Cardinality(cuts \ {<<t, b - 1>>})
  BY <1>11, <1>12, FS_Injection
<1> QED  BY <1>12, <1>13, FS_CardinalityType

(* Where appending is atomic, a character is torn only where a write was cut. *)
LEMMA TornByCut ==
    ASSUME MemoryInv, atomic, ~Decodable(file)
    PROVE  \E piece \in cuts : piece[1] \in Wide
<1> USE DEF MemoryInv
<1>1. PICK len \in Nat : len = Len(file) /\ DOMAIN file = 1 .. len
  BY FileFacts
<1>2. PICK i \in 0 .. len : SplitAfter(file, i) # SplitBefore(file, i + 1)
  BY <1>1 DEF Decodable
<1>3. CASE SplitAfter(file, i) # 0
  <2>1. i \in 1 .. len /\ EndsInside(file[i]) /\ SplitAfter(file, i) = Split[file[i][1]]
    BY <1>3 DEF SplitAfter
  <2>2. PICK r \in started, k \in Nat, size \in {3, 4} :
          file[i] = <<r, k>> /\ size = Size(r) /\ k >= 1
    BY <1>1, <2>1, FileFacts, SizeType
  <2>3. r \in Wide /\ k < size - 1 /\ k < Size(r)
    BY <1>3, <2>1, <2>2 DEF Wide, TypeOK, EndsInside
  <2>4. ASSUME <<r, k>> \notin cuts  PROVE  FALSE
    <3>1. Chained(i)
      BY <1>1, <2>1 DEF AppendsOK
    <3>2. i < len /\ file[i + 1] = <<r, k + 1>>
      BY <1>1, <2>2, <2>3, <2>4, <3>1 DEF Chained
    <3>3. BeginsInside(file[i + 1])
      BY <2>2, <2>3, <3>2 DEF BeginsInside
    <3>4. SplitBefore(file, i + 1) = Split[r]
      BY <1>1, <3>2, <3>3 DEF SplitBefore
    <3> QED  BY <1>2, <2>1, <2>2, <3>4
  <2> QED  BY <2>3, <2>4
<1>4. CASE SplitAfter(file, i) = 0
  <2>1. /\ i + 1 \in 1 .. len /\ BeginsInside(file[i + 1])
        /\ SplitBefore(file, i + 1) = Split[file[i + 1][1]] /\ Split[file[i + 1][1]] # 0
    BY <1>1, <1>2, <1>4 DEF SplitBefore
  <2>2. PICK r \in started, k \in Nat, size \in {3, 4} :
          file[i + 1] = <<r, k>> /\ size = Size(r)
    BY <1>1, <2>1, FileFacts, SizeType
  <2>3. r \in Wide /\ k \in 2 .. size - 1
    BY <2>1, <2>2 DEF Wide, TypeOK, BeginsInside
  <2>4. ASSUME <<r, k - 1>> \notin cuts  PROVE  FALSE
    <3>1. Chained(i + 1)
      BY <1>1, <2>1 DEF AppendsOK
    <3>2. i > 0 /\ file[i] = <<r, k - 1>>
      <4>1. k > 1 /\ (i + 1) - 1 = i /\ (i + 1 > 1 => i > 0)
        BY <2>3
      <4> QED  BY <2>2, <2>4, <3>1, <4>1 DEF Chained
    <3>3. EndsInside(file[i])
      BY <2>2, <2>3, <3>2 DEF EndsInside
    <3>4. SplitAfter(file, i) = Split[r]
      BY <3>2, <3>3 DEF SplitAfter
    <3> QED  BY <1>4, <2>1, <2>2, <3>4
  <2> QED  BY <2>3, <2>4
<1> QED  BY <1>3, <1>4

(* Elsewhere only what met another's writing is lost or torn. *)
LEMMA HarmByMeeting ==
    ASSUME MemoryInv, ~atomic
    PROVE  Lost \subseteq met /\ (~Decodable(file) => met \cap Wide # {})
<1> USE DEF MemoryInv
<1>1. PICK len \in Nat : len = Len(file) /\ DOMAIN file = 1 .. len
  BY FileFacts
<1>2. Lost \subseteq met
  <2> SUFFICES ASSUME NEW r \in written, r \notin met
               PROVE  Body(r) \in Range(ReadRecords(file))
    BY DEF Lost
  <2>1. PICK i \in DOMAIN file : TextAt(r, i)
    BY DEF SeeksOK
  <2>2. i \in RecordLines(file) /\ LineText(file, i) = Body(r)
    <3>1. r \in Records
      BY DEF TypeOK
    <3> QED  BY <1>1, <2>1, <3>1, TextIsLine DEF TextAt
  <2>3. file \in Seq(Pieces(started))
    BY DEF TypeOK
  <2> QED  BY <2>2, <2>3, LoadFacts
<1>3. ASSUME ~Decodable(file)  PROVE  met \cap Wide # {}
  <2>1. PICK i \in 0 .. len : SplitAfter(file, i) # SplitBefore(file, i + 1)
    BY <1>1, <1>3 DEF Decodable
  <2>2. ASSUME NEW j \in 1 .. len, file[j][1] \notin met
        PROVE  \E s \in 1 .. len, size \in {3, 4} :
                 /\ size = Size(file[j][1]) /\ s + size - 1 <= len /\ j \in s .. s + size - 1
                 /\ \A k \in s .. s + size - 1 : file[k] = <<file[j][1], k - s + 1>>
    <3>1. file[j][1] \in written
      BY <1>1 DEF SeeksOK
    <3>2. PICK s \in 1 .. len : TextAt(file[j][1], s)
      BY <1>1, <2>2, <3>1 DEF SeeksOK
    <3>3. PICK size \in {3, 4} : size = Size(file[j][1])
      BY SizeType
    <3>4. s + size - 1 <= len /\ j \in s .. s + size - 1
      BY <1>1, <3>2, <3>3 DEF TextAt, Stands
    <3>5. \A k \in s .. s + size - 1 : k \in 1 .. len
      BY <3>4
    <3> QED  BY <1>1, <3>2, <3>3, <3>4, <3>5 DEF TextAt, Stands
  <2>3. CASE SplitAfter(file, i) # 0
    <3>1. i \in 1 .. len /\ EndsInside(file[i]) /\ SplitAfter(file, i) = Split[file[i][1]]
      BY <2>3 DEF SplitAfter
    <3>2. file[i][1] \in Wide
      BY <1>1, <2>3, <3>1 DEF Wide, SeeksOK, TypeOK
    <3>3. ASSUME file[i][1] \notin met  PROVE  FALSE
      <4>1. PICK r : r = file[i][1]
        OBVIOUS
      <4>2. PICK s \in 1 .. len, size \in {3, 4} :
               /\ size = Size(r) /\ s + size - 1 <= len /\ i \in s .. s + size - 1
               /\ \A k \in s .. s + size - 1 : file[k] = <<r, k - s + 1>>
        BY <2>2, <3>1, <3>3, <4>1
      <4>3. i - s + 1 < size - 1
        BY <3>1, <4>2 DEF EndsInside
      <4>4. i + 1 \in s .. s + size - 1 /\ i + 1 <= len /\ (i + 1) - s + 1 \in 2 .. size - 1
        BY <3>1, <4>2, <4>3
      <4>5. file[i + 1] = <<r, (i + 1) - s + 1>>
        BY <4>2, <4>4
      <4>6. SplitBefore(file, i + 1) = Split[r]
        BY <1>1, <4>2, <4>4, <4>5 DEF SplitBefore, BeginsInside
      <4> QED  BY <2>1, <3>1, <4>1, <4>6
    <3> QED  BY <3>2, <3>3
  <2>4. CASE SplitAfter(file, i) = 0
    <3>1. /\ i + 1 \in 1 .. len /\ BeginsInside(file[i + 1])
          /\ SplitBefore(file, i + 1) = Split[file[i + 1][1]] /\ Split[file[i + 1][1]] # 0
      BY <1>1, <2>1, <2>4 DEF SplitBefore
    <3>2. file[i + 1][1] \in Wide
      BY <1>1, <3>1 DEF Wide, SeeksOK, TypeOK
    <3>3. ASSUME file[i + 1][1] \notin met  PROVE  FALSE
      <4>1. PICK r, j : r = file[i + 1][1] /\ j = i + 1
        OBVIOUS
      <4>2. PICK s \in 1 .. len, size \in {3, 4} :
               /\ size = Size(r) /\ s + size - 1 <= len /\ j \in s .. s + size - 1
               /\ \A k \in s .. s + size - 1 : file[k] = <<r, k - s + 1>>
        BY <2>2, <3>1, <3>3, <4>1
      <4>3. j - s + 1 \in 2 .. size - 1
        BY <3>1, <4>1, <4>2 DEF BeginsInside
      <4>4. i \in s .. s + size - 1 /\ i > 0 /\ i - s + 1 < size - 1
        BY <4>1, <4>2, <4>3
      <4>5. file[i] = <<r, i - s + 1>>
        BY <4>2, <4>4
      <4>6. SplitAfter(file, i) = Split[r]
        BY <4>2, <4>4, <4>5 DEF SplitAfter, EndsInside
      <4> QED  BY <2>4, <3>1, <4>1, <4>6
    <3> QED  BY <3>2, <3>3
  <2> QED  BY <2>3, <2>4
<1> QED  BY <1>2, <1>3

(* However writes are cut short, abandoned or meet: where appending is       *)
(* atomic a cut costs at most two records, load finds fewer mixtures than    *)
(* there were cuts, and raises only after a wide record was cut; elsewhere   *)
(* only records whose writing met another's are lost or come out mixed, and  *)
(* only such a wide one makes load raise.                                    *)
THEOREM DamageIsBounded == Spec => []DamageBounded
<1>1. MemoryInv => DamageBounded
  BY LossCounted, MixturesCounted, TornByCut, HarmByMeeting DEF DamageBounded, MemoryInv, MixedOK
<1> QED  BY <1>1, MemoryInvariant, PTL

----
(* The refinement of RecordLog. *)

LEMMA LogType ==
    ASSUME MemoryInv
    PROVE  /\ ReadRecords(file) \in Seq(Seq(Records \X (1..4)))
           /\ \A p \in Processes : views[p] \in Seq(Seq(Records \X (1..4)))
           /\ Seq(Pieces(started)) \subseteq Seq(Records \X (1..4))
<1>1. Pieces(started) \subseteq Records \X (1..4)
  BY DEF MemoryInv, TypeOK, Pieces
<1>2. /\ Seq(Pieces(started)) \subseteq Seq(Records \X (1..4))
      /\ Seq(Seq(Pieces(started))) \subseteq Seq(Seq(Records \X (1..4)))
  BY <1>1, SeqMonotonic
<1>3. file \in Seq(Pieces(started)) /\ \A p \in Processes : views[p] \in Seq(Seq(Pieces(started)))
  BY DEF MemoryInv, TypeOK
<1>4. ReadRecords(file) \in Seq(Seq(Pieces(started)))
  BY <1>3, LoadFacts
<1> QED  BY <1>2, <1>3, <1>4

(* What is firm stays so as long as what is out of reach is left alone. *)
LEMMA FirmGrows ==
    ASSUME MemoryInv, MemoryInv', Len(file) <= Len(file'),
           \A n \in 0 .. Len(file) : Beyond(n) => Beyond(n)' /\ \A k \in 1 .. n : file'[k] = file[k]
    PROVE  FirmLines \subseteq FirmLines' /\ Promise!Firmer
<1>1. /\ Len(file) \in Nat /\ DOMAIN file = 1 .. Len(file)
      /\ Len(file') \in Nat /\ DOMAIN file' = 1 .. Len(file')
  BY FileFacts, LenProperties DEF MemoryInv, TypeOK
<1>2. ASSUME NEW i \in FirmLines  PROVE  i \in FirmLines'
  <2>1. PICK n \in Nat : n = LineEnd(file, i) + 1 /\ n <= Len(file) /\ Beyond(n) /\ i \in RecordLines(file)
    <3>1. i \in RecordLines(file)
      BY DEF FirmLines
    <3>2. LineEnd(file, i) + 1 \in Nat
      BY <1>1, <3>1, LineRead
    <3> QED  BY <3>1, <3>2 DEF FirmLines
  <2>2. i \in EndedBy(file, n)
    BY <2>1 DEF EndedBy
  <2>3. n \in 0 .. Len(file) /\ n <= Len(file')
    BY <1>1, <2>1
  <2>4. Beyond(n)' /\ \A k \in 1 .. n : file'[k] = file[k]
    BY <2>1, <2>3
  <2>5. i \in EndedBy(file', n) /\ LineEnd(file', i) = LineEnd(file, i)
    BY <1>1, <2>1, <2>2, <2>3, <2>4, SameLine
  <2>6. i \in RecordLines(file')
    BY <2>5 DEF EndedBy
  <2> QED  BY <2>1, <2>3, <2>4, <2>5, <2>6 DEF FirmLines
<1>3. Promise!Firmer
  <2>1. Cardinality(FirmLines) \in Nat
    BY FirmFacts
  <2>2. IsFiniteSet(FirmLines') /\ Cardinality(FirmLines') \in 0 .. Len(ReadRecords(file'))
    <3>1. file' \in Seq(Pieces(started'))
      BY DEF MemoryInv, TypeOK
    <3>2. /\ IsFiniteSet(RecordLines(file'))
          /\ Len(ReadRecords(file')) = Cardinality(RecordLines(file'))
      BY <3>1, LoadFacts
    <3>3. FirmLines' \subseteq RecordLines(file')
      BY DEF FirmLines
    <3>4. IsFiniteSet(FirmLines') /\ Cardinality(FirmLines') <= Cardinality(RecordLines(file'))
      BY <3>2, <3>3, FS_Subset
    <3>5. Cardinality(FirmLines') \in Nat /\ Cardinality(RecordLines(file')) \in Nat
      BY <3>2, <3>4, FS_CardinalityType
    <3> QED  BY <3>2, <3>4, <3>5
  <2>3. Cardinality(FirmLines) <= Cardinality(FirmLines')
    BY <1>2, <2>2, FS_Subset
  <2>4. PICK a, b, c : a = Cardinality(FirmLines) /\ b = Cardinality(FirmLines') /\ c = Len(ReadRecords(file'))
    OBVIOUS
  <2>5. a \in Nat /\ b \in 0 .. c /\ a <= b
    BY <2>1, <2>2, <2>3, <2>4
  <2>6. b \in a .. c
    BY <2>5
  <2> QED  BY <2>4, <2>6 DEF Promise!Firmer
<1> QED  BY <1>2, <1>3

(* A write that does not append puts its text after all that is firm. *)
LEMMA WriteCollides ==
    ASSUME MemoryInv, MemoryInv', ~atomic, UNCHANGED <<atomic, started, views, sure>>,
           Len(file) <= Len(file'),
           \A n \in 0 .. Len(file) : Beyond(n) => Beyond(n)' /\ \A k \in 1 .. n : file'[k] = file[k]
    PROVE  Promise!Collide
<1>1. PICK n \in 0 .. Len(file) : Beyond(n) /\ FirmLines = EndedBy(file, n)
  BY FirmBound
<1>2. /\ file \in Seq(Pieces(started)) /\ file' \in Seq(Pieces(started)) /\ n \in Nat
      /\ n <= Len(file) /\ n <= Len(file') /\ \A k \in 1 .. n : file'[k] = file[k]
  <2>1. file \in Seq(Pieces(started)) /\ file' \in Seq(Pieces(started))
    BY DEF MemoryInv, TypeOK
  <2>2. Len(file) \in Nat /\ Len(file') \in Nat
    BY <2>1, LenProperties
  <2> QED  BY <1>1, <2>1, <2>2
<1>3. /\ EndedBy(file', n) = FirmLines
      /\ RecordsOf(file', EndedBy(file', n)) = RecordsOf(file, FirmLines)
  BY <1>1, <1>2, SamePrefix
<1>4. /\ RecordsOf(file, FirmLines) = SubSeq(ReadRecords(file), 1, Cardinality(FirmLines))
      /\ RecordsOf(file', EndedBy(file', n)) = SubSeq(ReadRecords(file'), 1, Cardinality(FirmLines))
  <2>1. RecordsOf(file', EndedBy(file', n))
          = SubSeq(ReadRecords(file'), 1, Cardinality(EndedBy(file', n)))
    BY <1>2, PrefixRecords
  <2> QED  BY <1>3, <2>1, FirmFacts
<1>5. ReadRecords(file') \in Seq(Seq(Records \X (1..4)))
  <2>1. ReadRecords(file') \in Seq(Seq(Pieces(started)))
    BY <1>2, LoadFacts
  <2>2. Seq(Seq(Pieces(started))) \subseteq Seq(Seq(Records \X (1..4)))
    BY LogType, SeqMonotonic
  <2> QED  BY <2>1, <2>2
<1>6. Promise!Firmer
  BY FirmGrows
<1>7. SubSeq(ReadRecords(file'), 1, Cardinality(FirmLines)) = SubSeq(ReadRecords(file), 1, Cardinality(FirmLines))
  BY <1>3, <1>4
<1> QED  BY <1>5, <1>6, <1>7 DEF Promise!Collide

(* At most one line of a record has not ended, newline and all. *)
LEMMA LastLine ==
    ASSUME NEW S, NEW f \in Seq(S), NEW n \in Nat,
           NEW i \in RecordLines(f), i \notin EndedBy(f, n),
           \A j \in RecordLines(f) : j \notin EndedBy(f, n) => j = i
    PROVE  /\ ReadRecords(f) = Append(RecordsOf(f, EndedBy(f, n)), LineText(f, i))
           /\ \A j \in EndedBy(f, n) : j < i
<1> DEFINE lines == EndedBy(f, n)
<1>1. /\ Len(f) \in Nat /\ DOMAIN f = 1 .. Len(f)
      /\ \A j \in RecordLines(f) : LineText(f, j) \in Seq(S)
      /\ lines \in SUBSET Nat /\ IsFiniteSet(lines) /\ lines \in SUBSET RecordLines(f)
  BY LoadFacts, PrefixRecords
<1>2. i \in Nat
  BY LoadFacts
<1>3. ASSUME NEW j \in lines  PROVE  j < i
  <2>1. /\ j \in RecordLines(f) /\ j \in Nat /\ LineEnd(f, j) \in Nat /\ LineEnd(f, i) \in Nat
        /\ LineEnd(f, j) + 1 <= n /\ ~(LineEnd(f, i) + 1 <= n) /\ j <= LineEnd(f, j)
    BY <1>1, LineRead DEF EndedBy
  <2>2. i < j => LineEnd(f, i) + 1 < j
    BY <1>1, <2>1, LinesApart
  <2>3. i # j
    OBVIOUS
  <2> QED  BY <1>2, <2>1, <2>2, <2>3
<1>4. RecordLines(f) = lines \cup {i}
  BY <1>1
<1> HIDE DEF lines
<1>5. RecordsOf(f, lines \cup {i}) = Append(RecordsOf(f, lines), LineText(f, i))
  <2>1. /\ \A j \in lines : j < i /\ LineText(f, j) \in Seq(S)
        /\ LineText(f, i) \in Seq(S)
    BY <1>1, <1>3
  <2> QED  BY <1>1, <1>2, <2>1, LineAdded
<1> QED  BY <1>3, <1>4, <1>5 DEF ReadRecords, lines

(* Where appending is atomic a write adds a record at the end, makes the last *)
(* one unreadable, or changes none.                                          *)
LEMMA WriteAppends ==
    ASSUME MemoryInv, MemoryInv', atomic, UNCHANGED <<atomic, started, views, sure>>,
           \A k \in 0 .. Len(file) : Beyond(k) => Beyond(k)' /\ \A l \in 1 .. k : file'[l] = file[l],
           NEW r \in started, NEW m \in 0..3, NEW n \in 1..4,
           Lands(r, m, n, Len(file)), n <= Size(r) - m
    PROVE  Promise!Settle \/ Promise!LoseLast \/ Promise!Add
<1> DEFINE log == ReadRecords(file)
           log2 == ReadRecords(file')
<1>1. PICK len \in Nat, size \in {3, 4} :
        /\ len = Len(file) /\ DOMAIN file = 1 .. len /\ size = Size(r) /\ m + n <= size
        /\ Len(file') = len + n /\ DOMAIN file' = 1 .. len + n
  <2>1. PICK len \in Nat : len = Len(file) /\ DOMAIN file = 1 .. len
    BY FileFacts
  <2>2. PICK size \in {3, 4} : size = Size(r)
    BY SizeType
  <2>3. Len(file') = len + n
    BY <2>1 DEF Lands
  <2>4. DOMAIN file' = 1 .. len + n
    BY <2>3, LenProperties DEF Lands
  <2>5. m + n <= size
    BY <2>2
  <2> QED  BY <2>1, <2>2, <2>3, <2>4, <2>5
<1> DEFINE old == EndedBy(file, len)
           new == EndedBy(file', len)
<1>2. /\ \A k \in 1 .. len : file'[k] = file[k]
      /\ \A k \in len + 1 .. len + n : file'[k] = <<r, m + (k - len)>>
  <2>1. \A k \in 1 .. len : k \in 1 .. len + n /\ k \notin len + 1 .. len + n
    OBVIOUS
  <2>2. \A k \in len + 1 .. len + n : k \in 1 .. len + n
    OBVIOUS
  <2> QED  BY <1>1, <2>1, <2>2 DEF Lands
<1>3. file \in Seq(Pieces(started)) /\ file' \in Seq(Pieces(started))
  BY DEF MemoryInv, TypeOK
<1>4. new = old /\ RecordsOf(file', new) = RecordsOf(file, old)
  <2>1. len <= Len(file) /\ len <= Len(file')
    BY <1>1
  <2> QED  BY <1>2, <1>3, <2>1, SamePrefix
<1>5. Promise!Firmer
  <2>1. Len(file) <= Len(file')
    BY <1>1
  <2> QED  BY <2>1, FirmGrows
<1>6. ASSUME NEW i \in RecordLines(file), i \notin old
      PROVE  /\ i \in 1 .. len /\ StartsLine(file, i) /\ LineEnd(file, i) = len
             /\ file[len][2] = Size(file[len][1]) - 1 /\ \A k \in i .. len : ~Newline(file[k])
  <2>1. PICK e \in Nat : e = LineEnd(file, i) /\ Line(file, i, e) /\ e <= len
    BY <1>1, LineRead
  <2>2. e = len
    <3>1. ~(e + 1 <= len)
      BY <1>6, <2>1 DEF EndedBy
    <3> QED  BY <2>1, <3>1
  <2> QED  BY <1>1, <2>1, <2>2 DEF Line, EndsLine, IsRecord
<1>7. ASSUME NEW j \in RecordLines(file'), j \notin old
      PROVE  \E e \in Nat :
               /\ e = LineEnd(file', j) /\ e >= len /\ e <= len + n
               /\ j \in 1 .. e /\ StartsLine(file', j)
               /\ \A k \in j .. e - 1 : EndsInside(file'[k])
               /\ \A k \in j .. e : ~Newline(file'[k])
               /\ j <= len + 1
  <2>1. PICK e \in Nat : e = LineEnd(file', j) /\ Line(file', j, e) /\ e <= len + n
    BY <1>1, LineRead
  <2>2. /\ j \in 1 .. e /\ StartsLine(file', j)
        /\ \A k \in j .. e - 1 : EndsInside(file'[k])
        /\ \A k \in j .. e : ~Newline(file'[k])
    BY <1>1, <2>1 DEF Line, EndsLine, IsRecord
  <2>3. e >= len
    <3>1. ~(e + 1 <= len)
      BY <1>4, <1>7, <2>1 DEF EndedBy
    <3> QED  BY <2>1, <3>1
  <2>4. j <= len + 1
    <3> SUFFICES ASSUME j > len + 1  PROVE  FALSE
      BY <2>2
    <3>1. j - 1 \in len + 1 .. len + n /\ j # 1
      BY <2>1, <2>2
    <3>2. Newline(file'[j - 1]) /\ file'[j - 1] = <<r, m + ((j - 1) - len)>>
      BY <1>2, <2>2, <3>1 DEF StartsLine
    <3>3. m + ((j - 1) - len) = size
      BY <1>1, <3>2 DEF Newline
    <3> QED  BY <1>1, <2>1, <2>2, <3>3
  <2> QED  BY <2>1, <2>2, <2>3, <2>4
<1>8. \A i \in RecordLines(file) : \A k \in RecordLines(file) :
        i \notin old /\ k \notin old => k = i
  <2> SUFFICES ASSUME NEW i \in RecordLines(file), NEW k \in RecordLines(file),
                      i \notin old, k \notin old, i < k
               PROVE  FALSE
    <3>1. \A i \in RecordLines(file) : i \notin old => i \in 1 .. len
      BY <1>6
    <3> QED  BY <3>1
  <2>1. LineEnd(file, i) = len /\ k \in 1 .. len
    BY <1>6
  <2>2. LineEnd(file, i) + 1 < k
    BY <1>1, LinesApart
  <2> QED  BY <2>1, <2>2
<1>9. \A i \in RecordLines(file') : \A k \in RecordLines(file') :
        i \notin old /\ k \notin old => k = i
  <2> SUFFICES ASSUME NEW i \in RecordLines(file'), NEW k \in RecordLines(file'),
                      i \notin old, k \notin old, i < k
               PROVE  FALSE
    <3>1. \A i \in RecordLines(file') : i \notin old => i \in Nat
      BY <1>7
    <3> QED  BY <3>1
  <2>1. PICK e \in Nat : e = LineEnd(file', i) /\ e >= len
    BY <1>7
  <2>2. k \in Nat /\ k <= len + 1
    BY <1>7
  <2>3. LineEnd(file', i) + 1 < k
    BY <1>1, LinesApart
  <2> QED  BY <2>1, <2>2, <2>3
<1>a. Len(log) = Cardinality(RecordLines(file)) /\ log \in Seq(Seq(Pieces(started)))
      /\ Range(log) = {LineText(file, i) : i \in RecordLines(file)}
      /\ IsFiniteSet(RecordLines(file)) /\ old \subseteq RecordLines(file)
      /\ log2 \in Seq(Seq(Pieces(started)))
      /\ (\A i \in RecordLines(file) : LineText(file, i) \in Seq(Pieces(started)))
      /\ (\A i \in RecordLines(file') : LineText(file', i) \in Seq(Pieces(started)))
  BY <1>3, LoadFacts DEF EndedBy
<1>b. new \subseteq RecordLines(file')
  BY DEF EndedBy
<1>10. ASSUME RecordLines(file) = old  PROVE  log = RecordsOf(file, old)
  BY <1>10 DEF ReadRecords
<1>11. ASSUME RecordLines(file') = old  PROVE  log2 = RecordsOf(file, old)
  BY <1>4, <1>11 DEF ReadRecords
<1>12. ASSUME NEW i \in RecordLines(file), i \notin old
       PROVE  log = Append(RecordsOf(file, old), LineText(file, i))
  <2>1. \A j \in RecordLines(file) : j \notin EndedBy(file, len) => j = i
    BY <1>8, <1>12
  <2>2. i \notin EndedBy(file, len)
    BY <1>12
  <2> HIDE DEF old
  <2>3. ReadRecords(file) = Append(RecordsOf(file, EndedBy(file, len)), LineText(file, i))
    BY <1>3, <2>1, <2>2, LastLine
  <2> QED  BY <2>3 DEF old
<1>13. ASSUME NEW j \in RecordLines(file'), j \notin old
       PROVE  /\ log2 = Append(RecordsOf(file, old), LineText(file', j))
              /\ \A i \in old : i < j
  <2>1. \A i \in RecordLines(file') : i \notin EndedBy(file', len) => i = j
    BY <1>4, <1>9, <1>13
  <2>2. j \notin EndedBy(file', len)
    BY <1>4, <1>13
  <2>3. /\ ReadRecords(file') = Append(RecordsOf(file', EndedBy(file', len)), LineText(file', j))
        /\ \A i \in EndedBy(file', len) : i < j
    BY <1>3, <2>1, <2>2, LastLine
  <2> QED  BY <1>4, <2>3
<1> HIDE DEF log, log2, old, new
<1>14. CASE RecordLines(file) = old /\ RecordLines(file') = old
  BY <1>5, <1>10, <1>11, <1>14 DEF Promise!Settle, log, log2
<1>15. CASE RecordLines(file) # old /\ RecordLines(file') = old
  <2>1. PICK i \in RecordLines(file) : i \notin old
    BY <1>15, <1>a
  <2>2. RecordsOf(file, old) \in Seq(Seq(Pieces(started)))
    BY <1>11, <1>15, <1>a
  <2>3. log = Append(log2, LineText(file, i)) /\ log2 = SubSeq(log, 1, Len(log) - 1)
    <3>1. PICK s, t : s = RecordsOf(file, old) /\ t = LineText(file, i)
      OBVIOUS
    <3>2. s \in Seq(Seq(Pieces(started))) /\ t \in Seq(Pieces(started))
      BY <1>a, <2>2, <3>1
    <3>3. SubSeq(Append(s, t), 1, Len(Append(s, t)) - 1) = s
      BY <3>2, FrontOfAppend
    <3>4. log = Append(s, t) /\ log2 = s
      BY <1>11, <1>12, <1>15, <2>1, <3>1
    <3> QED  BY <3>1, <3>3, <3>4
  <2>4. Cardinality(FirmLines) < Len(log)
    <3>1. FirmLines \subseteq old
      BY <1>1 DEF FirmLines, EndedBy, old
    <3>2. FirmLines \subseteq RecordLines(file) /\ FirmLines # RecordLines(file)
      BY <1>a, <2>1, <3>1
    <3>3. /\ Cardinality(FirmLines) <= Cardinality(RecordLines(file))
          /\ Cardinality(FirmLines) # Cardinality(RecordLines(file)) /\ IsFiniteSet(FirmLines)
      BY <1>a, <3>2, FS_Subset
    <3>4. Cardinality(FirmLines) \in Nat /\ Cardinality(RecordLines(file)) \in Nat
      BY <1>a, <3>3, FS_CardinalityType
    <3> QED  BY <1>a, <3>3, <3>4
  <2> QED  BY <1>5, <2>3, <2>4 DEF Promise!LoseLast, Promise!Front, log, log2
<1>16. CASE RecordLines(file) = old /\ RecordLines(file') # old
  <2>1. PICK j \in RecordLines(file') : j \notin old
    BY <1>4, <1>16, <1>b
  <2> DEFINE text == LineText(file', j)
  <2>2. log2 = Append(log, text) /\ text \in Seq(Pieces(started)) /\ \A i \in old : i < j
    BY <1>10, <1>13, <1>16, <1>a, <2>1
  <2>3. log2 \in Seq(Seq(Pieces(started))) \ {<<>>} /\ Last(log2) = text
    <3> HIDE DEF text
    <3>1. Len(log2) = Len(log) + 1 /\ log2[Len(log) + 1] = text /\ Len(log) \in Nat
      BY <1>a, <2>2, AppendProperties, LenProperties
    <3>2. log2 # <<>>
      BY <3>1, EmptySeq
    <3> QED  BY <1>a, <3>1, <3>2 DEF Last
  <2>4. log = SubSeq(log2, 1, Len(log2) - 1)
    <3> HIDE DEF text
    <3> QED  BY <1>a, <2>2, FrontOfAppend
  <2>5. ASSUME NEW i \in old, LineText(file, i) = text  PROVE  FALSE
    <3>1. i \in RecordLines(file) /\ i \in 1 .. len /\ j \in 1 .. len + n
      BY <1>1, <1>16, <2>1 DEF RecordLines
    <3>2. LineText(file, i)[1] = file[i]
      <4>1. PICK e \in Nat : e = LineEnd(file, i) /\ i \in Nat /\ i <= e
        BY <1>1, <3>1, LineRead
      <4> QED  BY <4>1, SameText DEF LineText
    <3>3. text[1] = file'[j]
      <4>1. PICK e \in Nat : e = LineEnd(file', j) /\ j \in Nat /\ j <= e
        BY <1>1, <2>1, LineRead
      <4> QED  BY <4>1, SameText DEF LineText
    <3>4. file'[i] = file'[j] /\ i < j
      BY <1>2, <2>2, <2>5, <3>1, <3>2, <3>3
    <3>5. file'[j][2] \in Nat
      BY <1>1, <1>3, <3>1, PieceFacts
    <3>6. file'[i][2] < file'[j][2]
      BY <1>1, <3>1, <3>4 DEF MemoryInv, AppendsOK
    <3> QED  BY <3>4, <3>5, <3>6
  <2>6. Last(log2) \notin Range(log)
    BY <1>16, <1>a, <2>3, <2>5
  <2>7. log2 \in Seq(Seq(Records \X (1..4))) \ {<<>>}
    <3>1. Seq(Seq(Pieces(started))) \subseteq Seq(Seq(Records \X (1..4)))
      BY LogType, SeqMonotonic
    <3> QED  BY <2>3, <3>1
  <2> QED  BY <1>5, <2>4, <2>6, <2>7
           DEF Promise!Add, Promise!Front, Promise!Last, Promise!Range, Last, Range, log, log2
<1>17. CASE RecordLines(file) # old /\ RecordLines(file') # old
  <2>1. PICK i \in RecordLines(file) : i \notin old
    BY <1>17, <1>a
  <2>2. PICK j \in RecordLines(file') : j \notin old
    BY <1>4, <1>17, <1>b
  <2>3. /\ i \in 1 .. len /\ StartsLine(file, i) /\ LineEnd(file, i) = len
        /\ file[len][2] = Size(file[len][1]) - 1 /\ \A k \in i .. len : ~Newline(file[k])
    BY <1>6, <2>1
  <2>4. PICK e \in Nat :
           /\ e = LineEnd(file', j) /\ e >= len /\ e <= len + n
           /\ j \in 1 .. e /\ StartsLine(file', j)
           /\ \A k \in j .. e - 1 : EndsInside(file'[k])
           /\ \A k \in j .. e : ~Newline(file'[k])
           /\ j <= len + 1
    BY <1>7, <2>2
  <2>5. file'[len] = file[len] /\ ~Newline(file'[len]) /\ ~EndsInside(file'[len])
    <3>1. len \in 1 .. len /\ len \in i .. len
      BY <2>3
    <3>2. file[len][2] \in Nat /\ Size(file[len][1]) \in {3, 4}
      BY <1>1, <3>1, FileFacts, SizeType
    <3> QED  BY <1>2, <2>3, <3>1, <3>2 DEF EndsInside
  <2>6. j # len + 1
    <3>1. j = len + 1 => j # 1 /\ j - 1 = len
      BY <2>3
    <3> QED  BY <2>4, <2>5, <3>1 DEF StartsLine
  <2>7. e = len /\ j \in 1 .. len
    <3>1. j \in 1 .. len
      BY <2>4, <2>6
    <3>2. e > len => len \in j .. e - 1
      BY <2>4, <3>1
    <3> QED  BY <2>4, <2>5, <3>1, <3>2
  <2>8. i = j
    <3>1. ASSUME i < j  PROVE  FALSE
      <4>1. j - 1 \in i .. len /\ j # 1 /\ j - 1 \in 1 .. len
        BY <2>3, <2>7, <3>1
      <4> QED  BY <1>2, <2>3, <2>4, <4>1 DEF StartsLine
    <3>2. ASSUME j < i  PROVE  FALSE
      <4>1. i - 1 \in j .. e /\ i # 1 /\ i - 1 \in 1 .. len
        BY <2>3, <2>7, <3>2
      <4> QED  BY <1>2, <2>3, <2>4, <4>1 DEF StartsLine
    <3> QED  BY <2>3, <2>7, <3>1, <3>2
  <2>9. LineText(file', j) = LineText(file, i)
    <3>1. \A k \in i .. len : file'[k] = file[k]
      <4>1. \A k \in i .. len : k \in 1 .. len
        BY <2>3
      <4> QED  BY <1>2, <4>1
    <3>2. SubSeq(file, i, len) = SubSeq(file', i, len)
      BY <2>3, <3>1, SameText
    <3> QED  BY <2>3, <2>4, <2>7, <2>8, <3>2 DEF LineText
  <2>10. log2 = log
    BY <1>12, <1>13, <2>1, <2>2, <2>9
  <2> QED  BY <1>5, <2>10 DEF Promise!Settle, log, log2
<1> QED  BY <1>14, <1>15, <1>16, <1>17

(* A load that returns gives what was firm when it began, and all that is    *)
(* there if nothing was overwritten.                                         *)
LEMMA LoadGives ==
    ASSUME MemoryInv, NEW p \in Processes, pc[p] = "loading"
    PROVE  \/ ReadRecords(AllTaken(p)) = ReadRecords(file)
           \/ /\ ~atomic /\ ReadRecords(AllTaken(p)) \in Seq(Seq(Records \X (1..4)))
              /\ Promise!IsPrefix(sure[p], ReadRecords(AllTaken(p)))
<1> USE DEF MemoryInv
<1>1. CASE atomic
  <2>1. AllTaken(p) = file
    BY <1>1, AllTakenFacts DEF AppendsOK
  <2> QED  BY <2>1
<1>2. CASE ~atomic
  <2>1. PICK n \in 0 .. Len(file) :
          /\ sure[p] = RecordsOf(file, EndedBy(file, n))
          /\ \A k \in 1 .. n : k \in DOMAIN taken[p] => taken[p][k] = file[k]
    BY DEF ReaderOK
  <2>2. PICK g : g = AllTaken(p)
    OBVIOUS
  <2>3. /\ g \in Seq(Pieces(started)) /\ Len(g) = Len(file) /\ Between(g, p)
        /\ file \in Seq(Pieces(started))
    BY <2>2, AllTakenFacts DEF TypeOK
  <2>4. Len(file) \in Nat /\ DOMAIN g = 1 .. Len(file) /\ n \in Nat
    BY <2>3, LenProperties
  <2>5. \A k \in 1 .. n : g[k] = file[k]
    <3>1. \A k \in 1 .. n : k \in DOMAIN g
      BY <2>1, <2>4
    <3> QED  BY <2>1, <2>3, <3>1 DEF Between
  <2>6. EndedBy(g, n) = EndedBy(file, n) /\ RecordsOf(g, EndedBy(g, n)) = sure[p]
    <3>1. n <= Len(file) /\ n <= Len(g)
      BY <2>1, <2>3, <2>4
    <3> QED  BY <2>1, <2>3, <2>4, <2>5, <3>1, SamePrefix
  <2>7. PICK size \in Nat :
          /\ size <= Len(ReadRecords(g)) /\ sure[p] = SubSeq(ReadRecords(g), 1, size)
          /\ Len(sure[p]) = size /\ sure[p] \in Seq(Seq(Pieces(started)))
    <3>1. /\ Cardinality(EndedBy(g, n)) \in 0 .. Len(ReadRecords(g))
          /\ RecordsOf(g, EndedBy(g, n)) = SubSeq(ReadRecords(g), 1, Cardinality(EndedBy(g, n)))
          /\ RecordsOf(g, EndedBy(g, n)) \in Seq(Seq(Pieces(started)))
          /\ Len(RecordsOf(g, EndedBy(g, n))) = Cardinality(EndedBy(g, n))
      BY <2>3, <2>4, PrefixRecords
    <3>2. PICK all \in Nat : all = Len(ReadRecords(g))
      BY <2>3, LoadFacts, LenProperties
    <3>3. PICK size : size = Cardinality(EndedBy(g, n))
      OBVIOUS
    <3>4. size \in Nat /\ size <= all
      BY <3>1, <3>2, <3>3
    <3>5. /\ sure[p] = SubSeq(ReadRecords(g), 1, size) /\ Len(sure[p]) = size
          /\ sure[p] \in Seq(Seq(Pieces(started)))
      BY <2>6, <3>1, <3>3, Zenon
    <3> QED  BY <3>2, <3>4, <3>5
  <2>8. SubSeq(sure[p], 1, size) = sure[p]
    <3>1. PICK s \in Seq(Seq(Pieces(started))) : s = sure[p] /\ Len(s) = size
      BY <2>7
    <3>2. \A k \in 1 .. size : s[k] \in Seq(Pieces(started))
      BY <3>1, ElementOfSeq
    <3>3. /\ SubSeq(s, 1, size) \in Seq(Seq(Pieces(started)))
          /\ Len(SubSeq(s, 1, size)) = IF 1 <= size THEN size - 1 + 1 ELSE 0
          /\ \A k \in 1 .. size - 1 + 1 : SubSeq(s, 1, size)[k] = s[1 + k - 1]
      BY <3>2, SubSeqProperties
    <3>4. Len(SubSeq(s, 1, size)) = size
      BY <3>3
    <3>5. \A k \in 1 .. size : SubSeq(s, 1, size)[k] = s[k]
      <4>1. \A k \in 1 .. size : k \in 1 .. size - 1 + 1 /\ 1 + k - 1 = k
        OBVIOUS
      <4> QED  BY <3>3, <4>1
    <3>6. SubSeq(s, 1, size) = s
      BY <3>1, <3>3, <3>4, <3>5, SeqEqual
    <3> QED  BY <3>1, <3>6
  <2>9. Promise!IsPrefix(sure[p], ReadRecords(g))
    BY <2>7, <2>8 DEF Promise!IsPrefix
  <2>10. ReadRecords(g) \in Seq(Seq(Records \X (1..4)))
    <3>1. ReadRecords(g) \in Seq(Seq(Pieces(started)))
      BY <2>3, LoadFacts
    <3>2. Seq(Seq(Pieces(started))) \subseteq Seq(Seq(Records \X (1..4)))
      BY LogType, SeqMonotonic
    <3> QED  BY <3>1, <3>2
  <2> QED  BY <1>2, <2>2, <2>9, <2>10
<1> QED  BY <1>1, <1>2

(* A step that writes nothing takes nobody's view nor puts what is firm in   *)
(* reach.                                                                    *)
LEMMA Settles ==
    ASSUME MemoryInv, MemoryInv', UNCHANGED <<atomic, file, views, sure>>,
           \A q \in Processes :
              pc'[q] = "sought" => at'[q] = Len(file) \/ (pc[q] = "sought" /\ at'[q] = at[q])
    PROVE  Promise!Settle
<1>1. Len(file) \in Nat
  BY FileFacts
<1>2. Len(file) <= Len(file')
  BY <1>1
<1>3. \A n \in 0 .. Len(file) : Beyond(n) => Beyond(n)' /\ \A k \in 1 .. n : file'[k] = file[k]
  BY <1>1 DEF Beyond
<1>4. Promise!Firmer
  BY <1>2, <1>3, FirmGrows
<1>5. ReadRecords(file') = ReadRecords(file)
  OBVIOUS
<1> QED  BY <1>4, <1>5 DEF Promise!Settle

LEMMA SameFirm ==
    ASSUME UNCHANGED file, \A q \in Processes : (pc'[q] = "sought" <=> pc[q] = "sought")
                                                /\ (pc[q] = "sought" => at'[q] = at[q])
    PROVE  FirmLines' = FirmLines /\ ReadRecords(file') = ReadRecords(file)
<1>1. \A n : Beyond(n)' <=> Beyond(n)
  BY DEF Beyond
<1> QED  BY <1>1 DEF FirmLines

LEMMA StepImplemented ==
    MemoryInv /\ MemoryInv' /\ [Next]_vars => [Promise!Next]_(Promise!vars)
<1> SUFFICES ASSUME MemoryInv, MemoryInv', [Next]_vars
             PROVE  Promise!Next \/ UNCHANGED Promise!vars
  OBVIOUS
<1>a. /\ pc \in [Processes -> {"idle", "loading", "writing", "sought", "written"}]
      /\ at \in [Processes -> 0 .. Len(file)]
      /\ DOMAIN sure = Processes /\ sure = [q \in Processes |-> sure[q]]
      /\ DOMAIN views = Processes /\ views = [q \in Processes |-> views[q]]
      /\ DOMAIN views' = Processes /\ views' = [q \in Processes |-> views'[q]]
  BY DEF MemoryInv, TypeOK
<1>b. \A q \in Processes : (pc[q] # "loading" => sure[q] = <<>>) /\ (pc[q] # "idle" => views[q] = <<>>)
  BY DEF MemoryInv, ReaderOK
<1>1. CASE UNCHANGED vars
  <2>1. FirmLines' = FirmLines /\ ReadRecords(file') = ReadRecords(file)
    BY <1>1, SameFirm DEF vars, file_vars, write_vars
  <2> QED  BY <1>1, <2>1 DEF vars, read_vars, Promise!vars
<1>2. ASSUME NEW p \in Processes, Load(p)
      PROVE  Promise!Begin(p)
  <2>1. /\ UNCHANGED <<atomic, file, at>> /\ pc[p] \in {"idle", "written"}
        /\ pc' = [pc EXCEPT ![p] = "loading"]
        /\ sure' = [sure EXCEPT ![p] = RecordsOf(file, FirmLines)]
        /\ views' = [views EXCEPT ![p] = <<>>]
    BY <1>2 DEF Load, Goto, file_vars, write_vars
  <2>2. \A q \in Processes : (pc'[q] = "sought" <=> pc[q] = "sought") /\ at'[q] = at[q]
    BY <1>a, <2>1
  <2>3. FirmLines' = FirmLines /\ ReadRecords(file') = ReadRecords(file)
    BY <2>1, <2>2, SameFirm
  <2>4. RecordsOf(file, FirmLines) = SubSeq(ReadRecords(file), 1, Cardinality(FirmLines))
    BY FirmFacts
  <2> QED  BY <2>1, <2>3, <2>4 DEF Promise!Begin
<1>3. ASSUME NEW p \in Processes, ReadOn(p)
      PROVE  UNCHANGED Promise!vars
  <2>1. UNCHANGED <<atomic, file, pc, at, views, sure>>
    BY <1>3 DEF ReadOn, file_vars, write_vars
  <2>2. FirmLines' = FirmLines /\ ReadRecords(file') = ReadRecords(file)
    BY <2>1, SameFirm
  <2> QED  BY <2>1, <2>2 DEF Promise!vars
<1>4. ASSUME NEW p \in Processes, EndLoad(p)
      PROVE  Promise!Read(p) \/ Promise!Leave(p)
  <2>1. /\ UNCHANGED <<atomic, file, at>> /\ pc[p] = "loading"
        /\ pc' = [pc EXCEPT ![p] = "idle"] /\ sure' = [sure EXCEPT ![p] = <<>>]
        /\ views' = views \/ views' = [views EXCEPT ![p] = ReadRecords(AllTaken(p))]
    BY <1>4 DEF EndLoad, Goto, file_vars, write_vars
  <2>2. \A q \in Processes : (pc'[q] = "sought" <=> pc[q] = "sought") /\ at'[q] = at[q]
    BY <1>a, <2>1
  <2>3. FirmLines' = FirmLines /\ ReadRecords(file') = ReadRecords(file)
    BY <2>1, <2>2, SameFirm
  <2>4. CASE views' = views
    <3>1. views' = [views EXCEPT ![p] = <<>>]
      BY <1>a, <1>b, <2>1, <2>4
    <3> QED  BY <2>1, <2>3, <3>1 DEF Promise!Leave
  <2>5. CASE views' = [views EXCEPT ![p] = ReadRecords(AllTaken(p))]
    <3>1. views'[p] = ReadRecords(AllTaken(p)) /\ views' = [views EXCEPT ![p] = views'[p]]
      BY <1>a, <2>5
    <3>2. views'[p] = ReadRecords(file) \/ Promise!Mixed(p)
      BY <2>1, <3>1, LoadGives DEF Promise!Mixed
    <3> QED  BY <2>1, <2>3, <3>1, <3>2 DEF Promise!Read
  <2> QED  BY <2>1, <2>4, <2>5
<1>5. ASSUME NEW p \in Processes, Open(p)
      PROVE  Promise!Leave(p)
  <2>1. /\ UNCHANGED <<atomic, file, at, sure>> /\ pc[p] = "idle"
        /\ pc' = [pc EXCEPT ![p] = "writing"] /\ views' = [views EXCEPT ![p] = <<>>]
    BY <1>5 DEF Open, Goto, file_vars
  <2>2. \A q \in Processes : (pc'[q] = "sought" <=> pc[q] = "sought") /\ at'[q] = at[q]
    BY <1>a, <2>1
  <2>3. FirmLines' = FirmLines /\ ReadRecords(file') = ReadRecords(file)
    BY <2>1, <2>2, SameFirm
  <2>4. sure' = [sure EXCEPT ![p] = <<>>]
    BY <1>a, <1>b, <2>1
  <2> QED  BY <2>1, <2>3, <2>4 DEF Promise!Leave
<1>6. ASSUME NEW p \in Processes, Seek(p)
      PROVE  Promise!Settle
  <2>1. /\ UNCHANGED <<atomic, file, views, sure>>
        /\ pc' = [pc EXCEPT ![p] = "sought"] /\ at' = [at EXCEPT ![p] = Len(file)]
    BY <1>6 DEF Seek, Goto, file_vars, read_vars
  <2>2. \A q \in Processes :
           pc'[q] = "sought" => at'[q] = Len(file) \/ (pc[q] = "sought" /\ at'[q] = at[q])
    BY <1>a, <2>1
  <2> QED  BY <2>1, <2>2, Settles
<1>7. ASSUME NEW p \in Processes, Abandon(p)
      PROVE  Promise!Settle \/ Promise!Leave(p)
  <2>1. /\ UNCHANGED <<atomic, file, views>> /\ pc[p] # "idle"
        /\ pc' = [pc EXCEPT ![p] = "idle"] /\ at' = [at EXCEPT ![p] = 0]
        /\ sure' = [sure EXCEPT ![p] = <<>>]
    BY <1>7 DEF Abandon, Goto, file_vars
  <2>2. CASE pc[p] = "loading"
    <3>1. \A q \in Processes : (pc'[q] = "sought" <=> pc[q] = "sought")
                               /\ (pc[q] = "sought" => at'[q] = at[q])
      BY <1>a, <2>1, <2>2
    <3>2. FirmLines' = FirmLines /\ ReadRecords(file') = ReadRecords(file)
      BY <2>1, <3>1, SameFirm
    <3>3. views' = [views EXCEPT ![p] = <<>>]
      BY <1>a, <1>b, <2>1
    <3> QED  BY <2>1, <3>2, <3>3 DEF Promise!Leave
  <2>3. CASE pc[p] # "loading"
    <3>1. sure' = sure
      BY <1>a, <1>b, <2>1, <2>3
    <3>2. \A q \in Processes : pc'[q] = "sought" => pc[q] = "sought" /\ at'[q] = at[q]
      BY <1>a, <2>1
    <3> QED  BY <2>1, <3>1, <3>2, Settles
  <2> QED  BY <2>2, <2>3
<1>8. ASSUME NEW p \in Processes, WriteRest(p)
      PROVE  Promise!Next
  <2>1. PICK r \in started, m \in 0..3 : Lands(r, m, Size(r) - m, Place(p))
    BY <1>8, RestLands
  <2>2. PICK n \in 1..4 : n = Size(r) - m /\ Lands(r, m, n, Place(p)) /\ n <= Size(r) - m
    <3>1. Size(r) - m \in 1..4 /\ Size(r) - m <= Size(r) - m
      BY <2>1, SizeType DEF Lands
    <3> QED  BY <2>1, <3>1
  <2>3. /\ UNCHANGED <<atomic, started, views, sure>>
        /\ pc[p] = IF atomic THEN "writing" ELSE "sought"
        /\ pc' = [pc EXCEPT ![p] = "written"] /\ at' = [at EXCEPT ![p] = 0]
    BY <1>8 DEF WriteRest, Goto, read_vars
  <2>4. \A q \in Processes : pc'[q] = "sought" => pc[q] = "sought" /\ at'[q] = at[q]
    BY <1>a, <2>3
  <2>5. \A l \in 0 .. Len(file) : Beyond(l) => l <= Place(p)
    <3>1. Len(file) \in Nat /\ at[p] \in Nat
      BY <1>a, FileFacts
    <3> QED  BY <2>3, <3>1 DEF Beyond, Place
  <2>6. /\ Len(file) <= Len(file')
        /\ \A l \in 0 .. Len(file) : Beyond(l) => Beyond(l)' /\ \A k \in 1 .. l : file'[k] = file[k]
    BY <2>2, <2>4, <2>5, OutOfReach
  <2>7. CASE atomic
    <3>1. Lands(r, m, n, Len(file))
      BY <2>2, <2>7 DEF Place
    <3> QED  BY <2>2, <2>3, <2>6, <2>7, <3>1, WriteAppends DEF Promise!Next
  <2>8. CASE ~atomic
    BY <2>3, <2>6, <2>8, WriteCollides DEF Promise!Next
  <2> QED  BY <2>7, <2>8
<1>9. ASSUME NEW p \in Processes, WriteCutShort(p)
      PROVE  Promise!Next
  <2>1. PICK r \in started, m \in 0..3, n \in 1..3 :
          Lands(r, m, n, Len(file)) /\ m + n < Size(r)
    BY <1>9, PartLands
  <2>2. n \in 1..4 /\ n <= Size(r) - m
    BY <2>1, SizeType
  <2>3. UNCHANGED <<atomic, started, views, sure, pc, at>> /\ atomic
    BY <1>9 DEF WriteCutShort, read_vars
  <2>4. \A l \in 0 .. Len(file) : Beyond(l) => l <= Len(file)
    BY FileFacts
  <2>5. \A l \in 0 .. Len(file) : Beyond(l) => Beyond(l)' /\ \A k \in 1 .. l : file'[k] = file[k]
    BY <2>1, <2>2, <2>3, <2>4, OutOfReach
  <2> QED  BY <2>1, <2>2, <2>3, <2>5, WriteAppends DEF Promise!Next
<1> QED  BY <1>1, <1>2, <1>3, <1>4, <1>5, <1>6, <1>7, <1>8, <1>9 DEF Next, Promise!Next

(* Whatever writes are cut short, abandoned or meet, and whatever a load is  *)
(* overtaken by, what load finds changes only as RecordLog allows: a firm    *)
(* record stays in its place for every reader, and where appending is atomic *)
(* only the last record can be lost and a load that returns gives all.       *)
THEOREM MemoryImplementsRecordLog == Spec => ImplementsRecordLog
<1>1. Init => Promise!Init
  <2> SUFFICES ASSUME Init  PROVE  Promise!Init
    OBVIOUS
  <2>1. file = <<>> /\ RecordLines(file) = {} /\ FirmLines = {}
    BY DEF Init, RecordLines, FirmLines
  <2>2. Cardinality({}) = 0
    BY FS_EmptySet
  <2>3. ReadRecords(file) = <<>>
    <3>1. file \in Seq({})
      BY <2>1, EmptySeq
    <3>2. ReadRecords(file) \in Seq(Seq({})) /\ Len(ReadRecords(file)) = 0
      BY <2>1, <2>2, <3>1, LoadFacts
    <3> QED  BY <3>2, EmptySeq
  <2> QED  BY <2>1, <2>2, <2>3 DEF Init, Promise!Init
<1> QED  BY <1>1, StepImplemented, MemoryInvariant, PTL DEF Spec, ImplementsRecordLog, Promise!Spec
====
