---- MODULE SelectionProofs ----
(***************************************************************************)
(* Facts about members of sequences, their places, and induction over      *)
(* numbers, which other proofs cite.                                       *)
(***************************************************************************)
EXTENDS Selection, Integers, SequencesExt, FiniteSetTheorems, SequenceTheorems, TLAPS

LEMMA LeastNat ==
    ASSUME NEW T \in SUBSET Nat, T # {}
    PROVE  \E n \in T : \A m \in T : n <= m
<1> DEFINE Below == {1 .. n : n \in T}
           order == StrictSubsetOrdering(Nat)
<1>1. IsWellFoundedOn(order, FiniteSubsetsOf(Nat))
  BY FS_StrictSubsetOrderingWellFounded
<1>2. Below \subseteq FiniteSubsetsOf(Nat) /\ Below # {}
  <2>1. \A n \in T : 1 .. n \in SUBSET Nat /\ IsFiniteSet(1 .. n)
    BY FS_Interval
  <2> QED  BY <2>1 DEF FiniteSubsetsOf
<1>3. PICK b \in Below : \A c \in Below : ~(<<c, b>> \in order)
  <2> HIDE DEF Below, order
  <2> QED  BY <1>1, <1>2, WFMin
<1>4. PICK n \in T : b = 1 .. n
  OBVIOUS
<1>5. ASSUME NEW m \in T, m < n  PROVE FALSE
  <2>1. 1 .. m \subseteq 1 .. n /\ 1 .. m # 1 .. n /\ 1 .. m \in SUBSET Nat /\ 1 .. n \in SUBSET Nat
    BY <1>5
  <2>2. <<1 .. m, 1 .. n>> \in order
    BY <2>1 DEF StrictSubsetOrdering
  <2> QED  BY <1>3, <1>4, <2>2
<1> QED  BY <1>5

(* Induction, for the set of the numbers that have a property. *)
LEMMA Induction ==
    ASSUME NEW T, 0 \in T, \A n \in Nat : n \in T => n + 1 \in T
    PROVE  Nat \subseteq T
<1> SUFFICES ASSUME Nat \ T # {}  PROVE FALSE
  OBVIOUS
<1>1. PICK n \in Nat \ T : \A m \in Nat \ T : n <= m
  BY LeastNat
<1>2. n # 0 /\ n - 1 \in Nat /\ n - 1 \in T
  BY <1>1
<1> QED  BY <1>1, <1>2

----
LEMMA RankType ==
    ASSUME NEW S \in SUBSET Nat, IsFiniteSet(S), NEW i \in S
    PROVE  Rank(S, i) \in 1 .. Cardinality(S)
<1> DEFINE upto == {j \in S : j <= i}
<1>1. IsFiniteSet(upto) /\ Cardinality(upto) <= Cardinality(S)
  BY FS_Subset
<1>2. upto # {}
  OBVIOUS
<1>3. Cardinality(upto) \in Nat /\ Cardinality(upto) # 0 /\ Cardinality(S) \in Nat
  BY <1>1, <1>2, FS_CardinalityType, FS_EmptySet
<1> QED  BY <1>1, <1>3 DEF Rank

LEMMA RankInjective ==
    ASSUME NEW S \in SUBSET Nat, IsFiniteSet(S),
           NEW i \in S, NEW j \in S, i < j
    PROVE  Rank(S, i) < Rank(S, j)
<1> DEFINE U(k) == {l \in S : l <= k}
<1>1. IsFiniteSet(U(j)) /\ U(i) \in SUBSET U(j) /\ U(i) # U(j)
  <2>1. U(j) \in SUBSET S /\ j \in U(j) /\ j \notin U(i)
    OBVIOUS
  <2>2. \A l \in Nat : l <= i => l <= j
    OBVIOUS
  <2>3. U(i) \in SUBSET U(j)
    BY <2>2
  <2> QED  BY <2>1, <2>3, FS_Subset
<1>2. Cardinality(U(i)) <= Cardinality(U(j)) /\ Cardinality(U(i)) # Cardinality(U(j))
  BY <1>1, FS_Subset
<1>3. Cardinality(U(i)) \in Nat /\ Cardinality(U(j)) \in Nat
  BY <1>1, FS_Subset, FS_CardinalityType
<1> QED  BY <1>2, <1>3 DEF Rank

LEMMA EveryRank ==
    ASSUME NEW S \in SUBSET Nat, IsFiniteSet(S), NEW n \in 1 .. Cardinality(S)
    PROVE  \E i \in S : Rank(S, i) = n
<1> DEFINE size == Cardinality(S)
           ranks == [i \in S |-> Rank(S, i)]
<1>1. size \in Nat
  BY FS_CardinalityType
<1>2. IsFiniteSet(1 .. size) /\ Cardinality(1 .. size) = size
  BY <1>1, FS_Interval
<1>3. ranks \in [S -> 1 .. size]
  BY RankType
<1>4. \A i, j \in S : ranks[i] = ranks[j] => i = j
  <2> SUFFICES ASSUME NEW i \in S, NEW j \in S, i < j
               PROVE  ranks[i] # ranks[j]
    OBVIOUS
  <2>1. Rank(S, i) < Rank(S, j) /\ Rank(S, i) \in Int
    BY RankInjective, RankType, <1>1
  <2> QED  BY <2>1
<1>5. ranks \in Injection(S, 1 .. size)
  BY <1>3, <1>4 DEF Injection, IsInjective
<1>6. ranks \in Surjection(S, 1 .. size)
  <2> HIDE DEF ranks
  <2> QED  BY <1>2, <1>5, FS_Injection
<1> QED  BY <1>6 DEF Surjection

LEMMA NthMember ==
    ASSUME NEW S \in SUBSET Nat, IsFiniteSet(S), NEW n \in 1 .. Cardinality(S)
    PROVE  /\ Nth(S, n) \in S /\ Rank(S, Nth(S, n)) = n
           /\ \A i \in S : Rank(S, i) = n => i = Nth(S, n)
<1>1. Nth(S, n) \in S /\ Rank(S, Nth(S, n)) = n
  BY EveryRank DEF Nth
<1>2. ASSUME NEW i \in S, NEW j \in S, Rank(S, i) = n, Rank(S, j) = n, i # j
      PROVE  FALSE
  <2>1. Rank(S, i) < Rank(S, j) \/ Rank(S, j) < Rank(S, i)
    BY <1>2, RankInjective
  <2> QED  BY <1>2, <2>1
<1> QED  BY <1>1, <1>2

LEMMA NthOrder ==
    ASSUME NEW S \in SUBSET Nat, IsFiniteSet(S),
           NEW m \in 1 .. Cardinality(S), NEW n \in 1 .. Cardinality(S), m < n
    PROVE  Nth(S, m) < Nth(S, n)
<1>1. /\ Nth(S, m) \in S /\ Rank(S, Nth(S, m)) = m
      /\ Nth(S, n) \in S /\ Rank(S, Nth(S, n)) = n
  BY NthMember
<1>2. Rank(S, Nth(S, m)) < Rank(S, Nth(S, n)) /\ Nth(S, m) # Nth(S, n)
  BY <1>1
<1>3. ASSUME Nth(S, n) < Nth(S, m)  PROVE FALSE
  <2>1. Rank(S, Nth(S, n)) < Rank(S, Nth(S, m))
    BY <1>1, <1>3, RankInjective
  <2> QED  BY <1>1, <2>1
<1>4. Nth(S, m) \in Nat /\ Nth(S, n) \in Nat
  BY <1>1
<1> QED  BY <1>2, <1>3, <1>4

(* Nothing that is selected lies between two that follow each other. *)
LEMMA NthNext ==
    ASSUME NEW S \in SUBSET Nat, IsFiniteSet(S), NEW n \in 1 .. Cardinality(S) - 1,
           NEW i \in S, Nth(S, n) < i
    PROVE  Nth(S, n + 1) <= i
<1>1. Cardinality(S) \in Nat
  BY FS_CardinalityType
<1>2. n \in 1 .. Cardinality(S) /\ n + 1 \in 1 .. Cardinality(S)
  BY <1>1
<1>3. /\ Nth(S, n) \in S /\ Rank(S, Nth(S, n)) = n
      /\ Nth(S, n + 1) \in S /\ Rank(S, Nth(S, n + 1)) = n + 1
  BY <1>2, NthMember
<1>4. n < Rank(S, i) /\ Rank(S, i) \in Int
  <2>1. Rank(S, Nth(S, n)) < Rank(S, i)
    BY <1>3, RankInjective
  <2>2. Rank(S, i) \in 1 .. Cardinality(S)
    BY RankType
  <2> QED  BY <1>1, <1>3, <2>1, <2>2
<1>5. ASSUME i < Nth(S, n + 1)  PROVE FALSE
  <2>1. Rank(S, i) < n + 1
    BY <1>3, <1>5, RankInjective
  <2> QED  BY <1>4, <2>1
<1>6. i \in Nat /\ Nth(S, n + 1) \in Nat
  BY <1>3
<1> QED  BY <1>5, <1>6

LEMMA SelectedMembers ==
    ASSUME NEW S \in SUBSET Nat, IsFiniteSet(S), NEW T, NEW s, \A i \in S : s[i] \in T
    PROVE  /\ Cardinality(S) \in Nat
           /\ Selected(s, S) \in Seq(T) /\ Len(Selected(s, S)) = Cardinality(S)
           /\ \A n \in 1 .. Cardinality(S) :
                Nth(S, n) \in S /\ Selected(s, S)[n] = s[Nth(S, n)]
           /\ \A i \in S : Rank(S, i) \in 1 .. Cardinality(S) /\ Nth(S, Rank(S, i)) = i
           /\ Range(Selected(s, S)) = {s[i] : i \in S}
<1> DEFINE size == Cardinality(S)
           chosen == [n \in 1 .. size |-> s[Nth(S, n)]]
<1>1. Selected(s, S) = chosen
  BY DEF Selected
<1>2. size \in Nat
  BY FS_CardinalityType
<1>3. \A n \in 1 .. size : Nth(S, n) \in S
  BY NthMember
<1>4. chosen \in [1 .. size -> T]
  BY <1>3
<1>5. chosen \in Seq(T)
  BY <1>2, <1>4, SeqDef
<1>6. Len(chosen) = size
  BY <1>2, <1>4, <1>5, LenProperties
<1>7. ASSUME NEW i \in S  PROVE Rank(S, i) \in 1 .. size /\ Nth(S, Rank(S, i)) = i
  <2>1. Rank(S, i) \in 1 .. size
    BY RankType
  <2> QED  BY <2>1, NthMember
<1>8. Range(chosen) = {s[i] : i \in S}
  <2>1. \A i \in S : \E n \in 1 .. size : Nth(S, n) = i
    BY <1>7
  <2> QED  BY <1>3, <2>1 DEF Range
<1> QED  BY <1>1, <1>2, <1>3, <1>5, <1>6, <1>7, <1>8

(* Places are kept apart, and so is what is different at them. *)
LEMMA SelectedDistinct ==
    ASSUME NEW S \in SUBSET Nat, IsFiniteSet(S), NEW T, NEW s, \A i \in S : s[i] \in T,
           \A i, j \in S : s[i] = s[j] => i = j
    PROVE  IsInjective(Selected(s, S))
<1>1. /\ Cardinality(S) \in Nat /\ DOMAIN Selected(s, S) = 1 .. Cardinality(S)
      /\ \A n \in 1 .. Cardinality(S) : Nth(S, n) \in S /\ Selected(s, S)[n] = s[Nth(S, n)]
  BY SelectedMembers, FS_CardinalityType DEF Selected
<1>2. ASSUME NEW m \in 1 .. Cardinality(S), NEW n \in 1 .. Cardinality(S),
             Nth(S, m) = Nth(S, n)
      PROVE  m = n
  BY <1>2, NthMember
<1>3. ASSUME NEW m \in 1 .. Cardinality(S), NEW n \in 1 .. Cardinality(S),
             Selected(s, S)[m] = Selected(s, S)[n]
      PROVE  m = n
  <2>1. s[Nth(S, m)] = s[Nth(S, n)] /\ Nth(S, m) \in S /\ Nth(S, n) \in S
    BY <1>1, <1>3
  <2> QED  BY <1>2, <2>1
<1> QED  BY <1>1, <1>3 DEF IsInjective

(* The first k places are their own ranks. *)
LEMMA NthOfFirst ==
    ASSUME NEW S \in SUBSET (Nat \ {0}), IsFiniteSet(S), NEW k \in Nat, 1 .. k \subseteq S
    PROVE  k <= Cardinality(S) /\ \A i \in 1 .. k : Nth(S, i) = i
<1>1. k <= Cardinality(S)
  <2>1. Cardinality(1 .. k) = k
    BY FS_Interval
  <2> QED  BY <2>1, FS_Subset
<1>2. ASSUME NEW i \in 1 .. k  PROVE Nth(S, i) = i
  <2>1. {j \in S : j <= i} = 1 .. i
    <3>1. \A j \in S : j <= i => j \in 1 .. i
      OBVIOUS
    <3>2. \A j \in 1 .. i : j \in 1 .. k /\ j <= i
      OBVIOUS
    <3> QED  BY <3>1, <3>2
  <2>2. Rank(S, i) = i /\ i \in S
    <3>1. Cardinality(1 .. i) = i
      BY FS_Interval
    <3> QED  BY <2>1, <3>1 DEF Rank
  <2>3. i \in 1 .. Cardinality(S)
    BY <1>1, FS_CardinalityType
  <2> QED  BY <2>2, <2>3, NthMember
<1> QED  BY <1>1, <1>2

LEMMA DistinctCardinality ==
    ASSUME NEW T, NEW s \in Seq(T), IsInjective(s)
    PROVE  IsFiniteSet(Range(s)) /\ Cardinality(Range(s)) = Len(s)
<1>1. Len(s) \in Nat /\ DOMAIN s = 1 .. Len(s) /\ s \in [1 .. Len(s) -> Range(s)]
  BY LenProperties DEF Range
<1>2. s \in Bijection(1 .. Len(s), Range(s))
  BY <1>1 DEF Bijection, Injection, Surjection, Range
<1>3. IsFiniteSet(1 .. Len(s)) /\ Cardinality(1 .. Len(s)) = Len(s)
  BY <1>1, FS_Interval
<1>4. ExistsBijection(1 .. Len(s), Range(s))
  BY <1>2 DEF ExistsBijection
<1> QED  BY <1>3, <1>4, FS_Bijection

----
Steps(n, States) == [1 .. n -> [States -> States]]

IsLoop(f, n, base, step) == f[0] = base /\ \A i \in 1 .. n : f[i] = step[i][f[i - 1]]

(* A loop of n steps has its states, ... *)
LEMMA LoopRuns ==
    ASSUME NEW n \in Nat, NEW States, NEW base \in States, NEW step \in Steps(n, States)
    PROVE  \E f \in [0 .. n -> States] : IsLoop(f, n, base, step)
<1> DEFINE Runs(f, m) == f[0] = base /\ \A i \in 1 .. m : f[i] = step[i][f[i - 1]]
           T == {m \in Nat : m <= n => \E f \in [0 .. m -> States] : Runs(f, m)}
<1>1. 0 \in T
  <2>1. [i \in 0 .. 0 |-> base] \in [0 .. 0 -> States] /\ Runs([i \in 0 .. 0 |-> base], 0)
    OBVIOUS
  <2> QED  BY <2>1
<1>2. ASSUME NEW m \in Nat, m \in T  PROVE m + 1 \in T
  <2> SUFFICES ASSUME m + 1 <= n  PROVE \E f \in [0 .. m + 1 -> States] : Runs(f, m + 1)
    OBVIOUS
  <2>1. PICK f \in [0 .. m -> States] : Runs(f, m)
    BY <1>2
  <2> DEFINE g == [i \in 0 .. m + 1 |-> IF i = m + 1 THEN step[m + 1][f[m]] ELSE f[i]]
  <2>2. f[m] \in States /\ step[m + 1] \in [States -> States]
    BY DEF Steps
  <2>3. g \in [0 .. m + 1 -> States]
    BY <2>2
  <2>4. Runs(g, m + 1)
    <3>1. g[0] = base
      BY <2>1
    <3>2. ASSUME NEW i \in 1 .. m + 1  PROVE g[i] = step[i][g[i - 1]]
      <4>1. CASE i = m + 1
        BY <4>1
      <4>2. CASE i \in 1 .. m
        <5>1. g[i] = f[i] /\ g[i - 1] = f[i - 1]
          BY <4>2
        <5> QED  BY <2>1, <4>2, <5>1
      <4> QED  BY <4>1, <4>2
    <3> HIDE DEF g
    <3> QED  BY <3>1, <3>2
  <2> QED  BY <2>3, <2>4
<1>3. Nat \subseteq T
  <2> HIDE DEF T
  <2> QED  BY <1>1, <1>2, Induction
<1> QED  BY <1>3 DEF IsLoop

(* ... and what is so at its start, and after a step if before it, stays so. *)
LEMMA LoopKeeps ==
    ASSUME NEW n \in Nat, NEW T, 0 \in T, \A i \in 1 .. n : i - 1 \in T => i \in T
    PROVE  0 .. n \subseteq T
<1> DEFINE U == {i \in Nat : i <= n => i \in T}
<1>1. 0 \in U /\ \A i \in Nat : i \in U => i + 1 \in U
  <2>1. ASSUME NEW i \in Nat, i \in U, i + 1 <= n  PROVE i + 1 \in T
    <3>1. i + 1 \in 1 .. n /\ (i + 1) - 1 = i /\ i \in T
      BY <2>1
    <3> QED  BY <3>1
  <2> QED  BY <2>1
<1>2. Nat \subseteq U
  <2> HIDE DEF U
  <2> QED  BY <1>1, Induction
<1> QED  BY <1>2

(* FlattenSeq is a loop that appends one sequence after the other.           *)
LEMMA FlattenRuns ==
    ASSUME NEW T, NEW seqs \in Seq(Seq(T))
    PROVE  \E f \in [0 .. Len(seqs) -> Seq(T)] :
             /\ f[0] = <<>> /\ f[Len(seqs)] = FlattenSeq(seqs)
             /\ \A i \in 1 .. Len(seqs) : f[i] = f[i - 1] \o seqs[i]
<1> DEFINE n == Len(seqs)
           Step(f, i) == IF i = 1 THEN seqs[i] ELSE f[i - 1] \o seqs[i]
           flatten == CHOOSE f : f = [i \in 1 .. n |-> Step(f, i)]
<1>1. n \in Nat /\ \A i \in 1 .. n : seqs[i] \in Seq(T)
  BY ElementOfSeq
<1>2. CASE n = 0
  <2>1. FlattenSeq(seqs) = <<>>
    BY <1>2, EmptySeq DEF FlattenSeq
  <2> DEFINE f == [i \in {0} |-> <<>>]
  <2>2. f[0] = <<>> /\ 0 .. n = {0} /\ 1 .. n = {} /\ <<>> \in Seq(T)
    BY <1>2, EmptySeq
  <2>3. f \in [0 .. n -> Seq(T)]
    BY <2>2
  <2>4. f[n] = FlattenSeq(seqs)
    BY <1>2, <2>1, <2>2
  <2> HIDE DEF f
  <2> QED  BY <2>1, <2>2, <2>3, <2>4
<1>3. CASE n # 0
  <2>1. FlattenSeq(seqs) = flatten[n]
    BY <1>3 DEF FlattenSeq
  <2> DEFINE step == [i \in 1 .. n |-> [s \in Seq(T) |-> s \o seqs[i]]]
  <2>2. step \in Steps(n, Seq(T))
    BY <1>1, ConcatProperties DEF Steps
  <2>3. PICK f \in [0 .. n -> Seq(T)] : IsLoop(f, n, <<>>, step)
    <3>1. n \in Nat /\ <<>> \in Seq(T)
      BY <1>1, EmptySeq
    <3> HIDE DEF step, n
    <3> QED  BY <2>2, <3>1, LoopRuns
  <2> HIDE DEF n
  <2>4. ASSUME NEW i \in 1 .. n  PROVE f[i] = f[i - 1] \o seqs[i]
    <3>1. i - 1 \in 0 .. n
      BY <1>1
    <3> QED  BY <2>3, <3>1 DEF IsLoop
  <2>5. 1 \in 1 .. n /\ f[1] = seqs[1]
    <3>1. 1 \in 1 .. n /\ 1 - 1 = 0
      BY <1>1, <1>3
    <3>2. f[1] = <<>> \o seqs[1]
      BY <2>3, <2>4, <3>1 DEF IsLoop
    <3> QED  BY <1>1, <3>1, <3>2, ConcatEmptySeq
  <2> DEFINE g == [i \in 1 .. n |-> f[i]]
  <2>6. g = [i \in 1 .. n |-> Step(g, i)]
    <3> SUFFICES ASSUME NEW i \in 1 .. n  PROVE f[i] = Step(g, i)
      OBVIOUS
    <3>1. CASE i = 1
      BY <2>5, <3>1
    <3>2. CASE i # 1
      <4>1. i - 1 \in 1 .. n
        BY <1>1, <3>2
      <4> QED  BY <2>4, <3>2, <4>1
    <3> QED  BY <3>1, <3>2
  <2>7. flatten = [i \in 1 .. n |-> Step(flatten, i)]
    <3> HIDE DEF g, Step
    <3> QED  BY <2>6
  <2>8. ASSUME NEW i \in 1 .. n  PROVE flatten[i] = Step(flatten, i)
    <3> HIDE DEF flatten, Step
    <3> QED  BY <2>7
  <2> HIDE DEF flatten
  <2> DEFINE h == [i \in 0 .. n |-> IF i = 0 THEN <<>> ELSE flatten[i]]
  <2>9. ASSUME NEW i \in 1 .. n  PROVE h[i] = h[i - 1] \o seqs[i]
    <3>1. h[i] = Step(flatten, i)
      <4> HIDE DEF Step
      <4> QED  BY <1>1, <2>8
    <3>2. CASE i = 1
      <4>1. h[i - 1] = <<>> /\ h[i] = seqs[i]
        BY <1>1, <3>1, <3>2
      <4> HIDE DEF h
      <4> QED  BY <1>1, <4>1, ConcatEmptySeq
    <3>3. CASE i # 1
      <4>1. i - 1 \in 1 .. n
        BY <1>1, <3>3
      <4>2. h[i - 1] = flatten[i - 1]
        BY <4>1
      <4> HIDE DEF h
      <4> QED  BY <3>1, <3>3, <4>2
    <3> QED  BY <3>2, <3>3
  <2>10. h[0] = <<>> /\ h[n] = FlattenSeq(seqs)
    BY <1>1, <1>3, <2>1
  <2>11. 0 .. n \subseteq {i \in 0 .. n : h[i] \in Seq(T)}
    <3> HIDE DEF h
    <3>1. \A i \in 1 .. n : h[i - 1] \in Seq(T) => h[i] \in Seq(T)
      BY <1>1, <2>9, ConcatProperties
    <3>2. 0 \in 0 .. n /\ h[0] \in Seq(T)
      BY <1>1, <2>10, EmptySeq
    <3>3. \A i \in 1 .. n : i - 1 \in 0 .. n /\ i \in 0 .. n
      BY <1>1
    <3> QED  BY <1>1, <3>1, <3>2, <3>3, LoopKeeps
  <2>12. h \in [0 .. n -> Seq(T)]
    BY <2>11
  <2> HIDE DEF h
  <2> QED  BY <2>9, <2>10, <2>12 DEF n
<1> QED  BY <1>2, <1>3

LEMMA FlattenMembers ==
    ASSUME NEW T, NEW seqs \in Seq(Seq(T))
    PROVE  /\ FlattenSeq(seqs) \in Seq(T)
           /\ Range(FlattenSeq(seqs)) = UNION {Range(seqs[i]) : i \in 1 .. Len(seqs)}
           /\ Len(seqs) > 0 =>
                /\ Len(seqs[1]) <= Len(FlattenSeq(seqs))
                /\ \A j \in 1 .. Len(seqs[1]) : FlattenSeq(seqs)[j] = seqs[1][j]
<1> DEFINE n == Len(seqs)
           Members(m) == UNION {Range(seqs[i]) : i \in 1 .. m}
<1>1. n \in Nat /\ \A i \in 1 .. n : seqs[i] \in Seq(T)
  BY ElementOfSeq
<1>2. PICK f \in [0 .. n -> Seq(T)] :
         /\ f[0] = <<>> /\ f[n] = FlattenSeq(seqs)
         /\ \A i \in 1 .. n : f[i] = f[i - 1] \o seqs[i]
  BY FlattenRuns
<1>3. \A i \in 0 .. n : f[i] \in Seq(T)
  OBVIOUS
<1>4. ASSUME NEW i \in 1 .. n
      PROVE  i - 1 \in 0 .. n /\ i \in 0 .. n /\ f[i] = f[i - 1] \o seqs[i]
             /\ f[i - 1] \in Seq(T) /\ seqs[i] \in Seq(T)
  <2>1. i - 1 \in 0 .. n /\ i \in 0 .. n
    BY <1>1
  <2>2. f[i] = f[i - 1] \o seqs[i]
    BY <1>2
  <2>3. f[i - 1] \in Seq(T)
    BY <1>3, <2>1
  <2>4. seqs[i] \in Seq(T)
    BY <1>1
  <2> QED  BY <2>1, <2>2, <2>3, <2>4
<1> HIDE DEF n
<1>5. 0 .. n \subseteq {i \in 0 .. n : Range(f[i]) = Members(i)}
  <2> DEFINE K == {i \in 0 .. n : Range(f[i]) = Members(i)}
  <2>1. 0 \in K
    <3>1. Range(<<>>) = {} /\ Members(0) = {}
      BY DEF Range
    <3> QED  BY <1>1, <1>2, <3>1
  <2>2. ASSUME NEW i \in 1 .. n, i - 1 \in K  PROVE i \in K
    <3> DEFINE before == f[i - 1]
               here == seqs[i]
    <3>0. f[i] = before \o here /\ before \in Seq(T) /\ here \in Seq(T)
      BY <1>4
    <3>1. Range(f[i]) = Range(before) \cup Range(here)
      <4> HIDE DEF before, here
      <4> QED  BY <3>0, RangeConcatenation
    <3>2. 1 .. i = 1 .. i - 1 \cup {i}
      BY <1>1
    <3>3. Members(i) = Members(i - 1) \cup Range(seqs[i])
      BY <3>2
    <3> HIDE DEF Members
    <3> QED  BY <1>4, <2>2, <3>1, <3>3
  <2>3. \A i \in 1 .. n : i - 1 \in K => i \in K
    BY <2>2
  <2>4. 0 .. n \subseteq K
    <3> HIDE DEF K
    <3> QED  BY <1>1, <2>1, <2>3, LoopKeeps
  <2> QED  BY <2>4
<1>6. Range(f[n]) = Members(n)
  BY <1>1, <1>5
<1>7. ASSUME n > 0
      PROVE  /\ Len(seqs[1]) <= Len(f[n])
             /\ \A j \in 1 .. Len(seqs[1]) : f[n][j] = seqs[1][j]
  <2> DEFINE Starts(t) == /\ Len(seqs[1]) <= Len(t)
                          /\ \A j \in 1 .. Len(seqs[1]) : t[j] = seqs[1][j]
             K == {i \in 0 .. n : i > 0 => Starts(f[i])}
  <2>0. seqs[1] \in Seq(T) /\ Len(seqs[1]) \in Nat
    BY <1>1, <1>7, LenProperties
  <2>1. Starts(f[1])
    <3>1. 1 \in 1 .. n /\ f[1] = <<>> \o seqs[1]
      <4>1. 1 \in 1 .. n /\ 1 - 1 = 0
        BY <1>1, <1>7
      <4> QED  BY <1>2, <1>4, <4>1
    <3>2. f[1] = seqs[1]
      BY <2>0, <3>1, ConcatEmptySeq
    <3> QED  BY <2>0, <3>2
  <2>2. ASSUME NEW i \in 1 .. n, i - 1 \in K  PROVE i \in K
    <3>1. CASE i = 1
      BY <1>1, <2>1, <3>1
    <3>2. CASE i # 1
      <4>1. Starts(f[i - 1])
        BY <2>2, <3>2
      <4> DEFINE before == f[i - 1]
                 here == seqs[i]
      <4>0. f[i] = before \o here /\ before \in Seq(T) /\ here \in Seq(T)
        BY <1>4
      <4>2. /\ Len(f[i]) = Len(before) + Len(here)
            /\ Len(before) \in Nat /\ Len(here) \in Nat
            /\ \A j \in 1 .. Len(before) : f[i][j] = before[j]
        <5> HIDE DEF before, here
        <5>1. Len(before) \in Nat /\ Len(here) \in Nat
          BY <4>0, LenProperties
        <5> QED  BY <4>0, <5>1, ConcatProperties
      <4>3. Starts(f[i])
        <5>1. Len(seqs[1]) <= Len(before) /\ \A j \in 1 .. Len(seqs[1]) : before[j] = seqs[1][j]
          BY <4>1
        <5> HIDE DEF before, here
        <5> QED  BY <2>0, <4>2, <5>1
      <4> HIDE DEF Starts
      <4> QED  BY <1>4, <4>3
    <3> QED  BY <3>1, <3>2
  <2>3. 0 .. n \subseteq K
    <3>1. 0 \in K
      BY <1>1
    <3> HIDE DEF K
    <3> QED  BY <1>1, <2>2, <3>1, LoopKeeps
  <2> QED  BY <1>1, <1>7, <2>3
<1> QED  BY <1>1, <1>2, <1>3, <1>6, <1>7 DEF n
====
