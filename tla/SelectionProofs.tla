--------------------------- MODULE SelectionProofs ---------------------------
(***************************************************************************)
(* Theorems about what is chosen: the sentences of the scenario packs       *)
(* (ScenarioMaterials), the cards of a selection and of a round             *)
(* (ReviewRules), the cards of a session and the wrong answers of a         *)
(* question (Questions).  They rest on lemmas about the sequences the code  *)
(* sorts and filters, which are proved first.                               *)
(***************************************************************************)
EXTENDS ScenarioMaterials, ReviewRules, Questions,
        SequenceTheorems, FunctionTheorems, FiniteSetTheorems, NaturalsInduction, WellFoundedInduction, TLAPS

-----------------------------------------------------------------------------
(* Lists: what sorted sets, sequences without some of their elements, folds *)
(* and flattened sequences contain.                                        *)

\* A non-empty set of numbers has a least element.
LEMMA LeastExists == ASSUME NEW S \in SUBSET Nat, S # {} PROVE \E m \in S : \A s \in S : m <= s
<1>1. PICK m \in S : \A s \in S : ~(<<s, m>> \in OpToRel(<, Nat))
  BY NatLessThanWellFounded, WFMin, Zenon
<1>2. \A s \in S : ~(s < m)
  BY <1>1 DEF OpToRel
<1> QED
  BY <1>2

\* Induction up to a number, for a set instead of a predicate.
LEMMA Climb ==
    ASSUME NEW N \in Nat, NEW P, 0 \in P, \A i \in 0..(N - 1) : i \in P => i + 1 \in P
    PROVE  \A i \in 0..N : i \in P
<1> SUFFICES ASSUME \E i \in 0..N : i \notin P PROVE FALSE
  OBVIOUS
<1> DEFINE S == {i \in 0..N : i \notin P}
<1>1. S \in SUBSET Nat /\ S # {}
  OBVIOUS
<1>2. PICK m \in S : \A i \in S : m <= i
  BY <1>1, LeastExists
<1>3. m \in Nat /\ m # 0 /\ m - 1 \in 0..(N - 1) /\ m - 1 \notin S
  BY <1>2
<1> QED
  BY <1>2, <1>3

\* The greatest number of a set that has a greatest number.
LEMMA MaxIs ==
    ASSUME NEW S \in SUBSET Nat, NEW m \in S, \A i \in S : i <= m
    PROVE  Max(S) = m
<1>1. \A i \in S : m >= i
  OBVIOUS
<1>2. Max(S) \in S /\ \A i \in S : Max(S) >= i
  BY <1>1 DEF Max
<1>3. Max(S) \in Nat /\ m \in Nat /\ Max(S) >= m /\ Max(S) <= m
  BY <1>2
<1> HIDE DEF Max
<1> QED
  BY <1>3

LEMMA MaxExists ==
    ASSUME NEW N \in Nat, NEW S \in SUBSET (1..N), S # {}
    PROVE  Max(S) \in S /\ \A i \in S : i <= Max(S)
<1> DEFINE over == {m \in Nat : \A i \in S : i <= m}
<1>1. N \in over /\ over \in SUBSET Nat
  OBVIOUS
<1>2. PICK m \in over : \A k \in over : m <= k
  <2> HIDE DEF over
  <2> QED
    BY <1>1, LeastExists
<1>3. m \in S
  <2> SUFFICES ASSUME m \notin S PROVE FALSE
    OBVIOUS
  <2>1. \A i \in S : i \in Nat /\ i >= 1 /\ i <= m /\ i # m
    BY <1>2
  <2>2. m \in Nat /\ m # 0 /\ \A i \in S : i <= m - 1
    <3>1. m \in Nat
      OBVIOUS
    <3>2. \A i \in S : i <= m - 1
      BY <2>1, <3>1
    <3>3. PICK i \in S : TRUE
      OBVIOUS
    <3> QED
      BY <2>1, <3>1, <3>2, <3>3
  <2>3. m - 1 \in over
    BY <2>2
  <2> QED
    BY <2>2, <2>3, <1>2
<1>4. Max(S) = m
  <2>1. S \in SUBSET Nat /\ \A i \in S : i <= m
    BY <1>2
  <2> QED
    BY <2>1, <1>3, MaxIs
<1> QED
  BY <1>2, <1>3, <1>4

\* The equation by which the library defines a fold, from the left, has a solution.
Folds(g, A, H, base, s) ==
    /\ g \in [SUBSET (1..Len(s)) -> A]
    /\ g[{}] = base
    /\ \A S \in SUBSET (1..Len(s)) : S # {} => g[S] = H[<<g[S \ {Max(S)}], s[Max(S)]>>]

LEMMA FoldExists ==
    ASSUME NEW A, NEW D, NEW H \in [A \X D -> A], NEW base \in A, NEW s \in Seq(D)
    PROVE  \E g : Folds(g, A, H, base, s)
<1> DEFINE Fold(n, g) == \A S \in SUBSET (1..n) : g[S] = IF S = {} THEN base ELSE H[<<g[S \ {Max(S)}], s[Max(S)]>>]
           P == {n \in 0..Len(s) : \E g \in [SUBSET (1..n) -> A] : Fold(n, g)}
<1>1. Len(s) \in Nat /\ \A i \in 1..Len(s) : s[i] \in D
  OBVIOUS
<1>2. 0 \in P
  <2> DEFINE g == [S \in SUBSET (1..0) |-> base]
  <2>1. g \in [SUBSET (1..0) -> A]
    OBVIOUS
  <2>2. Fold(0, g)
    OBVIOUS
  <2>3. 0 \in 0..Len(s)
    BY <1>1
  <2> HIDE DEF Fold, g
  <2> QED
    BY <2>1, <2>2, <2>3
<1>3. ASSUME NEW n \in 0..(Len(s) - 1), n \in P PROVE n + 1 \in P
  <2>1. PICK g \in [SUBSET (1..n) -> A] : Fold(n, g)
    BY <1>3
  <2> DEFINE h == [S \in SUBSET (1..(n + 1)) |-> IF n + 1 \in S THEN H[<<g[S \ {n + 1}], s[n + 1]>>] ELSE g[S]]
  <2>2. \A S \in SUBSET (1..(n + 1)) : S \ {n + 1} \in SUBSET (1..n) /\ (n + 1 \notin S => S \in SUBSET (1..n))
    OBVIOUS
  <2>3. s[n + 1] \in D
    BY <1>1
  <2>4. h \in [SUBSET (1..(n + 1)) -> A]
    BY <2>2, <2>3
  <2>5. ASSUME NEW S \in SUBSET (1..(n + 1))
        PROVE  h[S] = IF S = {} THEN base ELSE H[<<h[S \ {Max(S)}], s[Max(S)]>>]
    <3>1. CASE n + 1 \in S
      <4>1. Max(S) = n + 1
        <5>1. S \in SUBSET Nat /\ \A i \in S : i <= n + 1
          OBVIOUS
        <5> QED
          BY <5>1, <3>1, MaxIs
      <4>2. S \ {n + 1} \in SUBSET (1..(n + 1)) /\ n + 1 \notin S \ {n + 1}
        OBVIOUS
      <4>3. h[S \ {n + 1}] = g[S \ {n + 1}]
        BY <4>2
      <4>4. h[S] = H[<<g[S \ {n + 1}], s[n + 1]>>]
        BY <3>1
      <4> HIDE DEF h
      <4> QED
        BY <3>1, <4>1, <4>3, <4>4
    <3>2. CASE n + 1 \notin S
      <4>1. S \in SUBSET (1..n)
        BY <3>2
      <4>2. h[S] = g[S]
        BY <3>2
      <4>3. S # {} => S \ {Max(S)} \in SUBSET (1..(n + 1)) /\ n + 1 \notin S \ {Max(S)}
        BY <3>2
      <4>4. S # {} => h[S \ {Max(S)}] = g[S \ {Max(S)}]
        BY <4>3
      <4> HIDE DEF h
      <4> QED
        BY <4>1, <4>2, <4>4, <2>1
    <3> QED
      BY <3>1, <3>2
  <2>6. Fold(n + 1, h)
    BY <2>5
  <2> HIDE DEF h, Fold
  <2> QED
    BY <2>4, <2>6, <1>1
<1>4. Len(s) \in P
  <2> HIDE DEF P
  <2>1. \A i \in 0..(Len(s) - 1) : i \in P => i + 1 \in P
    BY <1>3
  <2>2. Len(s) \in Nat /\ 0 \in P
    BY <1>1, <1>2
  <2>3. \A i \in 0..Len(s) : i \in P
    BY <2>1, <2>2, Climb, Zenon
  <2> QED
    BY <2>2, <2>3
<1>5. PICK g \in [SUBSET (1..Len(s)) -> A] : Fold(Len(s), g)
  <2> HIDE DEF Fold
  <2> QED
    BY <1>4
<1>6. {} \in SUBSET (1..Len(s))
  OBVIOUS
<1> QED
  BY <1>5, <1>6 DEF Folds

\* The numbers up to i, without the greatest of them.
LEMMA Intervals ==
    ASSUME NEW N \in Nat
    PROVE  \A i \in 1..N : (1..i) \ {Max(1..i)} = 1..(i - 1) /\ Max(1..i) = i /\ 1..i # {} /\ 1..i \in SUBSET (1..N)
<1> TAKE i \in 1..N
<1>1. 1..i \in SUBSET Nat /\ i \in 1..i /\ \A j \in 1..i : j <= i
  OBVIOUS
<1>2. Max(1..i) = i
  BY <1>1, MaxIs
<1> QED
  BY <1>1, <1>2

\* What FlattenSeq contains.
LEMMA FlattenHolds ==
    ASSUME NEW A, NEW ss \in Seq(Seq(A))
    PROVE  /\ FlattenSeq(ss) \in Seq(A)
           /\ ToSet(FlattenSeq(ss)) = UNION {ToSet(ss[i]) : i \in 1..Len(ss)}
<1> DEFINE Def(g) == g = [i \in 1..Len(ss) |-> IF i = 1 THEN ss[i] ELSE g[i - 1] \o ss[i]]
           N == Len(ss)
<1>1. N \in Nat /\ \A i \in 1..N : ss[i] \in Seq(A)
  OBVIOUS
<1>2. CASE N = 0
  <2>1. FlattenSeq(ss) = ss /\ ss = <<>>
    BY <1>2 DEF FlattenSeq
  <2> QED
    BY <2>1 DEF ToSet
<1>3. CASE N # 0
  <2> DEFINE flat == CHOOSE g : Def(g)
  <2>1. FlattenSeq(ss) = flat[N]
    BY <1>3 DEF FlattenSeq
  <2> DEFINE Part(n, g) == \A i \in 1..n : g[i] = IF i = 1 THEN ss[i] ELSE g[i - 1] \o ss[i]
             P == {n \in 0..N : \E g \in [1..n -> Seq(A)] : Part(n, g)}
  <2>2. 0 \in P
    <3> DEFINE none == [i \in 1..0 |-> <<>>]
    <3>1. none \in [1..0 -> Seq(A)] /\ Part(0, none)
      OBVIOUS
    <3>2. 0 \in 0..N
      BY <1>1
    <3> HIDE DEF none, Part, N
    <3> QED
      BY <3>1, <3>2
  <2>3. ASSUME NEW n \in 0..(N - 1), n \in P PROVE n + 1 \in P
    <3>1. PICK g \in [1..n -> Seq(A)] : Part(n, g)
      BY <2>3
    <3> DEFINE h == [i \in 1..(n + 1) |-> IF i = n + 1 THEN IF i = 1 THEN ss[i] ELSE g[n] \o ss[i] ELSE g[i]]
    <3>2. \A i \in 1..n : h[i] = g[i]
      <4> TAKE i \in 1..n
      <4>1. i \in 1..(n + 1) /\ i # n + 1
        OBVIOUS
      <4> QED
        BY <4>1
    <3>3. h[n + 1] = IF n + 1 = 1 THEN ss[n + 1] ELSE g[n] \o ss[n + 1]
      OBVIOUS
    <3>4. ss[n + 1] \in Seq(A) /\ (n # 0 => g[n] \in Seq(A) /\ n \in 1..n)
      BY <1>1
    <3>5. h \in [1..(n + 1) -> Seq(A)]
      <4>1. \A i \in 1..(n + 1) : h[i] \in Seq(A)
        <5> TAKE i \in 1..(n + 1)
        <5>1. CASE i = n + 1
          <6>1. n # 0 => g[n] \o ss[n + 1] \in Seq(A)
            BY <3>4
          <6> HIDE DEF h
          <6> QED
            BY <5>1, <6>1, <3>3, <3>4
        <5>2. CASE i # n + 1
          <6> i \in 1..n
            BY <5>2
          <6> HIDE DEF h
          <6> QED
            BY <3>2
        <5> QED
          BY <5>1, <5>2
      <4> QED
        BY <4>1
    <3>6. Part(n + 1, h)
      <4> SUFFICES ASSUME NEW i \in 1..(n + 1) PROVE h[i] = IF i = 1 THEN ss[i] ELSE h[i - 1] \o ss[i]
        OBVIOUS
      <4>1. CASE i = n + 1
        <5>1. i # 1 => n \in 1..n /\ h[i - 1] = g[n]
          BY <4>1, <3>2
        <5> HIDE DEF h
        <5> QED
          BY <4>1, <5>1, <3>3
      <4>2. CASE i # n + 1
        <5>1. i \in 1..n /\ (i # 1 => i - 1 \in 1..n)
          BY <4>2
        <5> HIDE DEF h
        <5> QED
          BY <5>1, <3>1, <3>2
      <4> QED
        BY <4>1, <4>2
    <3> HIDE DEF h, Part
    <3> QED
      BY <3>5, <3>6, <1>1
  <2>4. N \in P
    <3> HIDE DEF P, N
    <3>1. \A i \in 0..(N - 1) : i \in P => i + 1 \in P
      BY <2>3
    <3>2. \A i \in 0..N : i \in P
      BY <1>1, <2>2, <3>1, Climb, Zenon
    <3> QED
      BY <1>1, <3>2
  <2>5. PICK g \in [1..N -> Seq(A)] : Part(N, g)
    BY <2>4
  <2>6. Def(g)
    <3>1. g = [i \in 1..N |-> g[i]]
      OBVIOUS
    <3> QED
      BY <3>1, <2>5
  <2>7. Def(flat)
    <3> HIDE DEF Def
    <3> QED
      BY <2>6
  <2>8. Part(N, flat)
    <3> HIDE DEF flat
    <3> QED
      BY <2>7
  <2> DEFINE Q == {n \in 0..N : n # 0 => flat[n] \in Seq(A) /\ ToSet(flat[n]) = UNION {ToSet(ss[i]) : i \in 1..n}}
  <2>9. ASSUME NEW n \in 0..(N - 1), n \in Q PROVE n + 1 \in Q
    <3>1. ss[n + 1] \in Seq(A)
      BY <1>1
    <3>2. flat[n + 1] = IF n + 1 = 1 THEN ss[n + 1] ELSE flat[n] \o ss[n + 1]
      <4> HIDE DEF flat
      <4>1. n + 1 \in 1..N /\ (n + 1) - 1 = n
        OBVIOUS
      <4> QED
        BY <4>1, <2>8
    <3> HIDE DEF flat, Part
    <3>3. CASE n = 0
      <4>1. UNION {ToSet(ss[i]) : i \in 1..1} = ToSet(ss[1])
        OBVIOUS
      <4> QED
        BY <3>1, <3>2, <3>3, <4>1, <1>3
    <3>4. CASE n # 0
      <4>1. flat[n] \in Seq(A) /\ ToSet(flat[n]) = UNION {ToSet(ss[i]) : i \in 1..n}
        BY <2>9, <3>4
      <4>2. ASSUME NEW one \in Seq(A), NEW two \in Seq(A) PROVE ToSet(one \o two) = ToSet(one) \cup ToSet(two)
        <5>1. \A i \in 1..Len(one) : (one \o two)[i] = one[i]
          OBVIOUS
        <5>2. \A i \in 1..Len(two) : (one \o two)[Len(one) + i] = two[i]
          OBVIOUS
        <5>3. \A i \in DOMAIN (one \o two) : (one \o two)[i] \in ToSet(one) \cup ToSet(two)
          BY DEF ToSet
        <5> DEFINE both == one \o two
        <5>0. DOMAIN both = 1..(Len(one) + Len(two)) /\ DOMAIN one = 1..Len(one) /\ DOMAIN two = 1..Len(two)
              /\ Len(one) \in Nat /\ Len(two) \in Nat
          OBVIOUS
        <5>4. ToSet(one) \subseteq ToSet(both)
          <6> SUFFICES ASSUME NEW i \in 1..Len(one) PROVE one[i] \in ToSet(both)
            BY <5>0 DEF ToSet
          <6>1. both[i] = one[i] /\ i \in DOMAIN both
            BY <5>0, <5>1
          <6> HIDE DEF both
          <6> QED
            BY <6>1 DEF ToSet
        <5>5. ToSet(two) \subseteq ToSet(both)
          <6> SUFFICES ASSUME NEW i \in 1..Len(two) PROVE two[i] \in ToSet(both)
            BY <5>0 DEF ToSet
          <6>1. both[Len(one) + i] = two[i] /\ Len(one) + i \in DOMAIN both
            BY <5>0, <5>2
          <6> HIDE DEF both
          <6> QED
            BY <6>1 DEF ToSet
        <5>6. ToSet(one \o two) \subseteq ToSet(one) \cup ToSet(two)
          BY <5>3 DEF ToSet
        <5> QED
          BY <5>4, <5>5, <5>6
      <4>3. UNION {ToSet(ss[i]) : i \in 1..(n + 1)} = (UNION {ToSet(ss[i]) : i \in 1..n}) \cup ToSet(ss[n + 1])
        <5>1. 1..(n + 1) = (1..n) \cup {n + 1}
          OBVIOUS
        <5> DEFINE I == 1..n
        <5> HIDE DEF I
        <5>2. UNION {ToSet(ss[i]) : i \in I \cup {n + 1}} = (UNION {ToSet(ss[i]) : i \in I}) \cup ToSet(ss[n + 1])
          OBVIOUS
        <5> QED
          BY <5>1, <5>2 DEF I
      <4>4. flat[n + 1] = flat[n] \o ss[n + 1]
        <5> n + 1 # 1
          BY <3>4
        <5> QED
          BY <3>2
      <4>5. flat[n + 1] \in Seq(A) /\ ToSet(flat[n + 1]) = ToSet(flat[n]) \cup ToSet(ss[n + 1])
        BY <4>1, <4>2, <4>4, <3>1
      <4>6. n + 1 \in 0..N
        BY <1>1
      <4>7. flat[n + 1] \in Seq(A) /\ ToSet(flat[n + 1]) = UNION {ToSet(ss[i]) : i \in 1..(n + 1)}
        BY <4>1, <4>3, <4>5
      <4> HIDE DEF N
      <4> QED
        BY <4>6, <4>7
    <3> QED
      BY <3>3, <3>4
  <2>10. N \in Q
    <3>1. 0 \in Q
      BY <1>1
    <3> HIDE DEF Q, N
    <3>2. \A i \in 0..(N - 1) : i \in Q => i + 1 \in Q
      BY <2>9
    <3>3. \A i \in 0..N : i \in Q
      BY <1>1, <3>1, <3>2, Climb, Zenon
    <3> QED
      BY <1>1, <3>3
  <2> HIDE DEF flat
  <2> QED
    BY <2>1, <2>10, <1>3
<1> QED
  BY <1>2, <1>3

\* A relation that orders a set.
Orders(before, S) ==
    /\ \A x \in S : <<x, x>> \notin before
    /\ \A x, y \in S : x # y => <<x, y>> \in before \/ <<y, x>> \in before
    /\ \A x, y, u \in S : <<x, y>> \in before /\ <<y, u>> \in before => <<x, u>> \in before

\* SortedBy lists each element once, and in the order of the relation.
LEMMA SortedByLists ==
    ASSUME NEW S, IsFiniteSet(S), NEW before, Orders(before, S)
    PROVE  /\ Cardinality(S) \in Nat
           /\ SortedBy(S, before) \in [1..Cardinality(S) -> S]
           /\ SortedBy(S, before) \in Seq(S)
           /\ Len(SortedBy(S, before)) = Cardinality(S)
           /\ \A x \in S : \E n \in 1..Cardinality(S) : SortedBy(S, before)[n] = x
           /\ \A m, n \in 1..Cardinality(S) : m < n => <<SortedBy(S, before)[m], SortedBy(S, before)[n]>> \in before
           /\ \A m, n \in 1..Cardinality(S) : SortedBy(S, before)[m] = SortedBy(S, before)[n] => m = n
<1> DEFINE N == Cardinality(S)
           Less(x) == {y \in S : <<y, x>> \in before}
           rank == [x \in S |-> Cardinality(Less(x)) + 1]
           row == SortedBy(S, before)
<1>1. N \in Nat
  BY FS_CardinalityType
<1>2. \A x \in S : IsFiniteSet(Less(x)) /\ Cardinality(Less(x)) \in Nat /\ Cardinality(Less(x)) < N
  <2> TAKE x \in S
  <2>1. Less(x) \in SUBSET S /\ x \notin Less(x)
    BY DEF Orders
  <2>2. IsFiniteSet(Less(x)) /\ Cardinality(Less(x)) <= N /\ Cardinality(Less(x)) # N
    BY <2>1, FS_Subset
  <2>3. Cardinality(Less(x)) \in Nat
    BY <2>2, FS_CardinalityType
  <2> QED
    BY <1>1, <2>2, <2>3
<1>3. ASSUME NEW x \in S, NEW y \in S, <<x, y>> \in before
      PROVE  Cardinality(Less(x)) < Cardinality(Less(y))
  <2>1. Less(x) \in SUBSET Less(y) /\ x \in Less(y) /\ x \notin Less(x)
    BY <1>3 DEF Orders
  <2>2. IsFiniteSet(Less(y))
    BY <1>2
  <2> HIDE DEF Less
  <2>3. Cardinality(Less(x)) <= Cardinality(Less(y)) /\ Cardinality(Less(x)) # Cardinality(Less(y))
    BY <2>1, <2>2, FS_Subset
  <2> QED
    BY <1>2, <2>3
<1>4. rank \in [S -> 1..N]
  BY <1>1, <1>2
<1>5. \A x, y \in S : rank[x] = rank[y] => x = y
  <2> TAKE x, y \in S
  <2>1. rank[x] = Cardinality(Less(x)) + 1 /\ rank[y] = Cardinality(Less(y)) + 1
    OBVIOUS
  <2>2. x # y => <<x, y>> \in before \/ <<y, x>> \in before
    BY DEF Orders
  <2> HIDE DEF Less, rank
  <2> QED
    BY <2>1, <2>2, <1>2, <1>3
<1>6. rank \in Injection(S, 1..N)
  BY <1>4, <1>5 DEF Injection, IsInjective
<1>7. IsFiniteSet(1..N) /\ Cardinality(1..N) = N
  BY <1>1, FS_Interval
<1>8. rank \in Surjection(S, 1..N)
  BY <1>6, <1>7, FS_Injection
<1>9. \A n \in 1..N : row[n] \in S /\ rank[row[n]] = n
  <2> TAKE n \in 1..N
  <2>1. PICK x \in S : rank[x] = n
    BY <1>8 DEF Surjection
  <2>2. Cardinality(Less(x)) = n - 1
    <3>1. rank[x] = Cardinality(Less(x)) + 1
      OBVIOUS
    <3> HIDE DEF rank, Less
    <3> QED
      BY <2>1, <3>1, <1>1, <1>2
  <2>3. row[n] = CHOOSE u \in S : Cardinality({y \in S : <<y, u>> \in before}) = n - 1
    BY DEF SortedBy
  <2>4. row[n] \in S /\ Cardinality(Less(row[n])) = n - 1
    BY <2>2, <2>3
  <2> HIDE DEF row, Less
  <2> QED
    BY <2>4, <1>1, <1>2
<1>10. row = [n \in 1..N |-> row[n]]
  <2> DEFINE pick(n) == CHOOSE x \in S : Cardinality({y \in S : <<y, x>> \in before}) = n - 1
  <2>1. row = [n \in 1..N |-> pick(n)]
    BY DEF SortedBy
  <2> HIDE DEF row, pick
  <2> QED
    BY <2>1
<1>11. row \in [1..N -> S]
  <2> HIDE DEF row, rank
  <2> QED
    BY <1>9, <1>10
<1>12. row \in Seq(S) /\ Len(row) = N
  <2> HIDE DEF row, rank
  <2> QED
    BY <1>1, <1>11
<1>13. \A x \in S : \E n \in 1..N : row[n] = x
  <2> TAKE x \in S
  <2>1. rank[x] \in 1..N
    BY <1>4
  <2>2. row[rank[x]] \in S /\ rank[row[rank[x]]] = rank[x]
    <3> HIDE DEF row, rank
    <3> QED
      BY <2>1, <1>9
  <2>3. row[rank[x]] = x
    <3> HIDE DEF row, rank
    <3> QED
      BY <2>2, <1>5
  <2> HIDE DEF row, rank
  <2> QED
    BY <2>1, <2>3
<1>14. ASSUME NEW m \in 1..N, NEW n \in 1..N, m < n PROVE <<row[m], row[n]>> \in before
  <2>1. row[m] \in S /\ row[n] \in S /\ rank[row[m]] = m /\ rank[row[n]] = n
    <3> HIDE DEF row, rank
    <3> QED
      BY <1>9
  <2>2. Cardinality(Less(row[m])) < Cardinality(Less(row[n]))
    <3> HIDE DEF row, Less
    <3> QED
      BY <2>1, <1>1, <1>2, <1>14
  <2>3. row[m] # row[n]
    <3> HIDE DEF row, rank
    <3> QED
      BY <2>1, <1>14
  <2>4. ~(<<row[n], row[m]>> \in before)
    <3>1. <<row[n], row[m]>> \in before => Cardinality(Less(row[n])) < Cardinality(Less(row[m]))
      <4> HIDE DEF row, Less
      <4> QED
        BY <2>1, <1>3
    <3>2. Cardinality(Less(row[m])) \in Nat /\ Cardinality(Less(row[n])) \in Nat
      <4> HIDE DEF row, Less
      <4> QED
        BY <2>1, <1>2
    <3> HIDE DEF row, Less
    <3> QED
      BY <3>1, <3>2, <2>2
  <2> HIDE DEF row, rank
  <2> QED
    BY <2>1, <2>3, <2>4 DEF Orders
<1>15. \A m, n \in 1..N : row[m] = row[n] => m = n
  <2> HIDE DEF row, rank
  <2> QED
    BY <1>9
<1> HIDE DEF rank, Less
<1> QED
  BY <1>1, <1>11, <1>12, <1>13, <1>14, <1>15

\* Without leaves what is not in the set, each place once, in the order it was.
Left(s, out) == {i \in 1..Len(s) : s[i] \notin out}

Keeps(at, s, out) ==
    /\ Len(Without(s, out)) = Cardinality(Left(s, out))
    /\ Cardinality(Left(s, out)) \in Nat /\ Cardinality(Left(s, out)) <= Len(s)
    /\ DOMAIN Without(s, out) = 1..Cardinality(Left(s, out))
    /\ at \in [1..Cardinality(Left(s, out)) -> Left(s, out)]
    /\ \A i \in Left(s, out) : \E n \in 1..Cardinality(Left(s, out)) : at[n] = i
    /\ \A m, n \in 1..Cardinality(Left(s, out)) : m < n => at[m] < at[n]
    /\ \A n \in 1..Cardinality(Left(s, out)) : Without(s, out)[n] = s[at[n]]

LEMMA WithoutKeeps ==
    ASSUME NEW A, NEW s \in Seq(A), NEW out
    PROVE  Without(s, out) \in Seq(A) /\ \E at : Keeps(at, s, out)
<1> DEFINE left == {i \in 1..Len(s) : s[i] \notin out}
           before == {p \in left \X left : p[1] < p[2]}
           at == SortedBy(left, before)
           N == Cardinality(left)
<1>1. DOMAIN s = 1..Len(s) /\ Len(s) \in Nat
  OBVIOUS
<1>2. IsFiniteSet(1..Len(s)) /\ Cardinality(1..Len(s)) = Len(s)
  BY <1>1, FS_Interval
<1>3. IsFiniteSet(left) /\ N <= Len(s)
  <2>1. left \in SUBSET (1..Len(s))
    OBVIOUS
  <2> HIDE DEF left
  <2> QED
    BY <1>2, <2>1, FS_Subset
<1>4. Orders(before, left)
  BY <1>1 DEF Orders
<1>5. Without(s, out) = [n \in DOMAIN at |-> s[at[n]]]
  BY <1>1 DEF Without
<1>6. /\ N \in Nat /\ at \in [1..N -> left]
      /\ \A x \in left : \E n \in 1..N : at[n] = x
      /\ \A m, n \in 1..N : m < n => <<at[m], at[n]>> \in before
  <2> HIDE DEF left, before
  <2> QED
    BY <1>3, <1>4, SortedByLists
<1>7. \A m, n \in 1..N : m < n => at[m] < at[n]
  <2> HIDE DEF at, N
  <2> QED
    BY <1>6
<1>8. \A n \in 1..N : s[at[n]] \in A
  <2> HIDE DEF at, N
  <2> QED
    BY <1>6, <1>1
<1>9. DOMAIN Without(s, out) = 1..N /\ \A n \in 1..N : Without(s, out)[n] = s[at[n]]
  <2> HIDE DEF at, N
  <2> QED
    BY <1>5, <1>6
<1>10. Without(s, out) = [n \in 1..N |-> s[at[n]]]
  <2> HIDE DEF at, N
  <2> QED
    BY <1>5, <1>6
<1>11. Without(s, out) \in Seq(A) /\ Len(Without(s, out)) = N
  <2> HIDE DEF at, N
  <2> QED
    BY <1>6, <1>8, <1>10
<1>12. left = Left(s, out)
  BY DEF Left
<1> HIDE DEF at, before, left
<1>13. Keeps(at, s, out)
  BY <1>3, <1>6, <1>7, <1>9, <1>11, <1>12 DEF Keeps
<1> QED
  BY <1>11, <1>13

-----------------------------------------------------------------------------
(* Materials: what a run puts into its packs.                              *)

Tables == [Codes -> Seq(Sentences)]

\* No two places of the packs have the same text.
Apart(table) ==
    \A p, q \in Codes : \A i \in 1..Len(table[p]) : \A j \in 1..Len(table[q]) :
        table[p][i].norm = table[q][j].norm => p = q /\ i = j

\* The packs have a sentence that stands for another.
Has(table, row) == \E o \in RowsOf(table) : o.norm = row.norm \/ o.print = row.print

LEMMA CodesFinite == IsFiniteSet(Codes) /\ Cardinality(Codes) = Len(SceneCodes) /\ Len(SceneCodes) \in Nat
<1>1. SceneCodes \in Seq(Codes) /\ IsInjective(SceneCodes)
  BY MaterialAssumption
<1>2. Len(SceneCodes) \in Nat /\ SceneCodes \in [1..Len(SceneCodes) -> Codes]
  BY <1>1
<1>3. SceneCodes \in Injection(1..Len(SceneCodes), Codes)
  BY <1>1, <1>2 DEF Injection
<1>4. SceneCodes \in Surjection(1..Len(SceneCodes), Codes)
  BY <1>2 DEF Surjection, Codes, ToSet
<1>5. IsFiniteSet(1..Len(SceneCodes)) /\ Cardinality(1..Len(SceneCodes)) = Len(SceneCodes)
  BY <1>2, FS_Interval
<1> QED
  BY <1>2, <1>3, <1>4, <1>5, FS_Surjection

LEMMA RowsAre ==
    ASSUME NEW table \in Tables
    PROVE  /\ RowsOf(table) \subseteq Sentences
           /\ \A o : o \in RowsOf(table) <=> \E p \in Codes : \E i \in 1..Len(table[p]) : o = table[p][i]
<1>1. \A p \in Codes : table[p] \in Seq(Sentences) /\ DOMAIN table[p] = 1..Len(table[p])
  BY DEF Tables
<1>2. \A p \in Codes : \A i \in 1..Len(table[p]) : table[p][i] \in Sentences
  BY <1>1
<1> QED
  BY <1>1, <1>2 DEF RowsOf, ToSet

LEMMA EmptyIsTable == EmptyPacks \in Tables /\ Apart(EmptyPacks) /\ \A p \in Codes : Len(EmptyPacks[p]) = 0
BY DEF EmptyPacks, Tables, Apart

\* A list is admitted one sentence after the other.
AdmitOne(table, p, limit, row) ==
    IF Len(table[p]) < limit /\ \A o \in RowsOf(table) : o.norm # row.norm /\ o.print # row.print
    THEN [table EXCEPT ![p] = Append(@, row)] ELSE table

LEMMA AdmitOneIsTable ==
    ASSUME NEW table \in Tables, NEW p \in Codes, NEW limit, NEW row \in Sentences
    PROVE  AdmitOne(table, p, limit, row) \in Tables
<1>1. table[p] \in Seq(Sentences)
  BY DEF Tables
<1>2. Append(table[p], row) \in Seq(Sentences)
  BY <1>1
<1> QED
  BY <1>2 DEF AdmitOne, Tables

AdmitRun(t, table, p, limit, list) ==
    /\ t[0] = table
    /\ \A i \in 1..Len(list) : t[i] = AdmitOne(t[i - 1], p, limit, list[i])
    /\ Admit(table, p, limit, list) = t[Len(list)]

LEMMA AdmitRuns ==
    ASSUME NEW table \in Tables, NEW p \in Codes, NEW limit, NEW list \in Seq(Sentences)
    PROVE  \E t : AdmitRun(t, table, p, limit, list)
<1> DEFINE D == SUBSET (1..Len(list))
           Step(t, row) == AdmitOne(t, p, limit, row)
           Def(g) == g = [S \in D |-> IF S = {} THEN table ELSE Step(g[S \ {Max(S)}], list[Max(S)])]
           it == CHOOSE g : Def(g)
           H == [z \in Tables \X Sentences |-> Step(z[1], z[2])]
<1>1. DOMAIN list = 1..Len(list) /\ Len(list) \in Nat /\ \A i \in 1..Len(list) : list[i] \in Sentences
  OBVIOUS
<1>2. H \in [Tables \X Sentences -> Tables]
  BY AdmitOneIsTable
<1>3. PICK g \in [D -> Tables] : g[{}] = table /\ \A S \in D : S # {} => g[S] = H[<<g[S \ {Max(S)}], list[Max(S)]>>]
  <2> HIDE DEF H
  <2>1. PICK g : Folds(g, Tables, H, table, list)
    BY <1>2, FoldExists, Zenon
  <2> QED
    BY <2>1 DEF Folds
<1>4. Def(g)
  <2>1. ASSUME NEW S \in D, S # {} PROVE H[<<g[S \ {Max(S)}], list[Max(S)]>>] = Step(g[S \ {Max(S)}], list[Max(S)])
    <3>1. Max(S) \in S
      BY <1>1, <2>1, MaxExists
    <3>2. g[S \ {Max(S)}] \in Tables /\ list[Max(S)] \in Sentences
      <4>1. S \ {Max(S)} \in D
        OBVIOUS
      <4> QED
        BY <3>1, <4>1, <1>1
    <3> HIDE DEF Step
    <3> QED
      BY <3>2
  <2> HIDE DEF H, Step
  <2>2. \A S \in D : g[S] = IF S = {} THEN table ELSE Step(g[S \ {Max(S)}], list[Max(S)])
    BY <1>3, <2>1
  <2>3. g = [S \in D |-> g[S]]
    OBVIOUS
  <2> QED
    BY <2>2, <2>3
<1>5. Def(it)
  <2> HIDE DEF Def
  <2> QED
    BY <1>4
<1>6. Admit(table, p, limit, list) = it[1..Len(list)]
  BY <1>1 DEF Admit, FoldLeft, MapThenFoldSet, AdmitOne
<1> DEFINE t == [i \in 0..Len(list) |-> it[1..i]]
<1> HIDE DEF it, Step
<1>7. t[0] = table
  BY <1>1, <1>5
<1>8. \A i \in 1..Len(list) : t[i] = Step(t[i - 1], list[i])
  <2> TAKE i \in 1..Len(list)
  <2>1. (1..i) \ {Max(1..i)} = 1..(i - 1) /\ Max(1..i) = i /\ 1..i # {} /\ 1..i \in D
    BY <1>1, Intervals
  <2>2. it[1..i] = Step(it[1..(i - 1)], list[i])
    BY <1>5, <2>1
  <2> QED
    BY <1>1, <2>2
<1>9. t[Len(list)] = it[1..Len(list)]
  BY <1>1
<1> HIDE DEF t
<1> QED
  BY <1>6, <1>7, <1>8, <1>9 DEF Step, AdmitRun

\* A sequence and one more.
LEMMA Appended ==
    ASSUME NEW A, NEW s \in Seq(A), NEW new \in A
    PROVE  /\ Append(s, new) \in Seq(A) /\ Len(Append(s, new)) = Len(s) + 1
           /\ Append(s, new)[Len(s) + 1] = new
           /\ \A i \in 1..Len(s) : Append(s, new)[i] = s[i]
OBVIOUS

\* A sequence and another.
LEMMA Joined ==
    ASSUME NEW A, NEW s \in Seq(A), NEW t \in Seq(A)
    PROVE  /\ s \o t \in Seq(A) /\ Len(s \o t) = Len(s) + Len(t)
           /\ \A i \in 1..(Len(s) + Len(t)) : (s \o t)[i] = IF i <= Len(s) THEN s[i] ELSE t[i - Len(s)]
<1>1. \A i \in 1..(Len(s) + Len(t)) : (s \o t)[i] = IF i <= Len(s) THEN s[i] ELSE t[i - Len(s)]
  OBVIOUS
<1> QED
  BY <1>1

\* The beginning of a sequence.
LEMMA Shortened ==
    ASSUME NEW A, NEW s \in Seq(A), NEW n \in Nat, n <= Len(s)
    PROVE  /\ SubSeq(s, 1, n) \in Seq(A) /\ Len(SubSeq(s, 1, n)) = n
           /\ \A i \in 1..n : SubSeq(s, 1, n)[i] = s[i]
OBVIOUS

\* Packs that a classification of a set may make, and what it may not lose.
Fit(table, set, limit) ==
    /\ table \in Tables /\ Apart(table)
    /\ \A q \in Codes : Len(table[q]) <= limit /\ \A i \in 1..Len(table[q]) : table[q][i] \in Options(set, q)

Grows(table, more) ==
    /\ RowsOf(table) \subseteq RowsOf(more)
    /\ \A q \in Codes : Len(table[q]) <= Len(more[q])

LEMMA AdmitOneKeeps ==
    ASSUME NEW set \in SUBSET Sentences, NEW limit \in Nat, NEW p \in Codes, NEW row \in Options(set, p),
           NEW table, Fit(table, set, limit)
    PROVE  LET more == AdmitOne(table, p, limit, row) IN
           /\ Fit(more, set, limit) /\ Grows(table, more)
           /\ Has(more, row) \/ Len(more[p]) = limit
<1> DEFINE more == AdmitOne(table, p, limit, row)
           fitting == Len(table[p]) < limit /\ \A o \in RowsOf(table) : o.norm # row.norm /\ o.print # row.print
<1>1. table \in Tables /\ Apart(table) /\ row \in Sentences
  BY DEF Fit, Options
<1>2. \A q \in Codes : table[q] \in Seq(Sentences) /\ Len(table[q]) \in Nat /\ Len(table[q]) <= limit
  BY <1>1 DEF Tables, Fit
<1>3. CASE ~fitting
  <2>1. more = table
    BY <1>3 DEF AdmitOne
  <2>2. Has(table, row) \/ Len(table[p]) = limit
    BY <1>2, <1>3 DEF Has
  <2>3. Grows(table, table)
    BY <1>2 DEF Grows
  <2> HIDE DEF more, fitting
  <2> QED
    BY <2>1, <2>2, <2>3 DEF more
<1>4. CASE fitting
  <2>1. more = [table EXCEPT ![p] = Append(table[p], row)]
    BY <1>4 DEF AdmitOne
  <2>2. more \in Tables
    BY <1>1, AdmitOneIsTable
  <2> HIDE DEF more
  <2>3. \A q \in Codes : more[q] = IF q = p THEN Append(table[p], row) ELSE table[q]
    BY <1>1, <2>1 DEF Tables
  <2>0. /\ Len(more[p]) = Len(table[p]) + 1 /\ more[p][Len(table[p]) + 1] = row
        /\ \A i \in 1..Len(table[p]) : more[p][i] = table[p][i]
    <3>1. more[p] = Append(table[p], row) /\ table[p] \in Seq(Sentences)
      BY <1>2, <2>3
    <3> QED
      BY <1>1, <3>1, Appended
  <2>4. \A q \in Codes : Len(more[q]) = IF q = p THEN Len(table[p]) + 1 ELSE Len(table[q])
    BY <2>0, <2>3
  <2>5. \A q \in Codes : \A i \in 1..Len(table[q]) : i \in 1..Len(more[q]) /\ more[q][i] = table[q][i]
    BY <1>2, <2>0, <2>3, <2>4
  <2>6. more[p][Len(table[p]) + 1] = row /\ Len(table[p]) + 1 \in 1..Len(more[p])
    BY <1>2, <2>0
  <2>7. \A q \in Codes : \A i \in 1..Len(more[q]) :
            i \in 1..Len(table[q]) \/ (q = p /\ i = Len(table[p]) + 1)
    BY <1>2, <2>4
  <2>8. \A o : o \in RowsOf(table) <=> \E q \in Codes : \E i \in 1..Len(table[q]) : o = table[q][i]
    BY <1>1, RowsAre
  <2>9. \A o : o \in RowsOf(more) <=> \E q \in Codes : \E i \in 1..Len(more[q]) : o = more[q][i]
    BY <2>2, RowsAre
  <2>10. Grows(table, more)
    <3>1. RowsOf(table) \subseteq RowsOf(more)
      BY <2>5, <2>8, <2>9
    <3> QED
      BY <1>2, <2>4, <3>1 DEF Grows
  <2>11. Has(more, row)
    BY <2>6, <2>9 DEF Has
  <2>12. \A q \in Codes : \A i \in 1..Len(table[q]) : table[q][i].norm # row.norm
    BY <1>4, <2>8
  <2>13. Apart(more)
    <3> SUFFICES ASSUME NEW q \in Codes, NEW u \in Codes, NEW i \in 1..Len(more[q]), NEW j \in 1..Len(more[u]),
                        more[q][i].norm = more[u][j].norm
                 PROVE  q = u /\ i = j
      BY DEF Apart
    <3>1. CASE i \in 1..Len(table[q]) /\ j \in 1..Len(table[u])
      <4>1. table[q][i].norm = table[u][j].norm
        BY <2>5, <3>1
      <4> QED
        BY <1>1, <3>1, <4>1 DEF Apart
    <3>2. CASE i \in 1..Len(table[q]) /\ u = p /\ j = Len(table[p]) + 1
      BY <2>5, <2>6, <2>12, <3>2, SMTT(30)
    <3>3. CASE q = p /\ i = Len(table[p]) + 1 /\ j \in 1..Len(table[u])
      BY <2>5, <2>6, <2>12, <3>3, SMTT(30)
    <3>4. CASE q = p /\ i = Len(table[p]) + 1 /\ u = p /\ j = Len(table[p]) + 1
      BY <3>4
    <3> QED
      BY <2>7, <3>1, <3>2, <3>3, <3>4
  <2>14. \A q \in Codes : Len(more[q]) <= limit
    BY <1>2, <1>4, <2>4
  <2>15. \A q \in Codes : \A i \in 1..Len(more[q]) : more[q][i] \in Options(set, q)
    BY <2>5, <2>6, <2>7 DEF Fit
  <2>16. Fit(more, set, limit)
    BY <2>2, <2>13, <2>14, <2>15 DEF Fit
  <2> QED
    BY <2>10, <2>11, <2>16 DEF more
<1> QED
  BY <1>3, <1>4

LEMMA AdmitKeeps ==
    ASSUME NEW set \in SUBSET Sentences, NEW limit \in Nat, NEW p \in Codes, NEW list \in Seq(Options(set, p)),
           NEW table, Fit(table, set, limit)
    PROVE  LET more == Admit(table, p, limit, list) IN
           /\ Fit(more, set, limit) /\ Grows(table, more)
           /\ \A row \in ToSet(list) : Has(more, row) \/ Len(more[p]) = limit
<1>1. table \in Tables /\ list \in Seq(Sentences)
  BY DEF Fit, Options
<1>0. PICK t : AdmitRun(t, table, p, limit, list)
  BY <1>1, AdmitRuns, Zenon
<1>2. /\ t[0] = table
      /\ \A i \in 1..Len(list) : t[i] = AdmitOne(t[i - 1], p, limit, list[i])
      /\ Admit(table, p, limit, list) = t[Len(list)]
  BY <1>0 DEF AdmitRun
<1>3. Len(list) \in Nat /\ DOMAIN list = 1..Len(list) /\ \A i \in 1..Len(list) : list[i] \in Options(set, p)
  OBVIOUS
<1> DEFINE Right(i) == /\ Fit(t[i], set, limit) /\ Grows(table, t[i])
                       /\ \A j \in 1..i : Has(t[i], list[j]) \/ Len(t[i][p]) = limit
           P == {i \in 0..Len(list) : Right(i)}
<1>4. Right(0)
  <2>1. Grows(table, table)
    BY <1>1 DEF Grows, Tables
  <2> QED
    BY <1>2, <2>1
<1>5. ASSUME NEW i \in 0..(Len(list) - 1), Right(i) PROVE Right(i + 1)
  <2>1. i + 1 \in 1..Len(list) /\ (i + 1) - 1 = i
    BY <1>3
  <2>2. t[i + 1] = AdmitOne(t[i], p, limit, list[i + 1]) /\ list[i + 1] \in Options(set, p)
    BY <1>2, <1>3, <2>1
  <2>3. /\ Fit(t[i + 1], set, limit) /\ Grows(t[i], t[i + 1])
        /\ Has(t[i + 1], list[i + 1]) \/ Len(t[i + 1][p]) = limit
    BY <1>5, <2>2, AdmitOneKeeps
  <2>4. t[i] \in Tables /\ t[i + 1] \in Tables /\ Len(t[i + 1][p]) <= limit
    BY <1>5, <2>3 DEF Fit
  <2>5. \A q \in Codes : Len(table[q]) \in Nat /\ Len(t[i][q]) \in Nat /\ Len(t[i + 1][q]) \in Nat
    BY <1>1, <2>4 DEF Tables
  <2>6. Grows(table, t[i + 1])
    <3>1. Grows(table, t[i]) /\ Grows(t[i], t[i + 1])
      BY <1>5, <2>3
    <3> QED
      BY <2>5, <3>1, SMTT(30) DEF Grows
  <2>7. \A j \in 1..(i + 1) : Has(t[i + 1], list[j]) \/ Len(t[i + 1][p]) = limit
    <3> SUFFICES ASSUME NEW j \in 1..(i + 1), j # i + 1 PROVE Has(t[i + 1], list[j]) \/ Len(t[i + 1][p]) = limit
      BY <2>3
    <3>1. Has(t[i], list[j]) \/ Len(t[i][p]) = limit
      BY <1>5
    <3> QED
      BY <2>3, <2>4, <2>5, <3>1 DEF Grows, Has
  <2> QED
    BY <2>3, <2>6, <2>7
<1> HIDE DEF Right
<1>6. \A i \in 0..(Len(list) - 1) : i \in P => i + 1 \in P
  BY <1>5, <1>3
<1>7. 0 \in P
  BY <1>3, <1>4
<1>8. \A i \in 0..Len(list) : i \in P
  <2> HIDE DEF P
  <2> QED
    BY <1>3, <1>6, <1>7, Climb, Zenon
<1>9. Right(Len(list))
  BY <1>3, <1>8
<1>10. \A row \in ToSet(list) : \E j \in 1..Len(list) : row = list[j]
  BY <1>3 DEF ToSet
<1> QED
  BY <1>2, <1>9, <1>10 DEF Right

\* The options of a pack are ranked, each once.
LEMMA RankedLists ==
    ASSUME NEW set \in SUBSET Sentences, NEW p \in Codes
    PROVE  Ranked(set, p) \in Seq(Options(set, p)) /\ ToSet(Ranked(set, p)) = Options(set, p)
<1> DEFINE S == Options(set, p)
           before == Better(S, p)
<1>1. S \in SUBSET Sentences
  BY DEF Options
<1>2. IsFiniteSet(S)
  BY <1>1, SentenceAssumption, FS_Subset
<1>3. \A o \in S : o.fits[p] \in Nat /\ o.id \in Nat
  BY <1>1, SentenceAssumption
<1>4. \A o, u \in S : o # u => o.id # u.id
  BY <1>1, SentenceAssumption
<1> HIDE DEF S
<1>5. \A o, u \in S : <<o, u>> \in before <=> (o.fits[p] > u.fits[p] \/ (o.fits[p] = u.fits[p] /\ o.id < u.id))
  BY DEF Better
<1>6. Orders(before, S)
  <2> HIDE DEF before
  <2> QED
    BY <1>3, <1>4, <1>5 DEF Orders
<1>7. Ranked(set, p) = SortedBy(S, before)
  BY DEF Ranked, S
<1> DEFINE list == SortedBy(S, before)
<1> HIDE DEF before
<1>8. /\ list \in Seq(S) /\ list \in [1..Cardinality(S) -> S]
      /\ \A o \in S : \E n \in 1..Cardinality(S) : list[n] = o
  BY <1>2, <1>6, SortedByLists, Zenon
<1> HIDE DEF list
<1>9. ToSet(list) = S
  BY <1>8 DEF ToSet
<1> QED
  BY <1>7, <1>8, <1>9 DEF S, list

\* Pack by pack, the options are admitted in the order of their ranks.
ClassifyOne(table, set, p, limit) == Admit(table, p, limit, Ranked(set, p))

ClassifyRun(t, set, order, limit) ==
    /\ t[0] = EmptyPacks
    /\ \A i \in 1..Len(order) : t[i] = ClassifyOne(t[i - 1], set, order[i], limit)
    /\ ClassifyCandidates(set, order, limit) = t[Len(order)]

LEMMA AdmitIsTable ==
    ASSUME NEW table \in Tables, NEW p \in Codes, NEW limit, NEW list \in Seq(Sentences)
    PROVE  Admit(table, p, limit, list) \in Tables
<1>0. PICK t : AdmitRun(t, table, p, limit, list)
  BY AdmitRuns, Zenon
<1> DEFINE P == {i \in 0..Len(list) : t[i] \in Tables}
<1>1. Len(list) \in Nat /\ \A i \in 1..Len(list) : list[i] \in Sentences
  OBVIOUS
<1>2. 0 \in P
  BY <1>0, <1>1 DEF AdmitRun
<1>3. ASSUME NEW i \in 0..(Len(list) - 1), i \in P PROVE i + 1 \in P
  <2>1. i + 1 \in 1..Len(list) /\ (i + 1) - 1 = i
    BY <1>1
  <2>2. t[i + 1] = AdmitOne(t[i], p, limit, list[i + 1])
    BY <1>0, <2>1 DEF AdmitRun
  <2>3. t[i + 1] \in Tables
    BY <1>1, <1>3, <2>1, <2>2, AdmitOneIsTable
  <2> QED
    BY <1>1, <2>1, <2>3
<1>4. \A i \in 0..Len(list) : i \in P
  <2>1. \A i \in 0..(Len(list) - 1) : i \in P => i + 1 \in P
    BY <1>3
  <2> HIDE DEF P
  <2> QED
    BY <1>1, <1>2, <2>1, Climb, Zenon
<1> QED
  BY <1>0, <1>1, <1>4 DEF AdmitRun

LEMMA ClassifyRuns ==
    ASSUME NEW set \in SUBSET Sentences, NEW limit, NEW order \in Seq(Codes)
    PROVE  \E t : ClassifyRun(t, set, order, limit)
<1> DEFINE D == SUBSET (1..Len(order))
           Step(t, p) == ClassifyOne(t, set, p, limit)
           Def(g) == g = [S \in D |-> IF S = {} THEN EmptyPacks ELSE Step(g[S \ {Max(S)}], order[Max(S)])]
           it == CHOOSE g : Def(g)
           H == [z \in Tables \X Codes |-> Step(z[1], z[2])]
<1>1. DOMAIN order = 1..Len(order) /\ Len(order) \in Nat /\ \A i \in 1..Len(order) : order[i] \in Codes
  OBVIOUS
<1>2. \A table \in Tables : \A p \in Codes : Step(table, p) \in Tables
  <2> TAKE table \in Tables
  <2> TAKE p \in Codes
  <2>1. Ranked(set, p) \in Seq(Sentences)
    <3>1. Options(set, p) \subseteq Sentences
      BY DEF Options
    <3> QED
      BY <3>1, RankedLists
  <2> QED
    BY <2>1, AdmitIsTable DEF ClassifyOne
<1>a. H \in [Tables \X Codes -> Tables]
  <2> HIDE DEF Step
  <2> QED
    BY <1>2
<1>3. PICK g \in [D -> Tables] : g[{}] = EmptyPacks /\ \A S \in D : S # {} => g[S] = H[<<g[S \ {Max(S)}], order[Max(S)]>>]
  <2> HIDE DEF H
  <2>1. PICK g : Folds(g, Tables, H, EmptyPacks, order)
    BY <1>a, FoldExists, EmptyIsTable, Zenon
  <2> QED
    BY <2>1 DEF Folds
<1>4. Def(g)
  <2>1. ASSUME NEW S \in D, S # {} PROVE H[<<g[S \ {Max(S)}], order[Max(S)]>>] = Step(g[S \ {Max(S)}], order[Max(S)])
    <3>1. Max(S) \in S
      BY <1>1, <2>1, MaxExists
    <3>2. g[S \ {Max(S)}] \in Tables /\ order[Max(S)] \in Codes
      <4>1. S \ {Max(S)} \in D
        OBVIOUS
      <4> QED
        BY <3>1, <4>1, <1>1
    <3> HIDE DEF Step
    <3> QED
      BY <3>2
  <2> HIDE DEF H, Step
  <2>2. \A S \in D : g[S] = IF S = {} THEN EmptyPacks ELSE Step(g[S \ {Max(S)}], order[Max(S)])
    BY <1>3, <2>1
  <2>3. g = [S \in D |-> g[S]]
    OBVIOUS
  <2> QED
    BY <2>2, <2>3
<1>5. Def(it)
  <2> HIDE DEF Def
  <2> QED
    BY <1>4
<1>6. ClassifyCandidates(set, order, limit) = it[1..Len(order)]
  BY <1>1 DEF ClassifyCandidates, FoldLeft, MapThenFoldSet, ClassifyOne
<1> DEFINE t == [i \in 0..Len(order) |-> it[1..i]]
<1> HIDE DEF it, Step
<1>7. t[0] = EmptyPacks
  BY <1>1, <1>5
<1>8. \A i \in 1..Len(order) : t[i] = Step(t[i - 1], order[i])
  <2> TAKE i \in 1..Len(order)
  <2>1. (1..i) \ {Max(1..i)} = 1..(i - 1) /\ Max(1..i) = i /\ 1..i # {} /\ 1..i \in D
    BY <1>1, Intervals
  <2>2. it[1..i] = Step(it[1..(i - 1)], order[i])
    BY <1>5, <2>1
  <2> QED
    BY <1>1, <2>2
<1>9. t[Len(order)] = it[1..Len(order)]
  BY <1>1
<1> HIDE DEF t
<1> QED
  BY <1>6, <1>7, <1>8, <1>9 DEF Step, ClassifyRun

\* A classification keeps the texts apart, and leaves out an option only for another
\* that stands for it or because the pack is full.
LEMMA ClassifyMakes ==
    ASSUME NEW set \in SUBSET Sentences, NEW limit \in Nat, NEW order \in Seq(Codes)
    PROVE  LET made == ClassifyCandidates(set, order, limit) IN
           /\ Fit(made, set, limit)
           /\ \A p \in ToSet(order) : \A row \in Options(set, p) : Has(made, row) \/ Len(made[p]) = limit
<1>0. PICK t : ClassifyRun(t, set, order, limit)
  BY ClassifyRuns, Zenon
<1>1. /\ t[0] = EmptyPacks
      /\ \A i \in 1..Len(order) : t[i] = ClassifyOne(t[i - 1], set, order[i], limit)
      /\ ClassifyCandidates(set, order, limit) = t[Len(order)]
  BY <1>0 DEF ClassifyRun
<1>2. Len(order) \in Nat /\ DOMAIN order = 1..Len(order) /\ \A i \in 1..Len(order) : order[i] \in Codes
  OBVIOUS
<1> DEFINE Full(i, j) == \A row \in Options(set, order[j]) : Has(t[i], row) \/ Len(t[i][order[j]]) = limit
           Right(i) == Fit(t[i], set, limit) /\ \A j \in 1..i : Full(i, j)
           P == {i \in 0..Len(order) : Right(i)}
<1>3. Right(0)
  BY <1>1, EmptyIsTable DEF Fit
<1>4. ASSUME NEW i \in 0..(Len(order) - 1), Right(i) PROVE Right(i + 1)
  <2>1. i + 1 \in 1..Len(order) /\ (i + 1) - 1 = i
    BY <1>2
  <2> DEFINE p == order[i + 1]
             list == Ranked(set, p)
  <2>2. t[i + 1] = Admit(t[i], p, limit, list) /\ p \in Codes
    BY <1>1, <1>2, <2>1 DEF ClassifyOne
  <2>3. list \in Seq(Options(set, p)) /\ ToSet(list) = Options(set, p)
    BY <2>2, RankedLists
  <2> HIDE DEF list
  <2>4. /\ Fit(t[i + 1], set, limit) /\ Grows(t[i], t[i + 1])
        /\ \A row \in Options(set, p) : Has(t[i + 1], row) \/ Len(t[i + 1][p]) = limit
    <3>1. Fit(t[i], set, limit)
      BY <1>4
    <3> HIDE DEF p
    <3>2. LET more == Admit(t[i], p, limit, list) IN
          /\ Fit(more, set, limit) /\ Grows(t[i], more)
          /\ \A row \in ToSet(list) : Has(more, row) \/ Len(more[p]) = limit
      BY <2>2, <2>3, <3>1, AdmitKeeps
    <3> QED
      BY <2>2, <2>3, <3>2
  <2>5. t[i] \in Tables /\ t[i + 1] \in Tables
    BY <1>4, <2>4 DEF Fit
  <2>6. \A j \in 1..(i + 1) : Full(i + 1, j)
    <3> SUFFICES ASSUME NEW j \in 1..i, NEW row \in Options(set, order[j])
                 PROVE  Has(t[i + 1], row) \/ Len(t[i + 1][order[j]]) = limit
      BY <2>4
    <3>1. j \in 1..Len(order) /\ order[j] \in Codes
      BY <1>2
    <3>2. Len(t[i][order[j]]) \in Nat /\ Len(t[i + 1][order[j]]) \in Nat
      BY <2>5, <3>1 DEF Tables
    <3>3. Len(t[i + 1][order[j]]) <= limit /\ Len(t[i][order[j]]) <= Len(t[i + 1][order[j]])
      BY <2>4, <3>1 DEF Fit, Grows
    <3>4. Has(t[i], row) \/ Len(t[i][order[j]]) = limit
      BY <1>4
    <3> QED
      BY <2>4, <3>2, <3>3, <3>4 DEF Grows, Has
  <2> QED
    BY <2>4, <2>6
<1> HIDE DEF Right
<1>5. 0 \in P /\ \A i \in 0..(Len(order) - 1) : i \in P => i + 1 \in P
  BY <1>2, <1>3, <1>4
<1>6. \A i \in 0..Len(order) : i \in P
  <2> HIDE DEF P
  <2> QED
    BY <1>2, <1>5, Climb, Zenon
<1>7. Right(Len(order))
  BY <1>2, <1>6
<1>8. \A p \in ToSet(order) : \E j \in 1..Len(order) : p = order[j]
  BY <1>2 DEF ToSet
<1> QED
  BY <1>1, <1>7, <1>8 DEF Right

\* What one more sentence for the smallest pack adds, and when nothing is left to add.
OpenPacks(base, extra, n) ==
    {p \in Codes : Len(base[p]) + n[p] < TargetPerPack /\ n[p] < Len(extra[p])}

Smallest(base, extra, n) ==
    CHOOSE p \in OpenPacks(base, extra, n) : \A q \in OpenPacks(base, extra, n) :
        \/ Len(base[p]) + n[p] < Len(base[q]) + n[q]
        \/ /\ Len(base[p]) + n[p] = Len(base[q]) + n[q]
           /\ (CHOOSE k \in DOMAIN SceneCodes : SceneCodes[k] = p)
                <= (CHOOSE k \in DOMAIN SceneCodes : SceneCodes[k] = q)

TakeOne(base, extra, n) ==
    IF OpenPacks(base, extra, n) = {} THEN n ELSE [n EXCEPT ![Smallest(base, extra, n)] = @ + 1]

LEMMA SmallestExists ==
    ASSUME NEW base \in Tables, NEW extra \in Tables, NEW n \in [Codes -> Nat], OpenPacks(base, extra, n) # {}
    PROVE  Smallest(base, extra, n) \in OpenPacks(base, extra, n)
<1> DEFINE Open == OpenPacks(base, extra, n)
           Size(p) == Len(base[p]) + n[p]
           Rank(p) == CHOOSE k \in DOMAIN SceneCodes : SceneCodes[k] = p
           sizes == {Size(p) : p \in Open}
<1>1. Open \subseteq Codes
  BY DEF OpenPacks
<1>2. \A p \in Codes : Size(p) \in Nat
  BY DEF Tables
<1>3. \A p \in Codes : Rank(p) \in Nat
  <2> TAKE p \in Codes
  <2>1. SceneCodes \in Seq(Codes) /\ DOMAIN SceneCodes \subseteq Nat
    BY MaterialAssumption
  <2>2. \E k \in DOMAIN SceneCodes : SceneCodes[k] = p
    BY DEF Codes, ToSet
  <2> QED
    BY <2>1, <2>2
<1> HIDE DEF Size, Rank, Open
<1>4. sizes \in SUBSET Nat /\ sizes # {}
  BY <1>1, <1>2 DEF Open
<1>5. PICK least \in sizes : \A m \in sizes : least <= m
  <2> HIDE DEF sizes
  <2> QED
    BY <1>4, LeastExists
<1> DEFINE ranks == {Rank(p) : p \in {q \in Open : Size(q) = least}}
<1>6. ranks \in SUBSET Nat /\ ranks # {}
  BY <1>1, <1>3, <1>5
<1>7. PICK first \in ranks : \A m \in ranks : first <= m
  <2> HIDE DEF ranks
  <2> QED
    BY <1>6, LeastExists
<1>8. PICK p \in Open : Size(p) = least /\ Rank(p) = first
  BY <1>7
<1>9. \A q \in Open : Size(p) < Size(q) \/ (Size(p) = Size(q) /\ Rank(p) <= Rank(q))
  <2> TAKE q \in Open
  <2>1. Size(p) <= Size(q) /\ Size(p) \in Nat /\ Size(q) \in Nat
    BY <1>1, <1>2, <1>5, <1>8
  <2>2. Size(q) = Size(p) => Rank(p) <= Rank(q)
    BY <1>7, <1>8
  <2> QED
    BY <2>1, <2>2
<1>10. Smallest(base, extra, n) = CHOOSE s \in Open : \A q \in Open : Size(s) < Size(q) \/ (Size(s) = Size(q) /\ Rank(s) <= Rank(q))
  BY DEF Smallest, Open, Size, Rank
<1>11. Smallest(base, extra, n) \in Open
  BY <1>8, <1>9, <1>10
<1> QED
  BY <1>11 DEF Open

SupplementRun(t, base, extra, most) ==
    /\ t[0] = [p \in Codes |-> 0]
    /\ \A i \in 1..most : t[i] = TakeOne(base, extra, t[i - 1])
    /\ Supplemented(base, extra, most) = [p \in Codes |-> base[p] \o SubSeq(extra[p], 1, t[most][p])]

LEMMA TakeOneCounts ==
    ASSUME NEW base \in Tables, NEW extra \in Tables, NEW n \in [Codes -> Nat]
    PROVE  TakeOne(base, extra, n) \in [Codes -> Nat]
<1>1. OpenPacks(base, extra, n) # {} => Smallest(base, extra, n) \in Codes
  BY SmallestExists DEF OpenPacks
<1> QED
  BY <1>1 DEF TakeOne

LEMMA SupplementRuns ==
    ASSUME NEW base \in Tables, NEW extra \in Tables, NEW most \in Nat
    PROVE  \E t : SupplementRun(t, base, extra, most)
<1> DEFINE list == [k \in 1..most |-> k]
           D == SUBSET (1..most)
           A == [Codes -> Nat]
           none == [p \in Codes |-> 0]
           Step(n) == TakeOne(base, extra, n)
           Def(g) == g = [S \in D |-> IF S = {} THEN none ELSE Step(g[S \ {Max(S)}])]
           it == CHOOSE g : Def(g)
           H == [z \in A \X Nat |-> Step(z[1])]
<1>1. list \in Seq(Nat) /\ Len(list) = most /\ none \in A
  OBVIOUS
<1>2. H \in [A \X Nat -> A]
  BY TakeOneCounts
<1>3. PICK g \in [D -> A] : g[{}] = none /\ \A S \in D : S # {} => g[S] = H[<<g[S \ {Max(S)}], list[Max(S)]>>]
  <2> HIDE DEF H, list, A, none
  <2>1. PICK g : Folds(g, A, H, none, list)
    BY <1>1, <1>2, FoldExists, Zenon
  <2> QED
    BY <1>1, <2>1 DEF Folds
<1>4. Def(g)
  <2>1. ASSUME NEW S \in D, S # {} PROVE H[<<g[S \ {Max(S)}], list[Max(S)]>>] = Step(g[S \ {Max(S)}])
    <3>1. Max(S) \in S
      BY <2>1, MaxExists
    <3>2. g[S \ {Max(S)}] \in A /\ list[Max(S)] \in Nat
      <4>1. S \ {Max(S)} \in D
        OBVIOUS
      <4>2. Max(S) \in 1..most
        BY <3>1
      <4> HIDE DEF A
      <4> QED
        BY <4>1, <4>2
    <3> HIDE DEF Step, A
    <3> QED
      BY <3>2
  <2> HIDE DEF H, Step, A, none
  <2>2. \A S \in D : g[S] = IF S = {} THEN none ELSE Step(g[S \ {Max(S)}])
    BY <1>3, <2>1
  <2>3. g = [S \in D |-> g[S]]
    OBVIOUS
  <2> QED
    BY <2>2, <2>3
<1>5. Def(it)
  <2> HIDE DEF Def
  <2> QED
    BY <1>4
<1>6. Supplemented(base, extra, most) = [p \in Codes |-> base[p] \o SubSeq(extra[p], 1, it[1..most][p])]
  <2> DEFINE taken == FoldLeft(LAMBDA n, k : TakeOne(base, extra, n), none, list)
  <2>1. Supplemented(base, extra, most) = [p \in Codes |-> base[p] \o SubSeq(extra[p], 1, taken[p])]
    BY DEF Supplemented, FoldLeft, MapThenFoldSet, TakeOne, OpenPacks, Smallest
  <2>2. DOMAIN list = 1..most
    OBVIOUS
  <2>3. taken = it[1..most]
    <3> HIDE DEF list, none
    <3> QED
      BY <2>2 DEF FoldLeft, MapThenFoldSet
  <2> HIDE DEF taken, it
  <2> QED
    BY <2>1, <2>3
<1> DEFINE t == [i \in 0..most |-> it[1..i]]
<1> HIDE DEF it, Step, none
<1>7. t[0] = none
  BY <1>5
<1>8. \A i \in 1..most : t[i] = Step(t[i - 1])
  <2> TAKE i \in 1..most
  <2>1. (1..i) \ {Max(1..i)} = 1..(i - 1) /\ Max(1..i) = i /\ 1..i # {} /\ 1..i \in D
    BY Intervals
  <2>2. it[1..i] = Step(it[1..(i - 1)])
    BY <1>5, <2>1
  <2> QED
    BY <2>2
<1>9. t[most] = it[1..most]
  OBVIOUS
<1> HIDE DEF t
<1> QED
  <2>1. SupplementRun(t, base, extra, most)
    BY <1>6, <1>7, <1>8, <1>9 DEF Step, SupplementRun, none
  <2> QED
    BY <2>1

\* The places up to the target of a pack.
LEMMA TargetIs ==
    /\ TargetPerPack \in Nat \ {0}
    /\ IsFiniteSet(1..TargetPerPack) /\ Cardinality(1..TargetPerPack) = TargetPerPack
<1>1. TargetPerPack \in Nat \ {0}
  BY MaterialAssumption
<1>2. IsFiniteSet(1..TargetPerPack) /\ Cardinality(1..TargetPerPack) = TargetPerPack
  <2> DEFINE N == TargetPerPack
  <2>1. N \in Nat
    BY <1>1
  <2> HIDE DEF N
  <2>2. IsFiniteSet(1..N) /\ Cardinality(1..N) = N
    BY <2>1, FS_Interval
  <2> QED
    BY <2>2 DEF N
<1> QED
  BY <1>1, <1>2

\* The places that are filled, of those a pack may have.
Filled(n) == {z \in Codes \X (1..TargetPerPack) : z[2] <= n[z[1]]}

Settled(base, extra, n) ==
    /\ n \in [Codes -> Nat]
    /\ \A p \in Codes : n[p] <= Len(extra[p]) /\ Len(base[p]) + n[p] <= TargetPerPack

LEMMA TakeOneSettles ==
    ASSUME NEW base \in Tables, NEW extra \in Tables, NEW n, Settled(base, extra, n), OpenPacks(base, extra, n) # {}
    PROVE  LET more == TakeOne(base, extra, n) IN
           /\ Settled(base, extra, more)
           /\ Cardinality(Filled(more)) = Cardinality(Filled(n)) + 1
<1> DEFINE p == Smallest(base, extra, n)
           more == TakeOne(base, extra, n)
           goal == TargetPerPack
<1>1. n \in [Codes -> Nat] /\ goal \in Nat
  BY MaterialAssumption DEF Settled
<1>2. p \in Codes /\ Len(base[p]) + n[p] < goal /\ n[p] < Len(extra[p])
  <2>1. p \in OpenPacks(base, extra, n)
    BY <1>1, SmallestExists
  <2> HIDE DEF p
  <2> QED
    BY <2>1 DEF OpenPacks
<1>3. more = [n EXCEPT ![p] = n[p] + 1]
  BY DEF TakeOne
<1> HIDE DEF p, more, goal
<1>4. \A q \in Codes : Len(base[q]) \in Nat /\ Len(extra[q]) \in Nat
  BY DEF Tables
<1>5. more \in [Codes -> Nat] /\ \A q \in Codes : more[q] = IF q = p THEN n[p] + 1 ELSE n[q]
  BY <1>1, <1>2, <1>3
<1>6. Settled(base, extra, more)
  <2> SUFFICES ASSUME NEW q \in Codes PROVE more[q] <= Len(extra[q]) /\ Len(base[q]) + more[q] <= goal
    BY <1>5 DEF Settled, goal
  <2>1. n[q] <= Len(extra[q]) /\ Len(base[q]) + n[q] <= goal
    BY DEF Settled, goal
  <2>2. n[q] \in Nat /\ n[p] \in Nat
    BY <1>1, <1>2
  <2> QED
    <3>1. CASE q = p
      BY <1>1, <1>2, <1>4, <1>5, <2>2, <3>1
    <3>2. CASE q # p
      BY <1>5, <2>1, <3>2
    <3> QED
      BY <3>1, <3>2
<1>7. <<p, n[p] + 1>> \in Codes \X (1..goal) /\ n[p] \in Nat
  BY <1>1, <1>2, <1>4
<1>8. Filled(more) = Filled(n) \cup {<<p, n[p] + 1>>}
  <2>1. \A z \in Codes \X (1..goal) : z[2] <= more[z[1]] <=> z[2] <= n[z[1]] \/ z = <<p, n[p] + 1>>
    <3> TAKE z \in Codes \X (1..goal)
    <3> DEFINE q == z[1]
               k == z[2]
    <3>1. z = <<q, k>> /\ q \in Codes /\ k \in Nat
      OBVIOUS
    <3> HIDE DEF q, k
    <3>2. n[q] \in Nat
      BY <1>1, <3>1
    <3> QED
      BY <1>5, <1>7, <3>1, <3>2
  <2> QED
    BY <1>7, <2>1 DEF Filled, goal
<1>9. <<p, n[p] + 1>> \notin Filled(n)
  <2> DEFINE z == <<p, n[p] + 1>>
  <2>1. z[1] = p /\ z[2] = n[p] + 1
    OBVIOUS
  <2> HIDE DEF z
  <2>2. ~(z[2] <= n[z[1]])
    BY <1>7, <2>1
  <2> QED
    BY <2>2 DEF z, Filled
<1>10. IsFiniteSet(Filled(n))
  <2>1. IsFiniteSet(Codes \X (1..TargetPerPack))
    BY CodesFinite, TargetIs, FS_Product
  <2>2. Filled(n) \in SUBSET (Codes \X (1..TargetPerPack))
    BY DEF Filled
  <2> QED
    BY <2>1, <2>2, FS_Subset
<1>11. Cardinality(Filled(more)) = Cardinality(Filled(n)) + 1
  BY <1>8, <1>9, <1>10, FS_AddElement
<1> QED
  BY <1>6, <1>11 DEF more

\* As many sentences are taken as there is room for, or as there are.
LEMMA SupplementMakes ==
    ASSUME NEW base \in Tables, NEW extra \in Tables, NEW most \in Nat,
           \A p \in Codes : Len(base[p]) <= TargetPerPack
    PROVE  \E n : /\ Settled(base, extra, n)
                  /\ Supplemented(base, extra, most) = [p \in Codes |-> base[p] \o SubSeq(extra[p], 1, n[p])]
                  /\ most = TargetPerPack * Len(SceneCodes) => OpenPacks(base, extra, n) = {}
<1> DEFINE Open(n) == OpenPacks(base, extra, n)
<1>0. PICK t : SupplementRun(t, base, extra, most)
  BY SupplementRuns, Zenon
<1>1. /\ t[0] = [p \in Codes |-> 0]
      /\ \A i \in 1..most : t[i] = TakeOne(base, extra, t[i - 1])
      /\ Supplemented(base, extra, most) = [p \in Codes |-> base[p] \o SubSeq(extra[p], 1, t[most][p])]
  BY <1>0 DEF SupplementRun
<1> DEFINE Right(i) == /\ Settled(base, extra, t[i])
                       /\ Open(t[i]) = {} \/ Cardinality(Filled(t[i])) = i
           P == {i \in 0..most : Right(i)}
<1>2. Right(0)
  <2>1. Settled(base, extra, t[0])
    BY <1>1 DEF Settled, Tables
  <2>2. Filled(t[0]) = {}
    <3> SUFFICES ASSUME NEW z \in Codes \X (1..TargetPerPack) PROVE ~(z[2] <= t[0][z[1]])
      BY DEF Filled
    <3>1. z[1] \in Codes /\ z[2] \in 1..TargetPerPack /\ t[0][z[1]] = 0 /\ TargetPerPack \in Nat
      BY <1>1, MaterialAssumption
    <3> QED
      BY <3>1
  <2> QED
    BY <2>1, <2>2, FS_EmptySet
<1>3. ASSUME NEW i \in 0..(most - 1), Right(i) PROVE Right(i + 1)
  <2>1. i + 1 \in 1..most /\ (i + 1) - 1 = i
    OBVIOUS
  <2>2. t[i + 1] = TakeOne(base, extra, t[i])
    BY <1>1, <2>1
  <2>3. CASE Open(t[i]) = {}
    <3>1. t[i + 1] = t[i]
      BY <2>2, <2>3 DEF TakeOne
    <3> QED
      BY <1>3, <2>3, <3>1
  <2>4. CASE Open(t[i]) # {}
    <3>1. Settled(base, extra, t[i]) /\ Cardinality(Filled(t[i])) = i
      BY <1>3, <2>4
    <3>2. Settled(base, extra, t[i + 1]) /\ Cardinality(Filled(t[i + 1])) = Cardinality(Filled(t[i])) + 1
      BY <2>2, <2>4, <3>1, TakeOneSettles
    <3> QED
      BY <3>1, <3>2
  <2> QED
    BY <2>3, <2>4
<1> HIDE DEF Right
<1>4. 0 \in P /\ \A i \in 0..(most - 1) : i \in P => i + 1 \in P
  BY <1>2, <1>3
<1>5. \A i \in 0..most : i \in P
  <2> HIDE DEF P
  <2> QED
    BY <1>4, Climb, Zenon
<1>6. Settled(base, extra, t[most]) /\ (Open(t[most]) = {} \/ Cardinality(Filled(t[most])) = most)
  <2>1. Right(most)
    BY <1>5
  <2> QED
    BY <2>1 DEF Right
<1>7. ASSUME most = TargetPerPack * Len(SceneCodes) PROVE Open(t[most]) = {}
  <2> SUFFICES ASSUME Open(t[most]) # {} PROVE FALSE
    OBVIOUS
  <2> DEFINE all == Codes \X (1..TargetPerPack)
  <2>1. IsFiniteSet(all) /\ Cardinality(all) = most
    <3>1. TargetPerPack \in Nat /\ IsFiniteSet(1..TargetPerPack) /\ Cardinality(1..TargetPerPack) = TargetPerPack
      BY TargetIs
    <3>2. IsFiniteSet(all) /\ Cardinality(all) = Cardinality(Codes) * Cardinality(1..TargetPerPack)
      BY <3>1, CodesFinite, FS_Product
    <3>3. Cardinality(Codes) = Len(SceneCodes) /\ Len(SceneCodes) \in Nat
      BY CodesFinite
    <3> QED
      BY <1>7, <3>1, <3>2, <3>3
  <2>2. Filled(t[most]) \in SUBSET all
    BY DEF Filled
  <2>3. Filled(t[most]) = all
    <3> HIDE DEF all
    <3> QED
      BY <1>6, <2>1, <2>2, FS_Subset
  <2>4. PICK p \in Codes : Len(base[p]) + t[most][p] < TargetPerPack
    BY DEF OpenPacks
  <2>5. TargetPerPack \in Nat \ {0}
    BY MaterialAssumption
  <2>6. <<p, TargetPerPack>> \in all
    BY <2>5
  <2>7. TargetPerPack <= t[most][p]
    <3> DEFINE z == <<p, TargetPerPack>>
    <3>1. z[1] = p /\ z[2] = TargetPerPack /\ z \in Filled(t[most])
      BY <2>3, <2>6
    <3> HIDE DEF z
    <3> QED
      BY <3>1 DEF Filled
  <2>8. Len(base[p]) \in Nat /\ t[most][p] \in Nat
    BY <1>6 DEF Tables, Settled
  <2> QED
    BY <2>4, <2>5, <2>7, <2>8
<1> QED
  BY <1>1, <1>6, <1>7

\* The packs keep what they had, and stay apart if the new texts are new.
Joins(base, extra, n, more) ==
    /\ more \in Tables
    /\ \A p \in Codes :
         /\ Len(more[p]) = Len(base[p]) + n[p] /\ Len(more[p]) <= TargetPerPack
         /\ \A i \in 1..Len(more[p]) :
                more[p][i] = IF i <= Len(base[p]) THEN base[p][i] ELSE extra[p][i - Len(base[p])]
    /\ RowsOf(more) \subseteq RowsOf(base) \cup RowsOf(extra)
    /\ RowsOf(base) \subseteq RowsOf(more)

LEMMA SupplementKeeps ==
    ASSUME NEW base \in Tables, NEW extra \in Tables, NEW more, NEW n, Settled(base, extra, n),
           more = [p \in Codes |-> base[p] \o SubSeq(extra[p], 1, n[p])]
    PROVE  /\ Joins(base, extra, n, more)
           /\ Apart(base) /\ Apart(extra) /\ Norms(RowsOf(base)) \cap Norms(RowsOf(extra)) = {} => Apart(more)
<1>1. \A p \in Codes : /\ base[p] \in Seq(Sentences) /\ extra[p] \in Seq(Sentences)
                       /\ n[p] \in Nat /\ n[p] <= Len(extra[p]) /\ Len(base[p]) + n[p] <= TargetPerPack
  BY DEF Tables, Settled
<1>2. ASSUME NEW p \in Codes
      PROVE  /\ more[p] \in Seq(Sentences) /\ Len(more[p]) = Len(base[p]) + n[p]
             /\ \A i \in 1..Len(more[p]) :
                    more[p][i] = IF i <= Len(base[p]) THEN base[p][i] ELSE extra[p][i - Len(base[p])]
  <2> DEFINE part == SubSeq(extra[p], 1, n[p])
  <2>1. part \in Seq(Sentences) /\ Len(part) = n[p] /\ \A i \in 1..n[p] : part[i] = extra[p][i]
    BY <1>1
  <2>2. more[p] = base[p] \o part
    OBVIOUS
  <2> HIDE DEF part
  <2> DEFINE one == base[p]
  <2>3. one \in Seq(Sentences) /\ one = base[p]
    BY <1>1
  <2> HIDE DEF one
  <2>4. one \o part \in Seq(Sentences) /\ Len(one \o part) = Len(one) + Len(part)
        /\ \A i \in 1..(Len(one) + Len(part)) : (one \o part)[i] = IF i <= Len(one) THEN one[i] ELSE part[i - Len(one)]
    <3>1. one \in Seq(Sentences) /\ part \in Seq(Sentences)
      BY <2>1, <2>3, Zenon
    <3> QED
      BY <3>1, Joined, Zenon
  <2>5. \A i \in 1..(Len(one) + n[p]) : i > Len(one) => i - Len(one) \in 1..n[p]
    BY <1>1, <2>3
  <2>6. more[p] = one \o part
    BY <2>2, <2>3
  <2> HIDE DEF Settled
  <2>7. \A i \in 1..(Len(one) + n[p]) : more[p][i] = IF i <= Len(one) THEN one[i] ELSE extra[p][i - Len(one)]
    <3>1. Len(one) \in Nat /\ n[p] \in Nat
      BY <1>1, <2>3
    <3> HIDE DEF OpenPacks
    <3> TAKE i \in 1..(Len(one) + n[p])
    <3>2. more[p][i] = IF i <= Len(one) THEN one[i] ELSE part[i - Len(one)]
      BY <2>1, <2>4, <2>6
    <3>3. i > Len(one) => part[i - Len(one)] = extra[p][i - Len(one)]
      BY <2>1, <2>5
    <3> QED
      BY <3>1, <3>2, <3>3
  <2> QED
    BY <2>1, <2>3, <2>4, <2>6, <2>7
<1>3. more \in Tables
  BY <1>2 DEF Tables
<1>4. \A p \in Codes : Len(base[p]) \in Nat /\ Len(extra[p]) \in Nat
  BY <1>1
<1>5. ASSUME NEW p \in Codes, NEW i \in 1..Len(more[p])
      PROVE  \/ i \in 1..Len(base[p]) /\ more[p][i] = base[p][i]
             \/ i - Len(base[p]) \in 1..Len(extra[p]) /\ i > Len(base[p]) /\ more[p][i] = extra[p][i - Len(base[p])]
  BY <1>1, <1>2, <1>4, SMTT(30)
<1>6. \A p \in Codes : \A i \in 1..Len(base[p]) : i \in 1..Len(more[p]) /\ more[p][i] = base[p][i]
  BY <1>1, <1>2, <1>4
<1>7. \A o : o \in RowsOf(base) <=> \E p \in Codes : \E i \in 1..Len(base[p]) : o = base[p][i]
  BY RowsAre
<1>8. \A o : o \in RowsOf(extra) <=> \E p \in Codes : \E i \in 1..Len(extra[p]) : o = extra[p][i]
  BY RowsAre
<1>9. \A o : o \in RowsOf(more) <=> \E p \in Codes : \E i \in 1..Len(more[p]) : o = more[p][i]
  BY <1>3, RowsAre
<1>10. RowsOf(more) \subseteq RowsOf(base) \cup RowsOf(extra)
  <2> SUFFICES ASSUME NEW p \in Codes, NEW i \in 1..Len(more[p]) PROVE more[p][i] \in RowsOf(base) \cup RowsOf(extra)
    BY <1>9
  <2> QED
    BY <1>5, <1>7, <1>8, SMTT(30)
<1>11. RowsOf(base) \subseteq RowsOf(more)
  <2> SUFFICES ASSUME NEW p \in Codes, NEW i \in 1..Len(base[p]) PROVE base[p][i] \in RowsOf(more)
    BY <1>7
  <2> QED
    BY <1>6, <1>9
<1>12. ASSUME Apart(base), Apart(extra), Norms(RowsOf(base)) \cap Norms(RowsOf(extra)) = {} PROVE Apart(more)
  <2>1. \A p, q \in Codes : \A i \in 1..Len(base[p]) : \A j \in 1..Len(extra[q]) : base[p][i].norm # extra[q][j].norm
    <3> TAKE p, q \in Codes
    <3> TAKE i \in 1..Len(base[p])
    <3> TAKE j \in 1..Len(extra[q])
    <3>1. base[p][i] \in RowsOf(base) /\ extra[q][j] \in RowsOf(extra)
      BY <1>7, <1>8
    <3> QED
      BY <1>12, <3>1 DEF Norms
  <2> SUFFICES ASSUME NEW p \in Codes, NEW q \in Codes, NEW i \in 1..Len(more[p]), NEW j \in 1..Len(more[q]),
                      more[p][i].norm = more[q][j].norm
               PROVE  p = q /\ i = j
    BY DEF Apart
  <2> DEFINE k == i - Len(base[p])
             l == j - Len(base[q])
  <2>2. CASE i \in 1..Len(base[p]) /\ j \in 1..Len(base[q])
    <3>1. base[p][i].norm = base[q][j].norm
      BY <1>6, <2>2
    <3> QED
      BY <1>12, <2>2, <3>1 DEF Apart
  <2>3. CASE i \in 1..Len(base[p]) /\ l \in 1..Len(extra[q]) /\ more[q][j] = extra[q][l]
    <3>1. base[p][i].norm = extra[q][l].norm
      BY <1>6, <2>3
    <3> HIDE DEF l
    <3> QED
      BY <2>1, <2>3, <3>1
  <2>4. CASE j \in 1..Len(base[q]) /\ k \in 1..Len(extra[p]) /\ more[p][i] = extra[p][k]
    <3>1. base[q][j].norm = extra[p][k].norm
      BY <1>6, <2>4
    <3> HIDE DEF k
    <3> QED
      BY <2>1, <2>4, <3>1
  <2>5. CASE k \in 1..Len(extra[p]) /\ more[p][i] = extra[p][k] /\ l \in 1..Len(extra[q]) /\ more[q][j] = extra[q][l]
    <3>1. extra[p][k].norm = extra[q][l].norm
      BY <2>5
    <3>2. p = q /\ k = l
      <4> HIDE DEF k, l
      <4> QED
        BY <1>12, <2>5, <3>1 DEF Apart
    <3> QED
      BY <1>4, <3>2
  <2> HIDE DEF k, l
  <2> QED
    BY <1>5, <2>2, <2>3, <2>4, <2>5 DEF k, l
<1>13. Joins(base, extra, n, more)
  BY <1>1, <1>2, <1>3, <1>10, <1>11 DEF Joins
<1> QED
  BY <1>12, <1>13

\* The rows that the adapters let through, one after the other.
LetThrough(list, excluded, row) ==
    IF row.norm \in excluded \cup Norms(ToSet(list)) THEN list ELSE Append(list, row)

DistinctRun(t, list, excluded) ==
    /\ t[0] = <<>>
    /\ \A i \in 1..Len(list) : t[i] = LetThrough(t[i - 1], excluded, list[i])
    /\ Distinct(list, excluded) = t[Len(list)]

LEMMA DistinctRuns ==
    ASSUME NEW list \in Seq(Sentences), NEW excluded
    PROVE  \E t : DistinctRun(t, list, excluded)
<1> DEFINE D == SUBSET (1..Len(list))
           A == Seq(Sentences)
           none == <<>>
           Step(acc, row) == LetThrough(acc, excluded, row)
           Def(g) == g = [S \in D |-> IF S = {} THEN none ELSE Step(g[S \ {Max(S)}], list[Max(S)])]
           it == CHOOSE g : Def(g)
           H == [z \in A \X Sentences |-> Step(z[1], z[2])]
<1>1. DOMAIN list = 1..Len(list) /\ Len(list) \in Nat /\ none \in A /\ \A i \in 1..Len(list) : list[i] \in Sentences
  OBVIOUS
<1>2. H \in [A \X Sentences -> A]
  BY DEF LetThrough
<1>3. PICK g \in [D -> A] : g[{}] = none /\ \A S \in D : S # {} => g[S] = H[<<g[S \ {Max(S)}], list[Max(S)]>>]
  <2> HIDE DEF H, A, none
  <2>1. PICK g : Folds(g, A, H, none, list)
    BY <1>1, <1>2, FoldExists, Zenon
  <2> QED
    BY <2>1 DEF Folds
<1>4. Def(g)
  <2>1. ASSUME NEW S \in D, S # {} PROVE H[<<g[S \ {Max(S)}], list[Max(S)]>>] = Step(g[S \ {Max(S)}], list[Max(S)])
    <3>1. Max(S) \in S
      BY <1>1, <2>1, MaxExists
    <3>2. g[S \ {Max(S)}] \in A /\ list[Max(S)] \in Sentences
      <4>1. S \ {Max(S)} \in D
        OBVIOUS
      <4> HIDE DEF A
      <4> QED
        BY <3>1, <4>1, <1>1
    <3> HIDE DEF Step, A
    <3> QED
      BY <3>2
  <2> HIDE DEF H, Step, A, none
  <2>2. \A S \in D : g[S] = IF S = {} THEN none ELSE Step(g[S \ {Max(S)}], list[Max(S)])
    BY <1>3, <2>1
  <2>3. g = [S \in D |-> g[S]]
    OBVIOUS
  <2> QED
    BY <2>2, <2>3
<1>5. Def(it)
  <2> HIDE DEF Def
  <2> QED
    BY <1>4
<1>6. Distinct(list, excluded) = it[1..Len(list)]
  BY <1>1 DEF Distinct, FoldLeft, MapThenFoldSet, LetThrough
<1> DEFINE t == [i \in 0..Len(list) |-> it[1..i]]
<1> HIDE DEF it, Step, none
<1>7. t[0] = none
  BY <1>1, <1>5
<1>8. \A i \in 1..Len(list) : t[i] = Step(t[i - 1], list[i])
  <2> TAKE i \in 1..Len(list)
  <2>1. (1..i) \ {Max(1..i)} = 1..(i - 1) /\ Max(1..i) = i /\ 1..i # {} /\ 1..i \in D
    BY <1>1, Intervals
  <2>2. it[1..i] = Step(it[1..(i - 1)], list[i])
    BY <1>5, <2>1
  <2> QED
    BY <1>1, <2>2
<1>9. t[Len(list)] = it[1..Len(list)]
  BY <1>1
<1> HIDE DEF t
<1> QED
  BY <1>6, <1>7, <1>8, <1>9 DEF Step, DistinctRun, none

LEMMA AppendHolds ==
    ASSUME NEW A, NEW s \in Seq(A), NEW new \in A
    PROVE  ToSet(Append(s, new)) = ToSet(s) \cup {new}
<1>1. /\ Append(s, new) \in Seq(A) /\ Len(Append(s, new)) = Len(s) + 1 /\ Len(s) \in Nat
      /\ Append(s, new)[Len(s) + 1] = new
      /\ \A i \in 1..Len(s) : Append(s, new)[i] = s[i]
  BY Appended
<1> DEFINE more == Append(s, new)
<1>2. DOMAIN more = 1..(Len(s) + 1) /\ DOMAIN s = 1..Len(s)
  OBVIOUS
<1> HIDE DEF more
<1>3. \A o : o \in ToSet(more) <=> \E i \in 1..(Len(s) + 1) : o = more[i]
  BY <1>2 DEF ToSet
<1>4. \A o : o \in ToSet(s) <=> \E i \in 1..Len(s) : o = s[i]
  BY <1>2 DEF ToSet
<1>5. \A i : i \in 1..(Len(s) + 1) <=> i \in 1..Len(s) \/ i = Len(s) + 1
  BY <1>1
<1> QED
  BY <1>1, <1>3, <1>4, <1>5 DEF more

\* Every text that is not excluded comes through, once.
LEMMA DistinctMakes ==
    ASSUME NEW list \in Seq(Sentences), NEW excluded
    PROVE  /\ ToSet(Distinct(list, excluded)) \subseteq ToSet(list)
           /\ \A row \in ToSet(Distinct(list, excluded)) : row.norm \notin excluded
           /\ \A row \in ToSet(list) : row.norm \in excluded \cup Norms(ToSet(Distinct(list, excluded)))
<1>0. PICK t : DistinctRun(t, list, excluded)
  BY DistinctRuns, Zenon
<1>1. /\ t[0] = <<>>
      /\ \A i \in 1..Len(list) : t[i] = LetThrough(t[i - 1], excluded, list[i])
      /\ Distinct(list, excluded) = t[Len(list)]
  BY <1>0 DEF DistinctRun
<1>2. DOMAIN list = 1..Len(list) /\ Len(list) \in Nat /\ \A i \in 1..Len(list) : list[i] \in Sentences
  OBVIOUS
<1> DEFINE Right(i) == /\ t[i] \in Seq(Sentences) /\ ToSet(t[i]) \subseteq ToSet(list)
                       /\ \A row \in ToSet(t[i]) : row.norm \notin excluded
                       /\ \A j \in 1..i : list[j].norm \in excluded \cup Norms(ToSet(t[i]))
           P == {i \in 0..Len(list) : Right(i)}
<1>3. Right(0)
  BY <1>1 DEF ToSet
<1>4. ASSUME NEW i \in 0..(Len(list) - 1), Right(i) PROVE Right(i + 1)
  <2> DEFINE row == list[i + 1]
  <2>1. i + 1 \in 1..Len(list) /\ (i + 1) - 1 = i
    BY <1>2
  <2>2. t[i + 1] = LetThrough(t[i], excluded, row) /\ row \in Sentences /\ row \in ToSet(list)
    BY <1>1, <1>2, <2>1 DEF ToSet
  <2>3. \A j \in 1..(i + 1) : j \in 1..i \/ j = i + 1
    OBVIOUS
  <2>4. CASE row.norm \in excluded \cup Norms(ToSet(t[i]))
    <3>1. t[i + 1] = t[i]
      BY <2>2, <2>4 DEF LetThrough
    <3> QED
      BY <1>4, <2>3, <2>4, <3>1
  <2>5. CASE row.norm \notin excluded \cup Norms(ToSet(t[i]))
    <3>1. t[i + 1] = Append(t[i], row) /\ t[i] \in Seq(Sentences)
      BY <1>4, <2>2, <2>5 DEF LetThrough
    <3>2. t[i + 1] \in Seq(Sentences) /\ ToSet(t[i + 1]) = ToSet(t[i]) \cup {row}
      BY <2>2, <3>1, AppendHolds, Appended
    <3>3. \A j \in 1..(i + 1) : list[j].norm \in excluded \cup Norms(ToSet(t[i + 1]))
      BY <1>4, <2>3, <3>2 DEF Norms
    <3> QED
      BY <1>4, <2>2, <2>5, <3>2, <3>3
  <2> QED
    BY <2>4, <2>5
<1> HIDE DEF Right
<1>5. 0 \in P /\ \A i \in 0..(Len(list) - 1) : i \in P => i + 1 \in P
  BY <1>2, <1>3, <1>4
<1>6. \A i \in 0..Len(list) : i \in P
  <2> HIDE DEF P
  <2> QED
    BY <1>2, <1>5, Climb, Zenon
<1>7. Right(Len(list))
  BY <1>2, <1>6
<1>8. \A row \in ToSet(list) : \E j \in 1..Len(list) : row = list[j]
  BY <1>2 DEF ToSet
<1> QED
  BY <1>1, <1>7, <1>8 DEF Right

-----------------------------------------------------------------------------
(* Materials: what the stages make of each other's packs.                  *)

LEMMA CleanedIs == Cleaned(Bilingual) \in SUBSET Sentences /\ Cleaned(Bilingual) \subseteq Bilingual
BY DEF Cleaned, Sentences

LEMMA ClassifiedMakes ==
    /\ Classified \in Tables /\ Apart(Classified)
    /\ RowsOf(Classified) \subseteq Bilingual
<1>1. TargetPerPack + ItemsPerPack \in Nat /\ AssignmentOrder \in Seq(Codes)
  BY MaterialAssumption
<1>2. Fit(Classified, Cleaned(Bilingual), TargetPerPack + ItemsPerPack)
  BY <1>1, CleanedIs, ClassifyMakes DEF Classified
<1>3. Classified \in Tables /\ Apart(Classified)
  BY <1>2 DEF Fit
<1>4. \A p \in Codes : \A i \in 1..Len(Classified[p]) : Classified[p][i] \in Bilingual
  BY <1>2, CleanedIs DEF Fit, Options
<1> HIDE DEF Classified
<1> QED
  BY <1>3, <1>4, RowsAre

\* The review leaves the texts apart, fills no pack above its target, and drops what
\* was rejected.
LEMMA ReviewedMakes ==
    ASSUME NEW table \in Tables, Apart(table)
    PROVE  /\ Reviewed(table) \in Tables /\ Apart(Reviewed(table))
           /\ RowsOf(Reviewed(table)) \subseteq RowsOf(table)
           /\ \A p \in Codes :
                /\ Len(Reviewed(table)[p]) <= TargetPerPack
                /\ \A i \in 1..Len(Reviewed(table)[p]) : Reviewed(table)[p][i] \notin Rejected(p)
<1> DEFINE more == Reviewed(table)
           kept(p) == Without(table[p], Rejected(p))
           size(p) == Least(TargetPerPack, Len(kept(p)))
<1>1. \A p \in Codes : table[p] \in Seq(Sentences)
  BY DEF Tables
<1>2. \A p \in Codes : more[p] = SubSeq(kept(p), 1, size(p))
  BY DEF Reviewed
<1>0. more = [p \in Codes |-> more[p]]
  BY DEF Reviewed
<1> HIDE DEF more
<1>3. ASSUME NEW p \in Codes
      PROVE  /\ more[p] \in Seq(Sentences) /\ Len(more[p]) <= TargetPerPack
             /\ \E at \in [1..Len(more[p]) -> 1..Len(table[p])] :
                    /\ \A i \in 1..Len(more[p]) : more[p][i] = table[p][at[i]] /\ more[p][i] \notin Rejected(p)
                    /\ \A i, j \in 1..Len(more[p]) : i < j => at[i] < at[j]
  <2> DEFINE left == Left(table[p], Rejected(p))
             N == Cardinality(left)
  <2>0. kept(p) \in Seq(Sentences) /\ \E at : Keeps(at, table[p], Rejected(p))
    BY <1>1, WithoutKeeps, Zenon
  <2>1. PICK at :
            /\ Len(kept(p)) = N /\ N \in Nat
            /\ at \in [1..N -> left]
            /\ \A m, n \in 1..N : m < n => at[m] < at[n]
            /\ \A n \in 1..N : kept(p)[n] = table[p][at[n]]
            /\ kept(p) \in Seq(Sentences)
    BY <2>0 DEF Keeps
  <2>2. size(p) \in Nat /\ size(p) <= N /\ size(p) <= TargetPerPack
    BY <2>1, TargetIs DEF Least
  <2> HIDE DEF left, N, kept, size
  <2>3. /\ more[p] \in Seq(Sentences) /\ Len(more[p]) = size(p)
        /\ \A i \in 1..size(p) : more[p][i] = kept(p)[i]
    <3>1. kept(p) \in Seq(Sentences) /\ size(p) \in Nat /\ size(p) <= Len(kept(p))
      BY <2>1, <2>2
    <3>2. more[p] = SubSeq(kept(p), 1, size(p))
      BY <1>2
    <3> QED
      BY <3>1, <3>2, Shortened
  <2> DEFINE to == [i \in 1..size(p) |-> at[i]]
  <2>4. \A i \in 1..size(p) : i \in 1..N /\ to[i] = at[i]
    BY <2>1, <2>2
  <2>5. \A i \in 1..size(p) : to[i] \in left
    BY <2>1, <2>4
  <2>6. to \in [1..size(p) -> 1..Len(table[p])]
    BY <2>5 DEF left, Left
  <2> HIDE DEF to
  <2>7. \A i \in 1..size(p) : more[p][i] = table[p][to[i]] /\ more[p][i] \notin Rejected(p)
    BY <2>1, <2>3, <2>4, <2>5 DEF left, Left
  <2>8. \A i, j \in 1..size(p) : i < j => to[i] < to[j]
    BY <2>1, <2>4
  <2> QED
    BY <2>2, <2>3, <2>6, <2>7, <2>8
<1>4. more \in Tables
  BY <1>0, <1>3 DEF Tables
<1>5. Apart(more)
  <2> SUFFICES ASSUME NEW p \in Codes, NEW q \in Codes, NEW i \in 1..Len(more[p]), NEW j \in 1..Len(more[q]),
                      more[p][i].norm = more[q][j].norm
               PROVE  p = q /\ i = j
    BY DEF Apart
  <2>1. PICK to \in [1..Len(more[p]) -> 1..Len(table[p])] :
            /\ \A k \in 1..Len(more[p]) : more[p][k] = table[p][to[k]]
            /\ \A k, l \in 1..Len(more[p]) : k < l => to[k] < to[l]
    BY <1>3
  <2>2. PICK on \in [1..Len(more[q]) -> 1..Len(table[q])] : \A k \in 1..Len(more[q]) : more[q][k] = table[q][on[k]]
    BY <1>3
  <2>3. p = q /\ to[i] = on[j]
    <3>1. table[p][to[i]].norm = table[q][on[j]].norm /\ to[i] \in 1..Len(table[p]) /\ on[j] \in 1..Len(table[q])
      BY <2>1, <2>2
    <3> QED
      BY <3>1 DEF Apart
  <2>4. table[p][to[j]].norm = table[p][to[i]].norm /\ j \in 1..Len(more[p])
    BY <2>1, <2>2, <2>3
  <2>5. to[i] = to[j]
    BY <2>1, <2>4, SMTT(30) DEF Apart
  <2>6. i \in Nat /\ j \in Nat /\ to[i] \in Nat /\ to[j] \in Nat
    BY <2>1, <2>4
  <2> QED
    BY <2>1, <2>3, <2>4, <2>5, <2>6
<1>6. RowsOf(more) \subseteq RowsOf(table)
  <2>1. \A o : o \in RowsOf(table) <=> \E p \in Codes : \E i \in 1..Len(table[p]) : o = table[p][i]
    BY RowsAre
  <2>2. \A o : o \in RowsOf(more) <=> \E p \in Codes : \E i \in 1..Len(more[p]) : o = more[p][i]
    BY <1>4, RowsAre
  <2> SUFFICES ASSUME NEW p \in Codes, NEW i \in 1..Len(more[p]) PROVE more[p][i] \in RowsOf(table)
    BY <2>2
  <2>3. PICK to \in [1..Len(more[p]) -> 1..Len(table[p])] : \A k \in 1..Len(more[p]) : more[p][k] = table[p][to[k]]
    BY <1>3
  <2> QED
    BY <2>1, <2>3
<1> QED
  BY <1>3, <1>4, <1>5, <1>6 DEF more

\* The packs after the review, with the CC0 sentences, and with the dialogues.
Second == Reviewed(Classified)
Third == Supplemented(Second, OpenOptions(Second), MaxTranslated)
Fourth == Supplemented(Third, SpokenOptions(Third), TargetPerPack * Len(SceneCodes))

LEMMA SecondMakes ==
    /\ Second \in Tables /\ Apart(Second) /\ RowsOf(Second) \subseteq Bilingual
    /\ \A p \in Codes :
        /\ Len(Second[p]) <= TargetPerPack
        /\ \A i \in 1..Len(Second[p]) : Second[p][i] \notin Rejected(p)
BY ClassifiedMakes, ReviewedMakes DEF Second

\* New texts, each once, from a set.
LEMMA OptionsAreNew ==
    ASSUME NEW set \in SUBSET Sentences, NEW limit \in Nat, NEW order \in Seq(Codes), NEW base \in Tables,
           \A row \in set : row.norm \notin Norms(RowsOf(base))
    PROVE  LET made == ClassifyCandidates(set, order, limit) IN
           /\ made \in Tables /\ Apart(made) /\ RowsOf(made) \subseteq set
           /\ Norms(RowsOf(base)) \cap Norms(RowsOf(made)) = {}
<1> DEFINE made == ClassifyCandidates(set, order, limit)
<1>1. Fit(made, set, limit)
  BY ClassifyMakes
<1> HIDE DEF made
<1>2. made \in Tables /\ Apart(made) /\ \A p \in Codes : \A i \in 1..Len(made[p]) : made[p][i] \in set
  BY <1>1 DEF Fit, Options
<1>3. RowsOf(made) \subseteq set
  BY <1>2, RowsAre
<1>4. Norms(RowsOf(base)) \cap Norms(RowsOf(made)) = {}
  <2> SUFFICES ASSUME NEW row \in RowsOf(made) PROVE row.norm \notin Norms(RowsOf(base))
    BY DEF Norms
  <2> QED
    BY <1>3
<1> QED
  BY <1>2, <1>3, <1>4 DEF made

\* A stage's packs and what it did to those before it.
Extends(base, more) ==
    /\ more \in Tables /\ Apart(more)
    /\ RowsOf(base) \subseteq RowsOf(more) /\ RowsOf(more) \cap Bilingual \subseteq RowsOf(base)
    /\ \A p \in Codes :
        /\ Len(more[p]) <= TargetPerPack /\ Len(base[p]) <= Len(more[p])
        /\ \A i \in 1..Len(more[p]) :
            IF i <= Len(base[p]) THEN more[p][i] = base[p][i] ELSE more[p][i] \notin Bilingual

LEMMA SupplementExtends ==
    ASSUME NEW base \in Tables, NEW extra \in Tables, NEW n, Settled(base, extra, n), NEW more,
           more = [p \in Codes |-> base[p] \o SubSeq(extra[p], 1, n[p])],
           Apart(base), Apart(extra), Norms(RowsOf(base)) \cap Norms(RowsOf(extra)) = {},
           RowsOf(extra) \cap Bilingual = {}
    PROVE  Extends(base, more)
<1>0. Joins(base, extra, n, more) /\ Apart(more)
  BY SupplementKeeps
<1>1. /\ more \in Tables /\ Apart(more)
      /\ \A p \in Codes :
           /\ Len(more[p]) = Len(base[p]) + n[p] /\ Len(more[p]) <= TargetPerPack
           /\ \A i \in 1..Len(more[p]) :
                more[p][i] = IF i <= Len(base[p]) THEN base[p][i] ELSE extra[p][i - Len(base[p])]
      /\ RowsOf(more) \subseteq RowsOf(base) \cup RowsOf(extra)
      /\ RowsOf(base) \subseteq RowsOf(more)
  BY <1>0 DEF Joins
<1>2. \A p \in Codes : Len(base[p]) \in Nat /\ n[p] \in Nat /\ n[p] <= Len(extra[p]) /\ Len(extra[p]) \in Nat
  BY DEF Tables, Settled
<1>3. \A o : o \in RowsOf(extra) <=> \E p \in Codes : \E i \in 1..Len(extra[p]) : o = extra[p][i]
  BY RowsAre
<1>4. ASSUME NEW p \in Codes, NEW i \in 1..Len(more[p]), ~(i <= Len(base[p]))
      PROVE  more[p][i] \notin Bilingual
  <2>1. i - Len(base[p]) \in 1..Len(extra[p]) /\ more[p][i] = extra[p][i - Len(base[p])]
    BY <1>1, <1>2, <1>4
  <2>2. extra[p][i - Len(base[p])] \in RowsOf(extra)
    BY <1>3, <2>1
  <2> QED
    BY <2>1, <2>2
<1>5. \A p \in Codes : Len(base[p]) <= Len(more[p])
  BY <1>1, <1>2
<1>6. \A p \in Codes : \A i \in 1..Len(more[p]) :
            IF i <= Len(base[p]) THEN more[p][i] = base[p][i] ELSE more[p][i] \notin Bilingual
  BY <1>1, <1>4
<1> QED
  BY <1>1, <1>5, <1>6 DEF Extends

LEMMA ThirdMakes == Extends(Second, Third)
<1> DEFINE set == {row \in OpenEnglish : row.norm \notin Norms(RowsOf(Second))}
           extra == OpenOptions(Second)
<1>1. AssignmentOrder \in Seq(Codes) /\ TargetPerPack \in Nat /\ MaxTranslated \in Nat
  BY MaterialAssumption
<1>2. set \in SUBSET Sentences /\ set \cap Bilingual = {}
  BY SentenceAssumption DEF Sentences
<1>3. Second \in Tables /\ Apart(Second) /\ \A p \in Codes : Len(Second[p]) <= TargetPerPack
  BY SecondMakes
<1>4. extra = ClassifyCandidates(set, AssignmentOrder, TargetPerPack)
  BY DEF OpenOptions
<1> HIDE DEF extra
<1>5. /\ extra \in Tables /\ Apart(extra) /\ RowsOf(extra) \subseteq set
      /\ Norms(RowsOf(Second)) \cap Norms(RowsOf(extra)) = {}
  <2>1. \A row \in set : row.norm \notin Norms(RowsOf(Second))
    OBVIOUS
  <2> HIDE DEF set
  <2> QED
    BY <1>1, <1>2, <1>3, <1>4, <2>1, OptionsAreNew
<1>a. Third = Supplemented(Second, extra, MaxTranslated)
  BY DEF Third, extra
<1>6. PICK n : Settled(Second, extra, n) /\ Third = [p \in Codes |-> Second[p] \o SubSeq(extra[p], 1, n[p])]
  <2>1. \E n : /\ Settled(Second, extra, n)
               /\ Supplemented(Second, extra, MaxTranslated) = [p \in Codes |-> Second[p] \o SubSeq(extra[p], 1, n[p])]
               /\ MaxTranslated = TargetPerPack * Len(SceneCodes) => OpenPacks(Second, extra, n) = {}
    BY <1>1, <1>3, <1>5, SupplementMakes, Zenon
  <2> QED
    BY <1>a, <2>1, Zenon
<1> HIDE DEF set
<1> QED
  BY <1>2, <1>3, <1>5, <1>6, SupplementExtends

\* What the dialogues offer: when a pack stays short, each that fits it is in it, or a
\* sentence with its text, or near it, is in the packs or among the other dialogues.
LEMMA FourthMakes ==
    /\ Extends(Third, Fourth)
    /\ \A p \in Codes : Len(Fourth[p]) < TargetPerPack =>
            \A row \in ToSet(Dialogues) : row.fits[p] > 0 =>
                \E other \in RowsOf(Fourth) \cup (ToSet(Dialogues) \ {row}) :
                    other.norm = row.norm \/ other.print = row.print
<1> DEFINE rows == ToSet(Distinct(Dialogues, Excluded(Third)))
           size == Cardinality(rows)
           extra == SpokenOptions(Third)
           most == TargetPerPack * Len(SceneCodes)
<1>1. SceneCodes \in Seq(Codes) /\ ToSet(SceneCodes) = Codes /\ most \in Nat
  BY MaterialAssumption, CodesFinite DEF Codes
<1>2. Dialogues \in Seq(Sentences) /\ ToSet(Dialogues) \in SUBSET Sentences
  BY SentenceAssumption DEF Sentences
<1>3. /\ rows \subseteq ToSet(Dialogues)
      /\ \A row \in rows : row.norm \notin Norms(RowsOf(Third))
      /\ \A row \in ToSet(Dialogues) : row.norm \in Norms(RowsOf(Third)) \cup Norms(rows)
  BY <1>2, DistinctMakes DEF Excluded
<1>4. rows \in SUBSET Sentences /\ rows \cap Bilingual = {}
  BY <1>2, <1>3, SentenceAssumption
<1>5. IsFiniteSet(rows) /\ size \in Nat
  BY <1>4, SentenceAssumption, FS_Subset, FS_CardinalityType
<1>6. Third \in Tables /\ Apart(Third) /\ \A p \in Codes : Len(Third[p]) <= TargetPerPack
  BY ThirdMakes DEF Extends
<1>7. extra = ClassifyCandidates(rows, SceneCodes, size)
  BY DEF SpokenOptions
<1> HIDE DEF extra, rows, size, most
<1>8. /\ extra \in Tables /\ Apart(extra) /\ RowsOf(extra) \subseteq rows
      /\ Norms(RowsOf(Third)) \cap Norms(RowsOf(extra)) = {}
  BY <1>1, <1>3, <1>4, <1>5, <1>6, <1>7, OptionsAreNew
<1>9. PICK n : /\ Settled(Third, extra, n)
               /\ Fourth = [p \in Codes |-> Third[p] \o SubSeq(extra[p], 1, n[p])]
               /\ OpenPacks(Third, extra, n) = {}
  <2>1. \E n : /\ Settled(Third, extra, n)
               /\ Supplemented(Third, extra, most) = [p \in Codes |-> Third[p] \o SubSeq(extra[p], 1, n[p])]
               /\ most = TargetPerPack * Len(SceneCodes) => OpenPacks(Third, extra, n) = {}
    BY <1>1, <1>6, <1>8, SupplementMakes, Zenon
  <2>2. Fourth = Supplemented(Third, extra, most) /\ most = TargetPerPack * Len(SceneCodes)
    BY DEF Fourth, extra, most
  <2> QED
    BY <2>1, <2>2, Zenon
<1>10. Extends(Third, Fourth)
  BY <1>4, <1>6, <1>8, <1>9, SupplementExtends
<1>11. ASSUME NEW p \in Codes, Len(Fourth[p]) < TargetPerPack, NEW row \in ToSet(Dialogues), row.fits[p] > 0
       PROVE  \E other \in RowsOf(Fourth) \cup (ToSet(Dialogues) \ {row}) :
                    other.norm = row.norm \/ other.print = row.print
  <2>1. CASE row \notin rows
    <3>1. row.norm \in Norms(RowsOf(Fourth)) \cup Norms(rows)
      BY <1>3, <1>10 DEF Extends, Norms
    <3>2. PICK other \in RowsOf(Fourth) \cup rows : other.norm = row.norm
      BY <3>1 DEF Norms
    <3> QED
      BY <1>3, <2>1, <3>2
  <2>2. CASE row \in rows
    <3>1. Fit(extra, rows, size) /\ (Has(extra, row) \/ Len(extra[p]) = size)
      <4>1. row \in Options(rows, p)
        BY <1>11, <2>2 DEF Options
      <4> QED
        BY <1>1, <1>4, <1>5, <1>7, <4>1, ClassifyMakes
    <3>2. /\ Len(Fourth[p]) = Len(Third[p]) + n[p] /\ n[p] \in Nat /\ n[p] <= Len(extra[p])
          /\ Len(Third[p]) \in Nat /\ Len(extra[p]) \in Nat
          /\ \A i \in 1..Len(Fourth[p]) :
                Fourth[p][i] = IF i <= Len(Third[p]) THEN Third[p][i] ELSE extra[p][i - Len(Third[p])]
      BY <1>6, <1>8, <1>9, SupplementKeeps DEF Settled, Tables, Joins
    <3>3. n[p] = Len(extra[p])
      BY <1>9, <1>11, <3>2 DEF OpenPacks
    <3>4. \A i \in 1..Len(extra[p]) : extra[p][i] \in RowsOf(Fourth)
      <4> TAKE i \in 1..Len(extra[p])
      <4>1. Len(Third[p]) + i \in 1..Len(Fourth[p]) /\ Fourth[p][Len(Third[p]) + i] = extra[p][i]
        <5>1. Len(Third[p]) + i \in 1..Len(Fourth[p]) /\ ~(Len(Third[p]) + i <= Len(Third[p]))
              /\ (Len(Third[p]) + i) - Len(Third[p]) = i
          <6>1. Len(Third[p]) \in Nat /\ Len(extra[p]) \in Nat /\ Len(Fourth[p]) = Len(Third[p]) + Len(extra[p])
            BY <3>2, <3>3
          <6> DEFINE a == Len(Third[p])
                     b == Len(extra[p])
          <6>a. a \in Nat /\ b \in Nat
            BY <6>1
          <6> HIDE DEF a, b
          <6>2. \A k \in 1..b : a + k \in 1..(a + b) /\ ~(a + k <= a) /\ (a + k) - a = k
            BY <6>a
          <6> QED
            BY <6>1, <6>2 DEF a, b
        <5> QED
          BY <3>2, <5>1
      <4>2. Fourth \in Tables
        BY <1>10 DEF Extends
      <4> QED
        BY <4>1, <4>2, RowsAre
    <3>5. CASE Has(extra, row)
      <4>1. PICK other \in RowsOf(extra) : other.norm = row.norm \/ other.print = row.print
        BY <3>5 DEF Has
      <4>2. CASE other # row
        BY <1>3, <1>8, <4>1, <4>2
      <4>3. CASE other = row
        <5>0. PICK q \in Codes : \E i \in 1..Len(extra[q]) : row = extra[q][i]
          BY <1>8, <4>1, <4>3, RowsAre
        <5>1. PICK i \in 1..Len(extra[q]) : row = extra[q][i]
          BY <5>0
        <5>2. row.fits[q] > 0
          BY <3>1, <5>1 DEF Fit, Options
        <5>3. q = p
          BY <1>11, <5>2, SentenceAssumption
        <5> QED
          BY <3>4, <5>1, <5>3
      <4> QED
        BY <4>2, <4>3
    <3>6. CASE Len(extra[p]) = size
      <4> DEFINE f == [i \in 1..size |-> extra[p][i]]
      <4>1. f \in [1..size -> rows]
        BY <3>1, <3>6 DEF Fit, Options
      <4>2. \A i, j \in 1..size : f[i] = f[j] => i = j
        BY <1>8, <3>6 DEF Apart
      <4>3. f \in Injection(1..size, rows)
        <5> HIDE DEF f
        <5> QED
          BY <4>1, <4>2 DEF Injection, IsInjective
      <4>4. IsFiniteSet(1..size) /\ Cardinality(1..size) = size
        BY <1>5, FS_Interval
      <4> HIDE DEF f
      <4>5. f \in Surjection(1..size, rows)
        <5>1. Cardinality(1..size) = Cardinality(rows)
          BY <4>4 DEF size
        <5> QED
          BY <1>5, <4>3, <4>4, <5>1, FS_Injection
      <4>6. PICK i \in 1..size : f[i] = row
        BY <2>2, <4>5 DEF Surjection
      <4> QED
        BY <3>4, <3>6, <4>6 DEF f
    <3> QED
      BY <3>1, <3>5, <3>6
  <2> QED
    BY <2>1, <2>2
<1> QED
  BY <1>10, <1>11

LEMMA WithoutHolds ==
    ASSUME NEW A, NEW s \in Seq(A), NEW out
    PROVE  Without(s, out) \in Seq(A) /\ ToSet(Without(s, out)) = ToSet(s) \ out
<1>1. Without(s, out) \in Seq(A) /\ \E at : Keeps(at, s, out)
  BY WithoutKeeps, Zenon
<1>2. PICK at : Keeps(at, s, out)
  BY <1>1
<1> DEFINE left == Left(s, out)
           N == Cardinality(left)
           less == Without(s, out)
<1>3. /\ DOMAIN less = 1..N /\ at \in [1..N -> left]
      /\ \A i \in left : \E n \in 1..N : at[n] = i
      /\ \A n \in 1..N : less[n] = s[at[n]]
  BY <1>2 DEF Keeps
<1>4. \A i : i \in left <=> i \in DOMAIN s /\ s[i] \notin out
  BY DEF Left
<1> HIDE DEF left, N, less
<1>5. \A o : o \in ToSet(less) <=> \E n \in 1..N : o = less[n]
  BY <1>3 DEF ToSet
<1>6. \A o : o \in ToSet(s) <=> \E i \in DOMAIN s : o = s[i]
  BY DEF ToSet
<1>7. ToSet(less) \subseteq ToSet(s) \ out
  BY <1>3, <1>4, <1>5, <1>6
<1>8. ToSet(s) \ out \subseteq ToSet(less)
  BY <1>3, <1>4, <1>5, <1>6
<1> QED
  BY <1>1, <1>7, <1>8 DEF less

\* A batch and what comes after it.
LEMMA BatchSplits ==
    ASSUME NEW A, todo \in Seq(A)
    PROVE  /\ Batch \in Seq(A) /\ AfterBatch \in Seq(A)
           /\ ToSet(todo) = ToSet(Batch) \cup ToSet(AfterBatch)
<1> DEFINE n == Least(BatchSize, Len(todo))
<1>1. n \in Nat /\ n <= Len(todo) /\ Len(todo) \in Nat
  BY MaterialAssumption DEF Least
<1> HIDE DEF n
<1>2. Batch = SubSeq(todo, 1, n)
  BY DEF Batch, n
<1>3. Batch \in Seq(A) /\ Len(Batch) = n /\ \A i \in 1..n : Batch[i] = todo[i]
  BY <1>1, <1>2, Shortened
<1>4. AfterBatch = SubSeq(todo, n + 1, Len(todo))
  BY <1>3 DEF AfterBatch
<1>5. AfterBatch \in Seq(A) /\ Len(AfterBatch) = Len(todo) - n /\ \A i \in 1..(Len(todo) - n) : AfterBatch[i] = todo[i + n]
  BY <1>1, <1>4
<1> HIDE DEF Batch, AfterBatch
<1>6. \A o : o \in ToSet(todo) <=> \E i \in 1..Len(todo) : o = todo[i]
  BY DEF ToSet
<1>7. \A o : o \in ToSet(Batch) <=> \E i \in 1..n : o = Batch[i]
  BY <1>3 DEF ToSet
<1>8. \A o : o \in ToSet(AfterBatch) <=> \E i \in 1..(Len(todo) - n) : o = AfterBatch[i]
  BY <1>5 DEF ToSet
<1>9. \A i \in 1..n : i \in 1..Len(todo)
  BY <1>1
<1>10. \A i \in 1..(Len(todo) - n) : i + n \in 1..Len(todo)
  BY <1>1
<1>11. \A i \in 1..Len(todo) : i \in 1..n \/ (i - n \in 1..(Len(todo) - n) /\ (i - n) + n = i)
  BY <1>1
<1>12. ToSet(Batch) \subseteq ToSet(todo)
  BY <1>3, <1>6, <1>7, <1>9
<1>13. ToSet(AfterBatch) \subseteq ToSet(todo)
  BY <1>5, <1>6, <1>8, <1>10
<1>14. ASSUME NEW i \in 1..Len(todo) PROVE todo[i] \in ToSet(Batch) \cup ToSet(AfterBatch)
  <2>1. CASE i \in 1..n
    BY <1>3, <1>7, <2>1
  <2>2. CASE i - n \in 1..(Len(todo) - n) /\ (i - n) + n = i
    BY <1>5, <1>8, <2>2
  <2> QED
    BY <1>11, <2>1, <2>2
<1> QED
  BY <1>3, <1>5, <1>6, <1>12, <1>13, <1>14

\* The packs one after the other.
LEMMA InScenesHolds ==
    ASSUME NEW A, NEW table \in [Codes -> Seq(A)]
    PROVE  InScenes(table) \in Seq(A) /\ ToSet(InScenes(table)) = UNION {ToSet(table[p]) : p \in Codes}
<1> DEFINE ss == [k \in DOMAIN SceneCodes |-> table[SceneCodes[k]]]
<1>1. SceneCodes \in Seq(Codes) /\ Len(SceneCodes) \in Nat /\ DOMAIN SceneCodes = 1..Len(SceneCodes)
  BY MaterialAssumption
<1>2. \A k \in 1..Len(SceneCodes) : SceneCodes[k] \in Codes
  BY <1>1
<1>3. \A p \in Codes : \E k \in 1..Len(SceneCodes) : SceneCodes[k] = p
  BY <1>1 DEF Codes, ToSet
<1>4. ss \in Seq(Seq(A)) /\ Len(ss) = Len(SceneCodes) /\ \A k \in 1..Len(SceneCodes) : ss[k] = table[SceneCodes[k]]
  BY <1>1, <1>2
<1>5. InScenes(table) = FlattenSeq(ss)
  BY DEF InScenes
<1> HIDE DEF ss
<1>6. FlattenSeq(ss) \in Seq(A) /\ ToSet(FlattenSeq(ss)) = UNION {ToSet(ss[i]) : i \in 1..Len(ss)}
  BY <1>4, FlattenHolds
<1>7. UNION {ToSet(ss[i]) : i \in 1..Len(ss)} = UNION {ToSet(table[p]) : p \in Codes}
  <2> DEFINE I == 1..Len(SceneCodes)
  <2>1. \A k \in I : ss[k] = table[SceneCodes[k]] /\ SceneCodes[k] \in Codes
    BY <1>2, <1>4
  <2>2. \A p \in Codes : \E k \in I : SceneCodes[k] = p
    BY <1>3
  <2>3. 1..Len(ss) = I
    BY <1>4
  <2> HIDE DEF I
  <2>4. ASSUME NEW k \in I PROVE ToSet(ss[k]) \subseteq UNION {ToSet(table[p]) : p \in Codes}
    BY <2>1
  <2>5. ASSUME NEW p \in Codes PROVE ToSet(table[p]) \subseteq UNION {ToSet(ss[k]) : k \in I}
    <3>1. PICK k \in I : SceneCodes[k] = p
      BY <2>2
    <3> QED
      BY <2>1, <3>1
  <2>6. UNION {ToSet(ss[k]) : k \in I} \subseteq UNION {ToSet(table[p]) : p \in Codes}
    BY <2>4
  <2>7. UNION {ToSet(table[p]) : p \in Codes} \subseteq UNION {ToSet(ss[k]) : k \in I}
    BY <2>5
  <2> QED
    BY <2>3, <2>6, <2>7
<1> QED
  BY <1>5, <1>6, <1>7

LEMMA TranslatedHolds ==
    ASSUME NEW table \in Tables
    PROVE  Translated(table) \in Seq(Sentences) /\ ToSet(Translated(table)) = RowsOf(table) \ Bilingual
<1>1. InScenes(table) \in Seq(Sentences) /\ ToSet(InScenes(table)) = RowsOf(table)
  BY InScenesHolds DEF Tables, RowsOf
<1> QED
  BY <1>1, WithoutHolds DEF Translated

\* What is reviewed are bilingual sentences.
PackKeys == UNION {{<<p, row.id>> : row \in Bilingual} : p \in Codes}

LEMMA KeysHold == ReviewKeys \in Seq(ToSet(ReviewKeys)) /\ ToSet(ReviewKeys) \subseteq PackKeys
<1> DEFINE part(p) == [n \in DOMAIN Selected(p) |-> <<p, Selected(p)[n].id>>]
           table == [p \in Codes |-> part(p)]
<1>1. ASSUME NEW p \in Codes PROVE part(p) \in Seq(PackKeys)
  <2> DEFINE all == Classified[p]
             from == ReviewStart(p)
             to == ReviewEnd(p)
             chosenRows == Selected(p)
  <2>1. all \in Seq(Bilingual)
    <3>1. all \in Seq(Sentences) /\ RowsOf(Classified) \subseteq Bilingual
      BY ClassifiedMakes DEF Tables
    <3>2. \A i \in 1..Len(all) : all[i] \in Bilingual
      BY <3>1, ClassifiedMakes, RowsAre
    <3> HIDE DEF all
    <3> QED
      BY <3>1, <3>2
  <2>2. Len(all) \in Nat /\ TargetPerPack \in Nat /\ ItemsPerPack \in Nat
    BY <2>1, MaterialAssumption
  <2>3. to \in Nat /\ to <= Len(all) /\ from \in Nat
    BY <2>2 DEF ReviewEnd, ReviewStart, Least
  <2>4. chosenRows = SubSeq(all, from + 1, to)
    BY DEF Selected
  <2> HIDE DEF all, from, to, chosenRows
  <2>5. chosenRows \in Seq(Bilingual)
    BY <2>1, <2>3, <2>4
  <2>6. \A n \in 1..Len(chosenRows) : <<p, chosenRows[n].id>> \in PackKeys
    BY <2>5 DEF PackKeys
  <2>7. part(p) = [n \in 1..Len(chosenRows) |-> <<p, chosenRows[n].id>>] /\ Len(chosenRows) \in Nat
    BY <2>5 DEF chosenRows
  <2> HIDE DEF part
  <2> QED
    BY <2>6, <2>7
<1>2. table \in [Codes -> Seq(PackKeys)]
  <2> HIDE DEF part
  <2> QED
    BY <1>1
<1>3. ReviewKeys = InScenes(table)
  BY DEF ReviewKeys
<1> HIDE DEF table
<1>4. ReviewKeys \in Seq(PackKeys)
  BY <1>2, <1>3, InScenesHolds
<1>5. \A i \in 1..Len(ReviewKeys) : ReviewKeys[i] \in PackKeys /\ ReviewKeys[i] \in ToSet(ReviewKeys)
  BY <1>4 DEF ToSet
<1> HIDE DEF ReviewKeys
<1> QED
  BY <1>4, <1>5 DEF ToSet

LEMMA StagesStay ==
    ASSUME UNCHANGED decisions
    PROVE  Second' = Second /\ Third' = Third /\ Fourth' = Fourth
<1>1. \A p \in Codes : Rejected(p)' = Rejected(p)
  BY DEF Rejected
<1>2. Second' = Second
  BY <1>1 DEF Second, Reviewed
<1>3. Third' = Third
  BY <1>2 DEF Third
<1>4. Fourth' = Fourth
  BY <1>3 DEF Fourth
<1> QED
  BY <1>2, <1>3, <1>4

-----------------------------------------------------------------------------
(* Materials: the invariants of the runs.                                  *)

\* What the packs are at each stage.
StagePacks ==
    /\ phase \in {"idle"} \cup ToSet(Phases)
    /\ phase = "review" => packs = Classified
    /\ phase = "cc0" => packs = Second
    /\ phase \in {"open", "dialogues", "adapt"} => packs = Third
    /\ phase \in {"spoken", "chinese"} => packs = Fourth

\* What the stages have still to ask.
StageTodo ==
    /\ phase = "review" => todo \in Seq(ToSet(ReviewKeys))
    /\ phase \in {"open", "spoken", "chinese"} => todo \in Seq(RowsOf(packs) \ Bilingual)
    /\ phase \notin {"open", "spoken"} => fresh = NoAnswers

\* The reviewer decides about what is reviewed, all of it before anything else is done
\* to the packs, and nothing again once a run has finished.
AllDecided == ToSet(ReviewKeys) \subseteq DOMAIN decisions

DecisionsAreKept ==
    /\ DOMAIN decisions \subseteq ToSet(ReviewKeys)
    /\ phase = "review" => ToSet(ReviewKeys) \ DOMAIN decisions \subseteq ToSet(todo)
    /\ phase \in {"cc0", "open", "dialogues", "adapt", "spoken", "chinese"} => AllDecided
    /\ finished # {} => AllDecided /\ (phase = "review" => todo = <<>>)

\* A sentence is translated once; all are before the translations are reviewed.
TranslationsAreKept ==
    /\ phase \in {"open", "spoken"} =>
        /\ DOMAIN fresh \cap DOMAIN translations = {}
        /\ \A row \in ToSet(todo) : row.id \notin DOMAIN translations \cup DOMAIN fresh
        /\ \A row \in RowsOf(packs) \ Bilingual : row.id \in DOMAIN translations \cup DOMAIN fresh \/ row \in ToSet(todo)
        /\ todo = <<>> => fresh = NoAnswers
    /\ phase = "chinese" \/ finished # {} => \A row \in RowsOf(Fourth) \ Bilingual : row.id \in DOMAIN translations

\* A finished run has the packs of every other, and what it had reviewed is as it was.
EntryIsKept(entry, row) ==
    /\ entry = [row |-> row, chinese |-> entry.chinese, status |-> entry.status]
    /\ row \in Bilingual => entry.chinese = "own" /\ entry.status = "success"
    /\ row \notin Bilingual /\ entry.status = "success" =>
        /\ ChineseKey(row) \in DOMAIN reviews
        /\ reviews[ChineseKey(row)].status = "success"
        /\ entry.chinese = reviews[ChineseKey(row)].chinese
        /\ phase = "chinese" => row \notin ToSet(todo)

FinishedAreKept ==
    /\ phase = "chinese" =>
        \A row \in RowsOf(Fourth) \ Bilingual : ChineseKey(row) \in DOMAIN reviews \/ row \in ToSet(todo)
    /\ \A made \in finished : \A p \in Codes :
        /\ DOMAIN made[p] = DOMAIN Fourth[p] /\ Len(made[p]) = Len(Fourth[p])
        /\ \A k \in DOMAIN made[p] : EntryIsKept(made[p][k], Fourth[p][k])

MaterialInv ==
    /\ StagePacks /\ StageTodo /\ DecisionsAreKept /\ TranslationsAreKept /\ FinishedAreKept
    /\ outcome # "duplicates"

MaterialActs == <<decisions, translations, reviews, finished>>

LEMMA StagesAre ==
    /\ ToSet(Phases) = {"tatoeba", "review", "cc0", "open", "dialogues", "adapt", "spoken", "chinese"}
    /\ StageAfter("tatoeba") = "review" /\ StageAfter("review") = "cc0" /\ StageAfter("cc0") = "open"
    /\ StageAfter("open") = "dialogues" /\ StageAfter("dialogues") = "adapt" /\ StageAfter("adapt") = "spoken"
    /\ StageAfter("spoken") = "chinese"
<1>1. DOMAIN Phases = 1..8 /\ 1..8 = {1, 2, 3, 4, 5, 6, 7, 8}
  BY DEF Phases
<1>2. /\ Phases[1] = "tatoeba" /\ Phases[2] = "review" /\ Phases[3] = "cc0" /\ Phases[4] = "open"
      /\ Phases[5] = "dialogues" /\ Phases[6] = "adapt" /\ Phases[7] = "spoken" /\ Phases[8] = "chinese"
  BY DEF Phases
<1> HIDE DEF Phases
<1>3. ToSet(Phases) = {"tatoeba", "review", "cc0", "open", "dialogues", "adapt", "spoken", "chinese"}
  BY <1>1, <1>2 DEF ToSet
<1>4. \A n \in 1..7 : StageAfter(Phases[n]) = Phases[n + 1]
  <2> TAKE n \in 1..7
  <2>1. n \in {1, 2, 3, 4, 5, 6, 7}
    OBVIOUS
  <2>2. n \in DOMAIN Phases /\ \A k \in DOMAIN Phases : Phases[k] = Phases[n] => k = n
    BY <1>1, <1>2, <2>1
  <2>3. (CHOOSE k \in DOMAIN Phases : Phases[k] = Phases[n]) = n
    BY <2>2
  <2>4. StageAfter(Phases[n]) = Phases[1 + (CHOOSE k \in DOMAIN Phases : Phases[k] = Phases[n])]
    BY DEF StageAfter
  <2>5. 1 + n = n + 1
    OBVIOUS
  <2> QED
    BY <2>3, <2>4, <2>5, Zenon
<1>5. /\ StageAfter(Phases[1]) = Phases[2] /\ StageAfter(Phases[2]) = Phases[3] /\ StageAfter(Phases[3]) = Phases[4]
      /\ StageAfter(Phases[4]) = Phases[5] /\ StageAfter(Phases[5]) = Phases[6] /\ StageAfter(Phases[6]) = Phases[7]
      /\ StageAfter(Phases[7]) = Phases[8]
  BY <1>4
<1> HIDE DEF StageAfter
<1> QED
  BY <1>2, <1>3, <1>5

LEMMA FourthIsTable == Second \in Tables /\ Third \in Tables /\ Fourth \in Tables
BY SecondMakes, ThirdMakes, FourthMakes DEF Extends

LEMMA FinishedStay ==
    ASSUME FinishedAreKept, UNCHANGED MaterialActs, phase' # "chinese"
    PROVE  FinishedAreKept'
<1>1. UNCHANGED <<decisions, translations, reviews, finished>> /\ Fourth' = Fourth
  BY StagesStay DEF MaterialActs
<1>2. ASSUME NEW made \in finished, NEW p \in Codes
      PROVE  /\ DOMAIN made[p] = DOMAIN Fourth[p] /\ Len(made[p]) = Len(Fourth[p])
             /\ \A k \in DOMAIN made[p] : EntryIsKept(made[p][k], Fourth[p][k])'
  <2>1. /\ DOMAIN made[p] = DOMAIN Fourth[p] /\ Len(made[p]) = Len(Fourth[p])
        /\ \A k \in DOMAIN made[p] : EntryIsKept(made[p][k], Fourth[p][k])
    BY DEF FinishedAreKept
  <2>2. ASSUME NEW k \in DOMAIN made[p] PROVE EntryIsKept(made[p][k], Fourth[p][k])'
    <3>1. EntryIsKept(made[p][k], Fourth[p][k])
      BY <2>1
    <3> QED
      BY <1>1, <3>1 DEF EntryIsKept, ChineseKey
  <2> QED
    BY <2>1, <2>2
<1> QED
  BY <1>1, <1>2 DEF FinishedAreKept

\* Where nothing is asked, only what is kept matters.
LEMMA QuietKeeps ==
    ASSUME MaterialInv, UNCHANGED MaterialActs, phase' \in {"idle", "tatoeba"}, fresh' = NoAnswers, outcome' # "duplicates"
    PROVE  MaterialInv'
<1>1. UNCHANGED <<decisions, translations, reviews, finished>> /\ Fourth' = Fourth
  BY StagesStay DEF MaterialActs
<1>2. StagePacks' /\ StageTodo'
  BY StagesAre DEF StagePacks, StageTodo
<1>3. DecisionsAreKept'
  BY <1>1 DEF MaterialInv, DecisionsAreKept, AllDecided
<1>4. TranslationsAreKept'
  BY <1>1 DEF MaterialInv, TranslationsAreKept
<1>5. FinishedAreKept'
  BY FinishedStay DEF MaterialInv
<1> QED
  BY <1>2, <1>3, <1>4, <1>5 DEF MaterialInv

LEMMA InitKeeps == ASSUME MaterialInit PROVE MaterialInv
BY DEF MaterialInit, MaterialInv, StagePacks, StageTodo, DecisionsAreKept, TranslationsAreKept, FinishedAreKept, NoAnswers

\* The stages that follow one another.
LEMMA ToReview ==
    ASSUME MaterialInv, UNCHANGED <<MaterialActs, outcome>>, GoOn("review")
    PROVE  MaterialInv'
<1>1. UNCHANGED <<decisions, translations, reviews, finished, outcome>> /\ Fourth' = Fourth /\ ReviewKeys' = ReviewKeys
  BY StagesStay DEF MaterialActs
<1>2. phase' = "review" /\ packs' = Classified /\ todo' = Undecided /\ fresh' = NoAnswers
  BY DEF GoOn, PacksFor, Misses
<1>3. todo' \in Seq(ToSet(ReviewKeys)) /\ ToSet(todo') = ToSet(ReviewKeys) \ DOMAIN decisions
  BY <1>2, KeysHold, WithoutHolds DEF Undecided
<1>4. StagePacks' /\ StageTodo'
  BY <1>1, <1>2, <1>3, StagesAre DEF StagePacks, StageTodo
<1>5. DecisionsAreKept'
  <2>1. AllDecided => todo' = <<>>
    <3> SUFFICES ASSUME AllDecided PROVE todo' = <<>>
      OBVIOUS
    <3>1. ToSet(todo') = {}
      BY <1>3 DEF AllDecided
    <3>2. \A i \in 1..Len(todo') : todo'[i] \in ToSet(todo')
      BY <1>3 DEF ToSet
    <3> QED
      BY <1>3, <3>1, <3>2
  <2> QED
    BY <1>1, <1>2, <1>3, <2>1 DEF MaterialInv, DecisionsAreKept, AllDecided
<1>6. TranslationsAreKept'
  BY <1>1, <1>2 DEF MaterialInv, TranslationsAreKept
<1>7. FinishedAreKept'
  BY <1>2, FinishedStay DEF MaterialInv
<1> QED
  BY <1>1, <1>4, <1>5, <1>6, <1>7 DEF MaterialInv

LEMMA ToSupplements ==
    ASSUME MaterialInv, UNCHANGED <<MaterialActs, outcome>>,
           \/ phase = "review" /\ todo = <<>> /\ GoOn("cc0")
           \/ phase = "open" /\ todo = <<>> /\ GoOn("dialogues")
           \/ phase = "dialogues" /\ GoOn("adapt")
    PROVE  MaterialInv'
<1>1. /\ UNCHANGED <<decisions, translations, reviews, finished, outcome>>
      /\ Second' = Second /\ Third' = Third /\ Fourth' = Fourth /\ ReviewKeys' = ReviewKeys
  BY StagesStay DEF MaterialActs
<1>2. /\ (phase' = "cc0" /\ packs' = Second) \/ (phase' \in {"dialogues", "adapt"} /\ packs' = Third)
      /\ fresh' = NoAnswers
  BY DEF GoOn, PacksFor, MaterialInv, StagePacks, Second
<1>3. AllDecided
  BY DEF MaterialInv, DecisionsAreKept, AllDecided, ToSet
<1>4. StagePacks' /\ StageTodo'
  BY <1>1, <1>2, StagesAre DEF StagePacks, StageTodo
<1>5. DecisionsAreKept'
  BY <1>1, <1>2, <1>3 DEF MaterialInv, DecisionsAreKept, AllDecided
<1>6. TranslationsAreKept'
  BY <1>1, <1>2 DEF MaterialInv, TranslationsAreKept
<1>7. FinishedAreKept'
  BY <1>2, FinishedStay DEF MaterialInv
<1> QED
  BY <1>1, <1>4, <1>5, <1>6, <1>7 DEF MaterialInv

LEMMA ToTranslation ==
    ASSUME MaterialInv, UNCHANGED <<MaterialActs, outcome>>,
           \/ phase = "cc0" /\ GoOn("open")
           \/ phase = "adapt" /\ GoOn("spoken")
    PROVE  MaterialInv'
<1>1. /\ UNCHANGED <<decisions, translations, reviews, finished, outcome>>
      /\ Second' = Second /\ Third' = Third /\ Fourth' = Fourth /\ ReviewKeys' = ReviewKeys
  BY StagesStay DEF MaterialActs
<1> DEFINE known == {row \in Sentences : row.id \in DOMAIN translations}
<1>2. /\ (phase' = "open" /\ packs' = Third) \/ (phase' = "spoken" /\ packs' = Fourth)
      /\ todo' = Without(Translated(packs'), known) /\ fresh' = NoAnswers
  BY DEF GoOn, PacksFor, Misses, MaterialInv, StagePacks, Third, Fourth
<1>3. packs' \in Tables
  BY <1>2, FourthIsTable
<1> DEFINE new == packs'
           rows == RowsOf(new) \ Bilingual
<1> HIDE DEF new, known
<1>4. Translated(new) \in Seq(Sentences) /\ ToSet(Translated(new)) = rows /\ rows \subseteq Sentences
  BY <1>3, TranslatedHolds, RowsAre DEF new
<1>5. todo' = Without(Translated(new), known)
  BY <1>2 DEF new
<1> HIDE DEF rows
<1>6. Translated(new) \in Seq(rows)
  <2> DEFINE s == Translated(new)
  <2> HIDE DEF s
  <2>1. \A i \in 1..Len(s) : s[i] \in ToSet(s)
    BY <1>4 DEF ToSet, s
  <2> QED
    BY <1>4, <2>1 DEF s
<1>7. todo' \in Seq(rows) /\ ToSet(todo') = rows \ known
  BY <1>4, <1>5, <1>6, WithoutHolds
<1>8. rows = (RowsOf(packs) \ Bilingual)'
  BY DEF rows, new
<1>9. StagePacks' /\ StageTodo'
  BY <1>1, <1>2, <1>7, <1>8, StagesAre DEF StagePacks, StageTodo
<1>10. DecisionsAreKept'
  BY <1>1, <1>2 DEF MaterialInv, DecisionsAreKept, AllDecided
<1>11. TranslationsAreKept'
  <2>1. \A row \in ToSet(todo') : row.id \notin DOMAIN translations
    BY <1>4, <1>7 DEF known
  <2>2. \A row \in rows : row.id \in DOMAIN translations \/ row \in ToSet(todo')
    BY <1>7 DEF known
  <2> QED
    BY <1>1, <1>2, <1>8, <2>1, <2>2 DEF MaterialInv, TranslationsAreKept, NoAnswers
<1>12. FinishedAreKept'
  BY <1>2, FinishedStay DEF MaterialInv
<1> QED
  BY <1>1, <1>9, <1>10, <1>11, <1>12 DEF MaterialInv

LEMMA ToChinese ==
    ASSUME MaterialInv, UNCHANGED <<MaterialActs, outcome>>, phase = "spoken", todo = <<>>, GoOn("chinese")
    PROVE  MaterialInv'
<1>1. /\ UNCHANGED <<decisions, translations, reviews, finished, outcome>>
      /\ Second' = Second /\ Third' = Third /\ Fourth' = Fourth /\ ReviewKeys' = ReviewKeys
  BY StagesStay DEF MaterialActs
<1> DEFINE rows == RowsOf(Fourth) \ Bilingual
           done == {row \in ToSet(Translated(Fourth)) :
                        ChineseKey(row) \in DOMAIN reviews /\ reviews[ChineseKey(row)].status = "success"}
<1>2. phase' = "chinese" /\ packs' = Fourth /\ todo' = Without(Translated(Fourth), done) /\ fresh' = NoAnswers
  BY DEF GoOn, PacksFor, Misses, MaterialInv, StagePacks
<1>3. Translated(Fourth) \in Seq(Sentences) /\ ToSet(Translated(Fourth)) = rows
  BY FourthIsTable, TranslatedHolds
<1>4. \A row \in done : row \in rows /\ ChineseKey(row) \in DOMAIN reviews /\ reviews[ChineseKey(row)].status = "success"
  BY <1>3
<1>5. \A row \in rows : ChineseKey(row) \in DOMAIN reviews /\ reviews[ChineseKey(row)].status = "success" => row \in done
  BY <1>3
<1> HIDE DEF rows, done
<1>6. Translated(Fourth) \in Seq(rows)
  <2> DEFINE s == Translated(Fourth)
  <2> HIDE DEF s
  <2>1. \A i \in 1..Len(s) : s[i] \in ToSet(s)
    BY <1>3 DEF ToSet, s
  <2> QED
    BY <1>3, <2>1 DEF s
<1>7. todo' \in Seq(rows) /\ ToSet(todo') = rows \ done
  BY <1>2, <1>3, <1>6, WithoutHolds
<1>8. rows = (RowsOf(packs) \ Bilingual)'
  BY <1>2 DEF rows
<1>9. StagePacks' /\ StageTodo'
  BY <1>1, <1>2, <1>7, <1>8, StagesAre DEF StagePacks, StageTodo
<1>10. DecisionsAreKept'
  BY <1>1, <1>2 DEF MaterialInv, DecisionsAreKept, AllDecided
<1>11. TranslationsAreKept'
  <2>1. packs = Fourth /\ DOMAIN fresh = {} /\ ToSet(todo) = {}
    BY DEF MaterialInv, StagePacks, TranslationsAreKept, NoAnswers, ToSet
  <2>2. \A row \in rows : row.id \in DOMAIN translations
    BY <2>1 DEF MaterialInv, TranslationsAreKept, rows
  <2> QED
    BY <1>1, <1>2, <2>2 DEF TranslationsAreKept, rows
<1>12. FinishedAreKept'
  <2>1. \A row \in rows : ChineseKey(row) \in DOMAIN reviews \/ row \in ToSet(todo')
    BY <1>4, <1>7
  <2>2. ASSUME NEW made \in finished, NEW p \in Codes
        PROVE  /\ DOMAIN made[p] = DOMAIN Fourth[p] /\ Len(made[p]) = Len(Fourth[p])
               /\ \A k \in DOMAIN made[p] : EntryIsKept(made[p][k], Fourth[p][k])'
    <3>1. /\ DOMAIN made[p] = DOMAIN Fourth[p] /\ Len(made[p]) = Len(Fourth[p])
          /\ \A k \in DOMAIN made[p] : EntryIsKept(made[p][k], Fourth[p][k])
      BY DEF MaterialInv, FinishedAreKept
    <3>2. ASSUME NEW k \in DOMAIN made[p] PROVE EntryIsKept(made[p][k], Fourth[p][k])'
      <4>1. EntryIsKept(made[p][k], Fourth[p][k])
        BY <3>1
      <4>2. Fourth[p] \in Seq(Sentences) /\ k \in 1..Len(Fourth[p])
        BY <3>1, FourthIsTable DEF Tables
      <4>3. Fourth[p][k] \notin Bilingual => Fourth[p][k] \in rows
        BY <4>2, FourthIsTable, RowsAre DEF rows
      <4> DEFINE row == Fourth[p][k]
      <4> HIDE DEF row
      <4>4. row \notin Bilingual /\ made[p][k].status = "success" => row \in done
        BY <1>5, <4>1, <4>3 DEF row, EntryIsKept
      <4>5. EntryIsKept(made[p][k], row)'
        BY <1>1, <1>7, <4>1, <4>4 DEF row, EntryIsKept, ChineseKey
      <4> QED
        BY <4>5 DEF row
    <3> QED
      BY <3>1, <3>2
  <2>3. \A row \in rows : ChineseKey(row)' = ChineseKey(row)
    BY <1>1 DEF ChineseKey
  <2> QED
    BY <1>1, <1>2, <2>1, <2>2, <2>3 DEF FinishedAreKept, rows
<1> QED
  BY <1>1, <1>9, <1>10, <1>11, <1>12 DEF MaterialInv

LEMMA ReviewBatchKeeps == ASSUME MaterialInv, ReviewBatch PROVE MaterialInv'
<1>1. CASE Stop("malformed") /\ UNCHANGED decisions
  <2>1. UNCHANGED MaterialActs /\ phase' = "idle" /\ fresh' = NoAnswers /\ outcome' # "duplicates"
    BY <1>1 DEF ReviewBatch, Stop, MaterialActs
  <2> QED
    BY <2>1, QuietKeeps
<1>2. CASE ~(Stop("malformed") /\ UNCHANGED decisions)
  <2>1. PICK keep \in [ToSet(Batch) -> BOOLEAN] :
            /\ decisions' = [k \in DOMAIN decisions \cup ToSet(Batch) |-> IF k \in ToSet(Batch) THEN keep[k] ELSE decisions[k]]
            /\ todo' = AfterBatch /\ Same /\ UNCHANGED <<phase, packs, fresh, translations, reviews>>
    BY <1>2 DEF ReviewBatch
  <2>2. phase = "review" /\ todo # <<>> /\ finished = {} /\ todo \in Seq(ToSet(ReviewKeys))
    BY DEF ReviewBatch, Asking, MaterialInv, DecisionsAreKept, StageTodo
  <2>3. finished' = {} /\ outcome' = outcome /\ phase' = "review"
    BY <2>1, <2>2 DEF Same, endVars
  <2>4. /\ Batch \in Seq(ToSet(ReviewKeys)) /\ AfterBatch \in Seq(ToSet(ReviewKeys))
        /\ ToSet(todo) = ToSet(Batch) \cup ToSet(AfterBatch)
    BY <2>2, BatchSplits
  <2>5. ToSet(Batch) \subseteq ToSet(ReviewKeys)
    BY <2>4 DEF ToSet
  <2>6. DOMAIN decisions' = DOMAIN decisions \cup ToSet(Batch)
    BY <2>1
  <2>7. ReviewKeys' = ReviewKeys /\ Classified' = Classified
    OBVIOUS
  <2> HIDE DEF Batch, AfterBatch
  <2>8. StagePacks' /\ StageTodo'
    BY <2>1, <2>2, <2>3, <2>4, <2>7 DEF MaterialInv, StagePacks, StageTodo
  <2>9. DecisionsAreKept'
    <3>1. DOMAIN decisions \subseteq ToSet(ReviewKeys) /\ ToSet(ReviewKeys) \ DOMAIN decisions \subseteq ToSet(todo)
      BY <2>2 DEF MaterialInv, DecisionsAreKept
    <3> QED
      BY <2>1, <2>3, <2>4, <2>5, <2>6, <2>7, <3>1 DEF DecisionsAreKept
  <2>10. TranslationsAreKept'
    BY <2>3 DEF TranslationsAreKept
  <2>11. FinishedAreKept'
    BY <2>3 DEF FinishedAreKept
  <2> QED
    BY <2>3, <2>8, <2>9, <2>10, <2>11 DEF MaterialInv
<1> QED
  BY <1>1, <1>2

LEMMA TranslateKeeps == ASSUME MaterialInv, Translate PROVE MaterialInv'
<1>1. /\ phase \in {"open", "spoken"} /\ todo # <<>>
      /\ UNCHANGED <<phase, packs, decisions, reviews, finished, outcome>>
  BY DEF Translate, Asking, Same, endVars
<1>2. /\ Second' = Second /\ Third' = Third /\ Fourth' = Fourth /\ ReviewKeys' = ReviewKeys
  BY <1>1, StagesStay
<1> DEFINE rows == RowsOf(packs) \ Bilingual
<1>3. todo \in Seq(rows) /\ rows \subseteq Sentences
  <2>1. packs \in Tables
    BY <1>1, FourthIsTable DEF MaterialInv, StagePacks
  <2> QED
    BY <1>1, <2>1, RowsAre DEF MaterialInv, StageTodo
<1>4. PICK row \in ToSet(todo), text \in Translations :
        LET known == [id \in DOMAIN fresh \cup {row.id} |-> IF id = row.id THEN text ELSE fresh[id]]
            saved == Cardinality(DOMAIN known) = SaveEvery \/ todo' = <<>>
        IN /\ todo' = Without(todo, {row})
           /\ fresh' = IF saved THEN NoAnswers ELSE known
           /\ translations' = IF ~saved THEN translations
                ELSE [id \in DOMAIN translations \cup DOMAIN known |->
                        IF id \in DOMAIN known THEN known[id] ELSE translations[id]]
  BY DEF Translate
<1> DEFINE known == [id \in DOMAIN fresh \cup {row.id} |-> IF id = row.id THEN text ELSE fresh[id]]
           saved == Cardinality(DOMAIN known) = SaveEvery \/ todo' = <<>>
<1>5. /\ todo' = Without(todo, {row})
      /\ fresh' = IF saved THEN NoAnswers ELSE known
      /\ translations' = IF ~saved THEN translations
            ELSE [id \in DOMAIN translations \cup DOMAIN known |-> IF id \in DOMAIN known THEN known[id] ELSE translations[id]]
  BY <1>4
<1>6. DOMAIN known = DOMAIN fresh \cup {row.id}
  OBVIOUS
<1> HIDE DEF known, saved
<1>7. todo' \in Seq(rows) /\ ToSet(todo') = ToSet(todo) \ {row}
  BY <1>3, <1>5, WithoutHolds
<1>8. ToSet(todo) \subseteq rows /\ row \in rows
  BY <1>3 DEF ToSet
<1>9. /\ DOMAIN fresh \cap DOMAIN translations = {}
      /\ \A o \in ToSet(todo) : o.id \notin DOMAIN translations \cup DOMAIN fresh
      /\ \A o \in rows : o.id \in DOMAIN translations \cup DOMAIN fresh \/ o \in ToSet(todo)
  BY <1>1 DEF MaterialInv, TranslationsAreKept
<1>10. /\ DOMAIN translations \cup DOMAIN fresh \cup {row.id} = DOMAIN translations' \cup DOMAIN fresh'
       /\ DOMAIN fresh' \cap DOMAIN translations' = {}
       /\ todo' = <<>> => fresh' = NoAnswers
       /\ DOMAIN translations \subseteq DOMAIN translations'
       /\ \A id \in DOMAIN translations : translations'[id] = translations[id]
  <2>1. CASE saved
    <3>1. /\ fresh' = NoAnswers /\ DOMAIN fresh' = {}
          /\ translations' = [id \in DOMAIN translations \cup DOMAIN known |-> IF id \in DOMAIN known THEN known[id] ELSE translations[id]]
      BY <1>5, <2>1 DEF NoAnswers
    <3>2. \A id \in DOMAIN translations : id \notin DOMAIN known
      BY <1>6, <1>9
    <3> QED
      BY <1>6, <3>1, <3>2
  <2>2. CASE ~saved
    <3>1. fresh' = known /\ translations' = translations /\ todo' # <<>>
      BY <1>5, <2>2 DEF saved
    <3> QED
      BY <1>6, <1>9, <3>1
  <2> QED
    BY <2>1, <2>2
<1>11. \A o \in ToSet(todo') : o.id # row.id
  BY <1>3, <1>7, <1>8, SentenceAssumption
<1>12. /\ \A o \in ToSet(todo') : o.id \notin DOMAIN translations' \cup DOMAIN fresh'
       /\ \A o \in rows : o.id \in DOMAIN translations' \cup DOMAIN fresh' \/ o \in ToSet(todo')
  BY <1>7, <1>9, <1>10, <1>11
<1>13. rows' = rows
  BY <1>1
<1>14. phase' \in {"open", "spoken"} /\ phase' # "chinese" /\ phase' # "review" /\ phase' = phase /\ packs' = packs
  BY <1>1
<1>15. StagePacks' /\ StageTodo'
  <2>1. StagePacks'
    BY <1>1, <1>2, <1>14 DEF MaterialInv, StagePacks
  <2>2. StageTodo'
    BY <1>7, <1>13, <1>14 DEF StageTodo
  <2> QED
    BY <2>1, <2>2
<1>16. DecisionsAreKept'
  BY <1>1, <1>2, <1>14 DEF MaterialInv, DecisionsAreKept, AllDecided
<1>17. TranslationsAreKept'
  <2>1. finished # {} => \A o \in RowsOf(Fourth) \ Bilingual : o.id \in DOMAIN translations
    BY DEF MaterialInv, TranslationsAreKept
  <2> QED
    BY <1>1, <1>2, <1>10, <1>12, <1>13, <1>14, <2>1 DEF TranslationsAreKept
<1>18. FinishedAreKept'
  <2> SUFFICES ASSUME NEW made \in finished, NEW p \in Codes
               PROVE  /\ DOMAIN made[p] = DOMAIN Fourth[p] /\ Len(made[p]) = Len(Fourth[p])
                      /\ \A k \in DOMAIN made[p] : EntryIsKept(made[p][k], Fourth[p][k])'
    BY <1>1, <1>2, <1>14 DEF FinishedAreKept
  <2>1. /\ DOMAIN made[p] = DOMAIN Fourth[p] /\ Len(made[p]) = Len(Fourth[p])
        /\ \A k \in DOMAIN made[p] : EntryIsKept(made[p][k], Fourth[p][k])
    BY DEF MaterialInv, FinishedAreKept
  <2>2. ASSUME NEW k \in DOMAIN made[p] PROVE EntryIsKept(made[p][k], Fourth[p][k])'
    <3> DEFINE o == Fourth[p][k]
    <3>1. EntryIsKept(made[p][k], o)
      BY <2>1
    <3>2. o \notin Bilingual => o \in RowsOf(Fourth) \ Bilingual
      <4>1. Fourth[p] \in Seq(Sentences) /\ k \in 1..Len(Fourth[p])
        BY <2>1, FourthIsTable DEF Tables
      <4> QED
        BY <4>1, FourthIsTable, RowsAre
    <3>3. o \notin Bilingual => o.id \in DOMAIN translations
      BY <3>2 DEF MaterialInv, TranslationsAreKept
    <3>a. o' = o
      BY <1>2
    <3> HIDE DEF o
    <3>4. o \notin Bilingual => ChineseKey(o)' = ChineseKey(o)
      BY <1>10, <3>3, <3>a DEF ChineseKey
    <3>5. /\ made[p][k] = [row |-> o, chinese |-> made[p][k].chinese, status |-> made[p][k].status]
          /\ o \in Bilingual => made[p][k].chinese = "own" /\ made[p][k].status = "success"
      BY <3>1 DEF EntryIsKept
    <3>6. ASSUME o \notin Bilingual, made[p][k].status = "success"
          PROVE  /\ ChineseKey(o)' \in DOMAIN reviews'
                 /\ reviews'[ChineseKey(o)'].status = "success"
                 /\ made[p][k].chinese = reviews'[ChineseKey(o)'].chinese
      BY <1>1, <3>1, <3>4, <3>6 DEF EntryIsKept
    <3>7. EntryIsKept(made[p][k], o)'
      BY <1>2, <1>14, <3>5, <3>6 DEF EntryIsKept, o
    <3> QED
      BY <3>7 DEF o
  <2> QED
    BY <2>1, <2>2
<1> QED
  BY <1>1, <1>15, <1>16, <1>17, <1>18 DEF MaterialInv

LEMMA ReviewChineseKeeps == ASSUME MaterialInv, ReviewChinese PROVE MaterialInv'
<1>1. /\ phase = "chinese" /\ todo # <<>> /\ todo' = AfterBatch
      /\ UNCHANGED <<phase, packs, fresh, decisions, translations, finished, outcome>>
  BY DEF ReviewChinese, Asking, Same, endVars
<1>2. /\ Second' = Second /\ Third' = Third /\ Fourth' = Fourth /\ ReviewKeys' = ReviewKeys
  BY <1>1, StagesStay
<1> DEFINE rows == RowsOf(Fourth) \ Bilingual
           keys == {ChineseKey(row) : row \in ToSet(Batch)}
<1>3. packs = Fourth /\ todo \in Seq(rows) /\ rows \subseteq Sentences
  BY <1>1, FourthIsTable, RowsAre DEF MaterialInv, StagePacks, StageTodo
<1>4. Batch \in Seq(rows) /\ AfterBatch \in Seq(rows) /\ ToSet(todo) = ToSet(Batch) \cup ToSet(AfterBatch)
  BY <1>3, BatchSplits
<1>5. DOMAIN reviews' = DOMAIN reviews \cup keys /\ \A k \in DOMAIN reviews \ keys : reviews'[k] = reviews[k]
  BY DEF ReviewChinese
<1>6. ToSet(Batch) \subseteq rows /\ ToSet(AfterBatch) \subseteq rows
  BY <1>4 DEF ToSet
<1> HIDE DEF Batch, AfterBatch
<1>7. rows' = rows /\ (RowsOf(packs) \ Bilingual)' = rows
  BY <1>1, <1>2, <1>3
<1>8. \A row : ChineseKey(row)' = ChineseKey(row)
  BY <1>1 DEF ChineseKey
<1>9. phase' = "chinese" /\ phase' = phase
  BY <1>1
<1>10. StagePacks' /\ StageTodo'
  BY <1>1, <1>2, <1>4, <1>7, <1>9 DEF MaterialInv, StagePacks, StageTodo
<1>11. DecisionsAreKept'
  BY <1>1, <1>2, <1>9 DEF MaterialInv, DecisionsAreKept, AllDecided
<1>12. TranslationsAreKept'
  BY <1>1, <1>2, <1>9 DEF MaterialInv, TranslationsAreKept
<1>13. FinishedAreKept'
  <2>1. \A row \in rows : ChineseKey(row) \in DOMAIN reviews' \/ row \in ToSet(todo')
    <3> TAKE row \in rows
    <3>1. ChineseKey(row) \in DOMAIN reviews \/ row \in ToSet(todo)
      BY <1>1 DEF MaterialInv, FinishedAreKept
    <3>2. row \in ToSet(Batch) => ChineseKey(row) \in keys
      OBVIOUS
    <3> HIDE DEF keys
    <3> QED
      BY <1>1, <1>4, <1>5, <3>1, <3>2
  <2>2. ASSUME NEW made \in finished, NEW p \in Codes
        PROVE  /\ DOMAIN made[p] = DOMAIN Fourth[p] /\ Len(made[p]) = Len(Fourth[p])
               /\ \A k \in DOMAIN made[p] : EntryIsKept(made[p][k], Fourth[p][k])'
    <3>1. /\ DOMAIN made[p] = DOMAIN Fourth[p] /\ Len(made[p]) = Len(Fourth[p])
          /\ \A k \in DOMAIN made[p] : EntryIsKept(made[p][k], Fourth[p][k])
      BY DEF MaterialInv, FinishedAreKept
    <3>2. ASSUME NEW k \in DOMAIN made[p] PROVE EntryIsKept(made[p][k], Fourth[p][k])'
      <4> DEFINE o == Fourth[p][k]
      <4>1. EntryIsKept(made[p][k], o)
        BY <3>1
      <4>2. o \in Sentences
        <5>1. Fourth[p] \in Seq(Sentences) /\ k \in 1..Len(Fourth[p])
          BY <3>1, FourthIsTable DEF Tables
        <5> QED
          BY <5>1
      <4> HIDE DEF o
      <4>3. o \notin ToSet(todo) => ChineseKey(o) \notin keys
        <5>1. \A row \in ToSet(Batch) : row # o => row.id # o.id
          BY <1>3, <1>6, <4>2, SentenceAssumption
        <5>2. o \notin ToSet(todo) => \A row \in ToSet(Batch) : row # o
          BY <1>4
        <5> QED
          BY <5>1, <5>2 DEF ChineseKey
      <4> HIDE DEF keys
      <4>4. EntryIsKept(made[p][k], o)'
        BY <1>1, <1>2, <1>4, <1>5, <1>8, <4>1, <4>3 DEF o, EntryIsKept
      <4> QED
        BY <4>4 DEF o
    <3> QED
      BY <3>1, <3>2
  <2> QED
    BY <1>1, <1>2, <1>8, <2>1, <2>2 DEF FinishedAreKept
<1> QED
  BY <1>1, <1>10, <1>11, <1>12, <1>13 DEF MaterialInv

\* A run that comes to its last check passes it.
LEMMA LastCheckPasses ==
    ASSUME NEW table \in Tables, Apart(table), \A p \in Codes : Len(table[p]) <= TargetPerPack
    PROVE  Cardinality(Norms(RowsOf(table))) = Cardinality(ItemsOfAll(table))
<1> DEFINE S == ItemsOfAll(table)
           T == Norms(RowsOf(table))
           f == [z \in S |-> table[z[1]][z[2]].norm]
<1>1. \A p \in Codes : table[p] \in Seq(Sentences) /\ DOMAIN table[p] = 1..Len(table[p])
  BY DEF Tables
<1>2. \A z : z \in S <=> \E p \in Codes : \E k \in 1..Len(table[p]) : z = <<p, k>>
  BY <1>1 DEF ItemsOfAll
<1>3. \A n : n \in T <=> \E p \in Codes : \E k \in 1..Len(table[p]) : n = table[p][k].norm
  BY RowsAre DEF Norms
<1>4. IsFiniteSet(S)
  <2>1. IsFiniteSet(Codes \X (1..TargetPerPack))
    BY CodesFinite, TargetIs, FS_Product
  <2>2. S \in SUBSET (Codes \X (1..TargetPerPack))
    <3> SUFFICES ASSUME NEW p \in Codes, NEW k \in 1..Len(table[p]) PROVE k \in 1..TargetPerPack
      BY <1>2
    <3>1. Len(table[p]) \in Nat /\ Len(table[p]) <= TargetPerPack /\ TargetPerPack \in Nat
      BY <1>1, TargetIs
    <3> QED
      BY <3>1
  <2> HIDE DEF S
  <2> QED
    BY <2>1, <2>2, FS_Subset
<1> HIDE DEF S, T
<1>5. f \in [S -> T]
  BY <1>2, <1>3
<1>6. \A y, z \in S : f[y] = f[z] => y = z
  <2> SUFFICES ASSUME NEW y \in S, NEW z \in S, f[y] = f[z] PROVE y = z
    OBVIOUS
  <2>1. PICK p \in Codes : \E k \in 1..Len(table[p]) : y = <<p, k>>
    BY <1>2
  <2>2. PICK k \in 1..Len(table[p]) : y = <<p, k>>
    BY <2>1
  <2>3. PICK q \in Codes : \E l \in 1..Len(table[q]) : z = <<q, l>>
    BY <1>2
  <2>4. PICK l \in 1..Len(table[q]) : z = <<q, l>>
    BY <2>3
  <2>5. table[p][k].norm = table[q][l].norm
    BY <2>2, <2>4
  <2> QED
    BY <2>2, <2>4, <2>5 DEF Apart
<1>7. \A n \in T : \E z \in S : f[z] = n
  <2> SUFFICES ASSUME NEW p \in Codes, NEW k \in 1..Len(table[p]) PROVE \E z \in S : f[z] = table[p][k].norm
    BY <1>3
  <2>1. <<p, k>> \in S
    BY <1>2
  <2> QED
    BY <2>1
<1> HIDE DEF f
<1>8. f \in Injection(S, T) /\ f \in Surjection(S, T)
  BY <1>5, <1>6, <1>7 DEF Injection, IsInjective, Surjection
<1>9. IsFiniteSet(T) /\ Cardinality(T) <= Cardinality(S) /\ Cardinality(T) \in Nat /\ Cardinality(S) \in Nat
  BY <1>4, <1>8, FS_Surjection, FS_CardinalityType
<1>10. Cardinality(S) <= Cardinality(T)
  BY <1>8, <1>9, FS_Injection
<1> QED
  BY <1>9, <1>10 DEF S, T

LEMMA ProduceKeeps == ASSUME MaterialInv, Produce PROVE MaterialInv'
<1>1. phase = "chinese" /\ todo = <<>> /\ packs = Fourth /\ fresh = NoAnswers
  BY DEF Produce, MaterialInv, StagePacks, StageTodo
<1>2. Cardinality(Norms(RowsOf(packs))) = Cardinality(ItemsOfAll(packs))
  BY <1>1, FourthIsTable, FourthMakes, LastCheckPasses DEF Extends
<1>3. /\ phase' = "idle" /\ outcome' = "produced" /\ finished' = finished \cup {Result}
      /\ UNCHANGED <<decisions, translations, reviews, todo, fresh>>
  BY <1>2 DEF Produce, askVars
<1>4. /\ Second' = Second /\ Third' = Third /\ Fourth' = Fourth /\ ReviewKeys' = ReviewKeys
  BY <1>3, StagesStay
<1>5. StagePacks' /\ StageTodo'
  BY <1>1, <1>3 DEF StagePacks, StageTodo
<1>6. DecisionsAreKept'
  BY <1>1, <1>3, <1>4 DEF MaterialInv, DecisionsAreKept, AllDecided
<1>7. TranslationsAreKept'
  BY <1>1, <1>3, <1>4 DEF MaterialInv, TranslationsAreKept
<1>8. FinishedAreKept'
  <2>1. ASSUME NEW made \in finished, NEW p \in Codes
        PROVE  /\ DOMAIN made[p] = DOMAIN Fourth[p] /\ Len(made[p]) = Len(Fourth[p])
               /\ \A k \in DOMAIN made[p] : EntryIsKept(made[p][k], Fourth[p][k])'
    <3>1. /\ DOMAIN made[p] = DOMAIN Fourth[p] /\ Len(made[p]) = Len(Fourth[p])
          /\ \A k \in DOMAIN made[p] : EntryIsKept(made[p][k], Fourth[p][k])
      BY DEF MaterialInv, FinishedAreKept
    <3>2. ASSUME NEW k \in DOMAIN made[p] PROVE EntryIsKept(made[p][k], Fourth[p][k])'
      <4>1. EntryIsKept(made[p][k], Fourth[p][k])
        BY <3>1
      <4> QED
        BY <1>3, <1>4, <4>1 DEF EntryIsKept, ChineseKey
    <3> QED
      BY <3>1, <3>2
  <2>2. ASSUME NEW made, made = Result, NEW p \in Codes
        PROVE  /\ DOMAIN made[p] = DOMAIN Fourth[p] /\ Len(made[p]) = Len(Fourth[p])
               /\ \A k \in DOMAIN made[p] : EntryIsKept(made[p][k], Fourth[p][k])'
    <3>1. Fourth[p] \in Seq(Sentences) /\ DOMAIN Fourth[p] = 1..Len(Fourth[p]) /\ Len(Fourth[p]) \in Nat
      BY FourthIsTable DEF Tables
    <3>2. made[p] = [k \in 1..Len(Fourth[p]) |-> Final(Fourth[p][k])]
      BY <1>1, <2>2, <3>1 DEF Result
    <3>3. DOMAIN made[p] = 1..Len(Fourth[p]) /\ Len(made[p]) = Len(Fourth[p])
      BY <3>1, <3>2
    <3>4. ASSUME NEW k \in 1..Len(Fourth[p]) PROVE EntryIsKept(made[p][k], Fourth[p][k])'
      <4> DEFINE o == Fourth[p][k]
                 e == made[p][k]
      <4>1. e = Final(o)
        BY <3>2
      <4>2. o \notin Bilingual => o \in RowsOf(Fourth) \ Bilingual
        BY FourthIsTable, RowsAre
      <4>3. o \notin Bilingual => ChineseKey(o) \in DOMAIN reviews
        BY <1>1, <4>2 DEF MaterialInv, FinishedAreKept, ToSet
      <4>4. o' = o /\ e' = e
        BY <1>4
      <4> HIDE DEF o, e
      <4>5. ChineseKey(o)' = ChineseKey(o)
        BY <1>3, <4>4 DEF ChineseKey
      <4>6. EntryIsKept(e, o)'
        <5>1. CASE o \in Bilingual
          BY <4>1, <4>4, <5>1 DEF EntryIsKept, Final
        <5>2. CASE o \notin Bilingual
          BY <1>3, <4>1, <4>3, <4>4, <4>5, <5>2 DEF EntryIsKept, Final
        <5> QED
          BY <5>1, <5>2
      <4> QED
        BY <4>6 DEF o, e
    <3> QED
      BY <3>1, <3>3, <3>4
  <2>3. \A made \in finished' : made \in finished \/ made = Result
    BY <1>3
  <2>4. \A made \in finished' : \A p \in Codes :
            /\ DOMAIN made[p] = DOMAIN Fourth[p] /\ Len(made[p]) = Len(Fourth[p])
            /\ \A k \in DOMAIN made[p] : EntryIsKept(made[p][k], Fourth[p][k])'
    BY <2>1, <2>2, <2>3
  <2> QED
    BY <1>3, <1>4, <2>4 DEF FinishedAreKept
<1> QED
  BY <1>3, <1>5, <1>6, <1>7, <1>8 DEF MaterialInv

LEMMA MaterialStep == ASSUME MaterialInv, [MaterialNext]_materialVars PROVE MaterialInv'
<1>0. MaterialInv => outcome # "duplicates"
  BY DEF MaterialInv
<1>1. ASSUME NEW how, StartRun(how) PROVE MaterialInv'
  BY <1>0, <1>1, QuietKeeps DEF StartRun, GoOn, MaterialActs, askVars, endVars
<1>2. ASSUME NEW archive, UseArchive(archive), phase \in Archives PROVE MaterialInv'
  <2>1. UNCHANGED <<decisions, translations, reviews>>
    BY <1>2 DEF UseArchive, askVars
  <2>2. CASE Stop("checksum")
    BY <2>1, <2>2, QuietKeeps DEF Stop, MaterialActs
  <2>3. CASE GoOn(StageAfter(phase)) /\ Same
    <3>1. UNCHANGED <<MaterialActs, outcome>>
      BY <2>1, <2>3 DEF Same, MaterialActs, endVars
    <3> QED
      BY <1>2, <2>3, <3>1, StagesAre, ToReview, ToTranslation, ToSupplements DEF Archives
  <2> QED
    BY <1>2, <2>2, <2>3 DEF UseArchive
<1>3. CASE ReadArchive
  BY <1>2, <1>3 DEF ReadArchive
<1>4. CASE Download
  <2>1. CASE Stop("unavailable") /\ UNCHANGED <<archives, askVars, torn>>
    BY <2>1, QuietKeeps DEF Stop, MaterialActs, askVars
  <2> QED
    BY <1>2, <1>4, <2>1 DEF Download
<1>5. CASE CacheIsTorn
  BY <1>5, QuietKeeps DEF CacheIsTorn, Stop, MaterialActs, askVars
<1>6. CASE ReviewBatch
  BY <1>6, ReviewBatchKeeps
<1>7. CASE Translate
  BY <1>7, TranslateKeeps
<1>8. CASE TranslationFails
  BY <1>8, QuietKeeps DEF TranslationFails, Stop, MaterialActs, askVars
<1>9. CASE ReviewChinese
  BY <1>9, ReviewChineseKeeps
<1>10. CASE EndStage
  <2>1. UNCHANGED <<MaterialActs, outcome>> /\ phase \in {"review", "open", "spoken"} /\ todo = <<>> /\ GoOn(StageAfter(phase))
    BY <1>10 DEF EndStage, Same, MaterialActs, endVars, askVars
  <2> QED
    BY <2>1, StagesAre, ToSupplements, ToChinese
<1>11. CASE Produce
  BY <1>11, ProduceKeeps
<1>12. CASE Die
  BY <1>12, QuietKeeps DEF Die, Stop, MaterialActs, askVars
<1>13. CASE UNCHANGED materialVars
  <2>1. UNCHANGED <<phase, packs, todo, fresh, outcome, finished, decisions, translations, reviews>>
    BY <1>13 DEF materialVars, askVars, endVars
  <2>2. /\ Second' = Second /\ Third' = Third /\ Fourth' = Fourth /\ ReviewKeys' = ReviewKeys
    BY <2>1, StagesStay
  <2>3. StagePacks' /\ StageTodo' /\ DecisionsAreKept' /\ TranslationsAreKept'
    BY <2>1, <2>2 DEF MaterialInv, StagePacks, StageTodo, DecisionsAreKept, TranslationsAreKept, AllDecided
  <2>4. FinishedAreKept'
    BY <2>1, <2>2 DEF MaterialInv, FinishedAreKept, EntryIsKept, ChineseKey
  <2> QED
    BY <2>1, <2>3, <2>4 DEF MaterialInv
<1>14. CASE Adapt
  <2>1. UNCHANGED <<decisions, translations, reviews>> /\ phase = "adapt"
    BY <1>14 DEF Adapt, askVars
  <2>2. CASE Stop("torn")
    BY <2>1, <2>2, QuietKeeps DEF Stop, MaterialActs
  <2>3. CASE GoOn(StageAfter(phase)) /\ Same
    <3>1. UNCHANGED <<MaterialActs, outcome>>
      BY <2>1, <2>3 DEF Same, MaterialActs, endVars
    <3> QED
      BY <2>1, <2>3, <3>1, StagesAre, ToTranslation
  <2> QED
    BY <1>14, <2>2, <2>3 DEF Adapt
<1> QED
  BY <1>1, <1>3, <1>4, <1>5, <1>6, <1>7, <1>8, <1>9, <1>10, <1>11, <1>12, <1>13, <1>14 DEF MaterialNext

\* MaterialInv is inductive: the packs of a stage are those its sources and the answers
\* on disk determine, its misses are what those answers lack, and finished runs agree
\* with the answers that are kept, wherever a run was cut off (produce_scenario_materials).
THEOREM MaterialInvHolds == MaterialSpec => []MaterialInv
<1>1. MaterialInit => MaterialInv
  BY InitKeeps
<1>2. MaterialInv /\ [MaterialNext]_materialVars => MaterialInv'
  BY MaterialStep
<1> QED
  BY <1>1, <1>2, PTL DEF MaterialSpec

LEMMA WholeFollows == ASSUME MaterialInv PROVE MaterialsAreWhole
<1>1. outcome # "duplicates"
  BY DEF MaterialInv
<1> SUFFICES ASSUME NEW made \in finished, NEW p \in Codes
             PROVE  LET rows == {made[p][k].row : k \in DOMAIN made[p]}
                        All == UNION {{made[c][k].row : k \in DOMAIN made[c]} : c \in Codes}
                    IN /\ Len(made[p]) <= TargetPerPack
                       /\ Len(made[p]) < TargetPerPack =>
                            \A row \in ToSet(Dialogues) :
                                row.fits[p] > 0 => \E other \in All \cup (ToSet(Dialogues) \ {row}) :
                                    other.norm = row.norm \/ other.print = row.print
                       /\ \A row \in rows : <<p, row.id>> \in DOMAIN decisions => decisions[<<p, row.id>>]
  BY <1>1 DEF MaterialsAreWhole
<1> DEFINE All == UNION {{made[c][k].row : k \in DOMAIN made[c]} : c \in Codes}
<1>2. \A c \in Codes : /\ Fourth[c] \in Seq(Sentences) /\ DOMAIN Fourth[c] = 1..Len(Fourth[c])
                       /\ Third[c] \in Seq(Sentences) /\ Second[c] \in Seq(Sentences)
  BY FourthIsTable DEF Tables
<1>3. \A c \in Codes : /\ DOMAIN made[c] = 1..Len(Fourth[c]) /\ Len(made[c]) = Len(Fourth[c])
                       /\ \A k \in DOMAIN made[c] : made[c][k].row = Fourth[c][k]
  <2> TAKE c \in Codes
  <2>1. /\ DOMAIN made[c] = DOMAIN Fourth[c] /\ Len(made[c]) = Len(Fourth[c])
        /\ \A k \in DOMAIN made[c] : EntryIsKept(made[c][k], Fourth[c][k])
    BY DEF MaterialInv, FinishedAreKept
  <2>2. \A k \in DOMAIN made[c] : made[c][k].row = Fourth[c][k]
    <3> TAKE k \in DOMAIN made[c]
    <3>1. made[c][k] = [row |-> Fourth[c][k], chinese |-> made[c][k].chinese, status |-> made[c][k].status]
      BY <2>1 DEF EntryIsKept
    <3> QED
      BY <3>1
  <2> QED
    BY <1>2, <2>1, <2>2
<1>4. RowsOf(Fourth) \subseteq All
  <2> SUFFICES ASSUME NEW c \in Codes, NEW k \in 1..Len(Fourth[c]) PROVE Fourth[c][k] \in All
    BY FourthIsTable, RowsAre
  <2> QED
    BY <1>3
<1> HIDE DEF All
<1>5. Len(made[p]) <= TargetPerPack
  BY <1>3, FourthMakes DEF Extends
<1>6. Len(made[p]) < TargetPerPack =>
        \A row \in ToSet(Dialogues) :
            row.fits[p] > 0 => \E other \in All \cup (ToSet(Dialogues) \ {row}) :
                other.norm = row.norm \/ other.print = row.print
  <2> SUFFICES ASSUME Len(made[p]) < TargetPerPack, NEW row \in ToSet(Dialogues), row.fits[p] > 0
               PROVE  \E other \in All \cup (ToSet(Dialogues) \ {row}) : other.norm = row.norm \/ other.print = row.print
    OBVIOUS
  <2>1. PICK other \in RowsOf(Fourth) \cup (ToSet(Dialogues) \ {row}) : other.norm = row.norm \/ other.print = row.print
    BY <1>3, FourthMakes
  <2> QED
    BY <1>4, <2>1
<1>7. ASSUME NEW k \in DOMAIN made[p], <<p, made[p][k].row.id>> \in DOMAIN decisions
      PROVE  decisions[<<p, made[p][k].row.id>>]
  <2> DEFINE o == Fourth[p][k]
  <2>1. made[p][k].row = o /\ o \in Sentences /\ k \in 1..Len(Fourth[p])
    BY <1>2, <1>3
  <2>2. PICK row \in Bilingual : row.id = o.id
    <3>1. <<p, o.id>> \in PackKeys
      BY <1>7, <2>1, KeysHold DEF MaterialInv, DecisionsAreKept
    <3> QED
      BY <3>1 DEF PackKeys
  <2>3. o \in Bilingual
    <3>1. row \in Sentences
      BY DEF Sentences
    <3> HIDE DEF o
    <3> QED
      BY <2>1, <2>2, <3>1, SentenceAssumption
  <2>4. k <= Len(Third[p]) /\ o = Third[p][k]
    BY <2>1, <2>3, FourthMakes DEF Extends
  <2>5. k \in 1..Len(Third[p])
    BY <1>2, <2>1, <2>4
  <2>6. k <= Len(Second[p]) /\ o = Second[p][k]
    BY <2>3, <2>4, <2>5, ThirdMakes DEF Extends
  <2>7. k \in 1..Len(Second[p])
    BY <1>2, <2>1, <2>6
  <2>8. o \notin Rejected(p)
    BY <2>6, <2>7, SecondMakes
  <2> HIDE DEF o
  <2> QED
    BY <1>7, <2>1, <2>3, <2>8 DEF Rejected
<1> QED
  BY <1>5, <1>6, <1>7 DEF All

LEMMA RepeatFollows == ASSUME MaterialInv PROVE RunsRepeat
<1> SUFFICES ASSUME NEW one \in finished, NEW two \in finished, NEW p \in Codes
             PROVE  /\ Len(one[p]) = Len(two[p])
                    /\ \A k \in DOMAIN one[p] :
                        /\ one[p][k].row = two[p][k].row
                        /\ one[p][k].status = "success" /\ two[p][k].status = "success" => one[p][k] = two[p][k]
  BY DEF RunsRepeat
<1>1. \A made \in finished : /\ DOMAIN made[p] = DOMAIN Fourth[p] /\ Len(made[p]) = Len(Fourth[p])
                             /\ \A k \in DOMAIN made[p] : EntryIsKept(made[p][k], Fourth[p][k])
  BY DEF MaterialInv, FinishedAreKept
<1>2. ASSUME NEW k \in DOMAIN one[p]
      PROVE  /\ one[p][k].row = two[p][k].row
             /\ one[p][k].status = "success" /\ two[p][k].status = "success" => one[p][k] = two[p][k]
  <2> DEFINE o == Fourth[p][k]
             e == one[p][k]
             g == two[p][k]
  <2>1. EntryIsKept(e, o) /\ EntryIsKept(g, o)
    BY <1>1
  <2> HIDE DEF o, e, g
  <2>2. e = [row |-> o, chinese |-> e.chinese, status |-> e.status] /\ g = [row |-> o, chinese |-> g.chinese, status |-> g.status]
    BY <2>1 DEF EntryIsKept
  <2>3. e.status = "success" /\ g.status = "success" => e.chinese = g.chinese
    BY <2>1 DEF EntryIsKept
  <2>4. e.row = o /\ g.row = o
    BY <2>2
  <2>5. e.status = "success" /\ g.status = "success" => e = g
    BY <2>2, <2>3
  <2> QED
    BY <2>4, <2>5 DEF e, g
<1> QED
  BY <1>1, <1>2

\* MaterialsAreWhole in every state: the check for duplicates at the end of
\* produce_scenario_materials never fires, a pack is full unless no dialogue is left for
\* it, and no row the reviewer rejected is in it.
THEOREM PacksAreWhole == MaterialSpec => []MaterialsAreWhole
BY MaterialInvHolds, WholeFollows, PTL

\* RunsRepeat in every state: runs that were stopped and started again produce the same
\* sentences in the same order, and the same Chinese where both had it reviewed.
THEOREM RunsDoRepeat == MaterialSpec => []RunsRepeat
BY MaterialInvHolds, RepeatFollows, PTL

-----------------------------------------------------------------------------
(* Rules: what a round does to its cards.                                  *)

\* Items that stand in a line of n places.
InLine(R, n) ==
    /\ {i.position : i \in R} = 0..(n - 1)
    /\ \A i, j \in R : i.position = j.position => i = j

LEMMA LineCounts ==
    ASSUME NEW R, NEW n \in Nat, InLine(R, n)
    PROVE  IsFiniteSet(R) /\ Cardinality(R) = n
<1> DEFINE at == [k \in 0..(n - 1) |-> CHOOSE i \in R : i.position = k]
<1>1. \A k \in 0..(n - 1) : at[k] \in R /\ at[k].position = k
  BY DEF InLine
<1>2. \A i \in R : i.position \in 0..(n - 1)
  BY DEF InLine
<1>3. at \in [0..(n - 1) -> R]
  BY <1>1
<1> HIDE DEF at
<1>4. \A i \in R : at[i.position] = i
  BY <1>1, <1>2 DEF InLine
<1>5. at \in Surjection(0..(n - 1), R) /\ at \in Injection(0..(n - 1), R)
  BY <1>1, <1>2, <1>3, <1>4 DEF Surjection, Injection, IsInjective
<1>6. IsFiniteSet(0..(n - 1)) /\ Cardinality(0..(n - 1)) = n
  BY FS_Interval
<1>7. IsFiniteSet(R) /\ (Cardinality(R) = Cardinality(0..(n - 1)) <=> at \in Injection(0..(n - 1), R))
  BY <1>5, <1>6, FS_Surjection
<1> QED
  BY <1>5, <1>6, <1>7

Grades == [state : {"new", "strengthening", "mastered", "reviewing"}, score : 0..5, recovery : 0..2,
           interval : Nat, last : Results \cup {"none"}]
RoundItems == [card : Studied, position : Nat, reappear : Nat, first : Results \cup {"none"}, result : Results \cup {"none"}]

\* A repeat still to be asked comes from a failure; an original still to be asked is
\* the card's only item.
AskedOnce ==
    \A i \in Pending :
        IF i.reappear > 0 THEN i.first \in Failures
        ELSE i.first = "none" /\ \A j \in round : j.card = i.card => j = i

RoundInv ==
    /\ study \in [Studied -> Grades]
    /\ round \in SUBSET RoundItems
    /\ \E n \in Nat : InLine(round, n)
    /\ AskedOnce
    /\ \A c \in Studied : study[c].state = "mastered" =>
        /\ study[c].score = 5 /\ study[c].recovery = 0 /\ study[c].last = "fluent"
        /\ \A i \in round : i.card = c => i.first \notin Failures

LEMMA ScoresAre ==
    ASSUME NEW score \in 0..5, NEW result \in Results
    PROVE  ScoreAfter(score, result) \in 0..5
<1>1. score \in {0, 1, 2, 3, 4, 5}
  OBVIOUS
<1>2. CASE result = "forgot"
  <2>1. ScoreAfter(score, result) = <<0, 0, 0, 1, 2, 3>>[score + 1]
    BY <1>2 DEF ScoreAfter
  <2> QED
    BY <1>1, <2>1
<1>3. CASE result = "shaky"
  <2>1. ScoreAfter(score, result) = <<0, 1, 2, 2, 3, 4>>[score + 1]
    BY <1>3 DEF ScoreAfter
  <2> QED
    BY <1>1, <2>1
<1>4. CASE result = "got_it"
  BY <1>4 DEF ScoreAfter, Smaller
<1>5. CASE result = "fluent"
  BY <1>5 DEF ScoreAfter, Smaller
<1> QED
  BY <1>2, <1>3, <1>4, <1>5 DEF Results

LEMMA IntervalsAre ==
    ASSUME NEW score \in 0..5, NEW recovery \in 0..2, NEW result \in Results
    PROVE  IntervalAfter(result, score, recovery) \in Nat
<1> DEFINE base == <<1, 2, 4, 7, 14, 30>>[score + 1]
<1>1. score \in {0, 1, 2, 3, 4, 5}
  OBVIOUS
<1>2. base \in Nat
  BY <1>1
<1>3. IntervalAfter(result, score, recovery) \in {1, 2, Smaller(base, 7), Smaller(base, 14), base}
  BY DEF IntervalAfter
<1> HIDE DEF base
<1> QED
  BY <1>2, <1>3 DEF Smaller

LEMMA GradedIs ==
    ASSUME NEW card \in Grades, NEW result \in Results, NEW again \in BOOLEAN, NEW first
    PROVE  LET grade == Graded(card, result, again, first) IN
           /\ grade \in Grades
           /\ result \in Failures => grade.state # "mastered"
           /\ grade.state = "mastered" =>
                /\ grade.score = 5 /\ grade.recovery = 0 /\ grade.last = "fluent"
                /\ ~(again /\ first \in Failures)
<1> DEFINE score == ScoreAfter(card.score, result)
           recovery == RecoveryAfter(card.recovery, result)
           state == StateAfter(result, score, recovery, again, first)
           grade == Graded(card, result, again, first)
<1>0. card.score \in 0..5 /\ card.recovery \in 0..2
  BY DEF Grades
<1>1. score \in 0..5
  BY <1>0, ScoresAre
<1>2. recovery \in 0..2
  BY <1>0 DEF RecoveryAfter, Larger
<1> HIDE DEF score, recovery
<1>3. IntervalAfter(result, score, card.recovery) \in Nat
  BY <1>0, <1>1, IntervalsAre
<1>4. /\ state \in {"strengthening", "mastered", "reviewing"}
      /\ result \in Failures => state # "mastered"
      /\ state = "mastered" => score = 5 /\ recovery = 0 /\ result = "fluent" /\ ~(again /\ first \in Failures)
  BY <1>1 DEF StateAfter
<1> HIDE DEF state
<1>5. grade = [state |-> IF card.state = "new" /\ result = "fluent" THEN "reviewing" ELSE state,
               score |-> score, recovery |-> recovery,
               interval |-> IntervalAfter(result, score, card.recovery), last |-> result]
  BY DEF Graded, score, recovery, state
<1> HIDE DEF grade
<1> QED
  BY <1>1, <1>2, <1>3, <1>4, <1>5 DEF Grades, grade

\* A new line takes every card once.
LEMMA LineBegins ==
    ASSUME RuleAssumption,
           NEW order \in [1..Cardinality(Studied) -> Studied],
           \A c \in Studied : \E p \in DOMAIN order : order[p] = c
    PROVE  /\ ItemsOf(order) \in SUBSET RoundItems
           /\ InLine(ItemsOf(order), Cardinality(Studied))
           /\ \A i, j \in ItemsOf(order) : j.card = i.card => j = i
           /\ \A i \in ItemsOf(order) : i.reappear = 0 /\ i.first = "none"
<1> DEFINE n == Cardinality(Studied)
           item(p) == [card |-> order[p], position |-> p - 1, reappear |-> 0, first |-> "none", result |-> "none"]
<1>1. n \in Nat /\ IsFiniteSet(1..n) /\ Cardinality(1..n) = n
  BY RuleAssumption, FS_CardinalityType, FS_Interval DEF RuleAssumption
<1>2. order \in [1..n -> Studied] /\ \A c \in Studied : \E p \in 1..n : order[p] = c
  OBVIOUS
<1>a. IsFiniteSet(Studied) /\ Cardinality(1..n) = Cardinality(Studied)
  BY <1>1, RuleAssumption DEF RuleAssumption
<1> HIDE DEF n
<1>3. order \in Surjection(1..n, Studied)
  BY <1>2 DEF Surjection
<1>4. order \in Injection(1..n, Studied)
  BY <1>a, <1>1, <1>3, FS_Surjection
<1>5. \A p, q \in 1..n : order[p] = order[q] => p = q
  BY <1>4 DEF Injection, IsInjective
<1>6. ItemsOf(order) = {item(p) : p \in 1..n}
  BY <1>2 DEF ItemsOf
<1>7. ASSUME NEW p \in 1..n PROVE item(p) \in RoundItems
  <2>0. order[p] \in Studied
    BY <1>2
  <2>1. order[p] \in Studied /\ p - 1 \in Nat
    BY <1>1, <2>0
  <2> QED
    BY <2>1 DEF RoundItems
<1>8. InLine({item(p) : p \in 1..n}, n)
  <2>1. {i.position : i \in {item(p) : p \in 1..n}} = 0..(n - 1)
    <3>1. ASSUME NEW k \in 0..(n - 1) PROVE k \in {i.position : i \in {item(p) : p \in 1..n}}
      <4>1. k + 1 \in 1..n /\ item(k + 1).position = k
        BY <1>1
      <4> QED
        BY <4>1
    <3>2. \A p \in 1..n : item(p).position \in 0..(n - 1)
      BY <1>1
    <3> HIDE DEF item
    <3>3. \A i \in {item(p) : p \in 1..n} : i.position \in 0..(n - 1)
      BY <3>2, Zenon
    <3>4. {i.position : i \in {item(p) : p \in 1..n}} \subseteq 0..(n - 1)
      BY <3>3, Zenon
    <3> QED
      BY <3>1, <3>4, Zenon
  <2>2. ASSUME NEW p \in 1..n, NEW q \in 1..n, item(p).position = item(q).position PROVE item(p) = item(q)
    BY <1>1, <2>2
  <2> QED
    BY <2>1, <2>2 DEF InLine
<1>9. ASSUME NEW p \in 1..n, NEW q \in 1..n, item(p).card = item(q).card PROVE item(p) = item(q)
  <2>1. order[p] = order[q]
    BY <1>9
  <2> QED
    BY <1>5, <2>1
<1> QED
  BY <1>6, <1>7, <1>8, <1>9 DEF n

\* An item may be exchanged for another in its place.
LEMMA LineKept ==
    ASSUME NEW R, NEW n \in Nat, InLine(R, n), NEW i \in R, NEW d, d.position = i.position
    PROVE  InLine((R \ {i}) \cup {d}, n)
<1>1. ASSUME NEW k \in 0..(n - 1) PROVE \E j \in (R \ {i}) \cup {d} : j.position = k
  <2>1. PICK j \in R : j.position = k
    BY DEF InLine
  <2> QED
    BY <2>1
<1>2. \A j \in (R \ {i}) \cup {d} : j.position \in 0..(n - 1)
  BY DEF InLine
<1>3. \A j, k \in (R \ {i}) \cup {d} : j.position = k.position => j = k
  BY DEF InLine
<1> QED
  BY <1>1, <1>2, <1>3 DEF InLine

Moved(j, at) == IF j.position >= at THEN [j EXCEPT !.position = j.position + 1] ELSE j

LEMMA MovedIs ==
    ASSUME NEW at \in Nat, NEW j \in RoundItems
    PROVE  /\ Moved(j, at) \in RoundItems
           /\ Moved(j, at).position = IF j.position >= at THEN j.position + 1 ELSE j.position
           /\ Moved(j, at).card = j.card /\ Moved(j, at).reappear = j.reappear
           /\ Moved(j, at).first = j.first /\ Moved(j, at).result = j.result
BY DEF Moved, RoundItems

\* One may be put in, the items from its place on moving by one.
LEMMA LineGrows ==
    ASSUME NEW R \in SUBSET RoundItems, NEW n \in Nat, InLine(R, n), NEW at \in 0..n, NEW x, x.position = at
    PROVE  InLine({Moved(j, at) : j \in R} \cup {x}, n + 1)
<1> DEFINE all == {Moved(j, at) : j \in R} \cup {x}
<1>0. at \in Nat /\ \A j \in R : j \in RoundItems /\ j.position \in 0..(n - 1)
  BY DEF InLine
<1>1. \A j \in R : Moved(j, at).position = IF j.position >= at THEN j.position + 1 ELSE j.position
  BY <1>0, MovedIs
<1>2. ASSUME NEW k \in 0..n PROVE \E j \in all : j.position = k
  <2>1. CASE k = at
    BY <2>1
  <2>2. CASE k < at
    <3>0. k \in 0..(n - 1)
      BY <1>0, <2>2
    <3>1. PICK j \in R : j.position = k
      BY <3>0 DEF InLine
    <3>2. Moved(j, at) \in all /\ Moved(j, at).position = k
      BY <1>0, <1>1, <2>2, <3>1
    <3> QED
      BY <3>2
  <2>3. CASE k > at
    <3>0. k - 1 \in 0..(n - 1)
      BY <1>0, <2>3
    <3>1. PICK j \in R : j.position = k - 1
      BY <3>0 DEF InLine
    <3>2. Moved(j, at) \in all /\ Moved(j, at).position = k
      BY <1>0, <1>1, <2>3, <3>1
    <3> QED
      BY <3>2
  <2> QED
    BY <1>0, <2>1, <2>2, <2>3
<1>3. \A j \in all : j.position \in 0..n
  BY <1>0, <1>1
<1>4. ASSUME NEW j \in all, NEW k \in all, j.position = k.position PROVE j = k
  <2>1. ASSUME NEW r \in R PROVE Moved(r, at).position # at
    BY <1>0, <1>1
  <2>2. ASSUME NEW r \in R, NEW s \in R, Moved(r, at).position = Moved(s, at).position PROVE r = s
    <3>1. r.position = s.position
      BY <1>0, <1>1, <2>2
    <3> QED
      BY <3>1 DEF InLine
  <2> QED
    BY <1>4, <2>1, <2>2
<1> QED
  BY <1>2, <1>3, <1>4 DEF InLine

\* The next item is one to be asked, and the highest position the last.
LEMMA NextIs ==
    ASSUME round \in SUBSET RoundItems, NEW n \in Nat, InLine(round, n), Pending # {}
    PROVE  NextItem \in Pending /\ HighestPosition = n - 1 /\ NextItem.position \in 0..(n - 1)
<1>0. \A i \in round : i.position \in 0..(n - 1)
  BY DEF InLine
<1>1. NextItem \in Pending
  <2> DEFINE S == {i.position : i \in Pending}
  <2>1. S \in SUBSET Nat /\ S # {}
    BY DEF Pending, RoundItems
  <2>2. PICK m \in S : \A s \in S : m <= s
    <3> HIDE DEF S
    <3> QED
      BY <2>1, LeastExists
  <2>3. PICK i \in Pending : i.position = m
    BY <2>2
  <2>4. \A j \in Pending : i.position <= j.position
    BY <2>2, <2>3
  <2> QED
    BY <2>4 DEF NextItem
<1>2. NextItem.position \in 0..(n - 1)
  BY <1>0, <1>1 DEF Pending
<1>3. HighestPosition = n - 1
  <2> DEFINE S == {i.position : i \in round}
  <2>1. S = 0..(n - 1) /\ n - 1 \in S
    BY <1>2 DEF InLine
  <2>2. HighestPosition = CHOOSE p \in S : \A i \in round : i.position <= p
    BY DEF HighestPosition
  <2>3. \A i \in round : i.position <= n - 1
    BY <1>0
  <2>4. HighestPosition \in S /\ \A i \in round : i.position <= HighestPosition
    <3> HIDE DEF S
    <3> QED
      BY <2>1, <2>2, <2>3
  <2>5. PICK i \in round : i.position = n - 1
    BY <2>1
  <2>6. HighestPosition \in 0..(n - 1)
    BY <2>1, <2>4
  <2>7. n - 1 <= HighestPosition
    BY <2>4, <2>5
  <2> HIDE DEF S
  <2> QED
    BY <2>6, <2>7
<1> QED
  BY <1>1, <1>2, <1>3

LEMMA RoundBegins == RuleAssumption /\ RuleInit => RoundInv
<1> SUFFICES ASSUME RuleAssumption, RuleInit PROVE RoundInv
  OBVIOUS
<1>1. NewCard \in Grades /\ NewCard.state = "new"
  BY DEF NewCard, Grades
<1>2. study \in [Studied -> Grades] /\ \A c \in Studied : study[c].state # "mastered"
  BY <1>1 DEF RuleInit
<1>3. round = {} /\ InLine({}, 0)
  BY DEF RuleInit, InLine
<1> QED
  BY <1>2, <1>3 DEF RoundInv, AskedOnce, Pending

LEMMA RoundOpens == ASSUME RuleAssumption, RoundInv, OpenRound PROVE RoundInv'
<1>1. PICK order \in [1..Cardinality(Studied) -> Studied] :
        /\ \A c \in Studied : \E p \in DOMAIN order : order[p] = c
        /\ round' = ItemsOf(order)
  BY DEF OpenRound
<1>2. /\ round' \in SUBSET RoundItems
      /\ InLine(round', Cardinality(Studied))
      /\ \A i, j \in round' : j.card = i.card => j = i
      /\ \A i \in round' : i.reappear = 0 /\ i.first = "none"
  BY <1>1, LineBegins
<1>3. Cardinality(Studied) \in Nat
  BY FS_CardinalityType DEF RuleAssumption
<1>4. \E n \in Nat : InLine(round', n)
  BY <1>2, <1>3
<1>5. AskedOnce'
  <2>1. Pending' \in SUBSET round'
    BY DEF Pending
  <2> QED
    BY <1>2, <2>1 DEF AskedOnce
<1>6. study' = study
  BY DEF OpenRound
<1>7. \A c \in Studied : study'[c].state = "mastered" =>
        /\ study'[c].score = 5 /\ study'[c].recovery = 0 /\ study'[c].last = "fluent"
        /\ \A i \in round' : i.card = c => i.first \notin Failures
  BY <1>2, <1>6 DEF RoundInv, Failures
<1> QED
  BY <1>2, <1>4, <1>5, <1>6, <1>7 DEF RoundInv

\* What feedback makes of the items: the answered one, whether or not the others move,
\* and a repeat only after a failure.
LEMMA RoundGoesOn ==
    ASSUME RuleAssumption, RoundInv, NEW result \in Results, Feedback(result)
    PROVE  RoundInv'
<1> DEFINE i == NextItem
           done == [i EXCEPT !.result = result, !.first = IF i.first = "none" THEN result ELSE i.first]
           at == InsertPosition(i.position, HighestPosition)
           kept == (round \ {i}) \cup {done}
           repeat == [card |-> i.card, position |-> at, reappear |-> i.reappear + 1,
                      first |-> done.first, result |-> "none"]
           grade == Graded(study[i.card], result, i.reappear > 0, i.first)
<1>1. /\ study \in [Studied -> Grades]
      /\ round \in SUBSET RoundItems
      /\ AskedOnce
  BY DEF RoundInv
<1>2. PICK n \in Nat : InLine(round, n)
  BY DEF RoundInv
<1>3. i \in Pending /\ HighestPosition = n - 1 /\ i.position \in 0..(n - 1)
  BY <1>1, <1>2, NextIs DEF Feedback
<1>4. i \in round /\ i \in RoundItems /\ i.result = "none" /\ i.card \in Studied /\ i.reappear \in Nat
  BY <1>1, <1>3 DEF Pending, RoundItems
<1>5. at \in 0..n
  BY <1>3 DEF InsertPosition, Smaller, RuleAssumption
<1>6. study' = [study EXCEPT ![i.card] = grade]
  BY DEF Feedback
<1>7. \/ Reappears(result, i.reappear) /\ round' = {Moved(j, at) : j \in kept} \cup {repeat}
      \/ ~Reappears(result, i.reappear) /\ round' = kept
  BY DEF Feedback, Moved
<1>8. /\ done \in RoundItems /\ done.card = i.card /\ done.position = i.position /\ done.result = result
      /\ done.reappear = i.reappear
      /\ done.first = IF i.first = "none" THEN result ELSE i.first
  BY <1>4 DEF RoundItems
<1>9. repeat \in RoundItems /\ repeat.position = at /\ repeat.card = i.card /\ repeat.result = "none"
      /\ repeat.first = done.first /\ repeat.reappear = i.reappear + 1
  BY <1>4, <1>5, <1>8 DEF RoundItems
<1>10. /\ i.reappear > 0 => i.first \in Failures
       /\ i.reappear = 0 => i.first = "none" /\ \A j \in round : j.card = i.card => j = i
  BY <1>1, <1>3, <1>4 DEF AskedOnce
<1>11. /\ grade \in Grades
       /\ result \in Failures => grade.state # "mastered"
       /\ grade.state = "mastered" =>
            /\ grade.score = 5 /\ grade.recovery = 0 /\ grade.last = "fluent"
            /\ ~(i.reappear > 0 /\ i.first \in Failures)
  <2>1. study[i.card] \in Grades /\ (i.reappear > 0) \in BOOLEAN
    BY <1>1, <1>4
  <2> QED
    BY <2>1, GradedIs
<1> HIDE DEF i, done, at, repeat, grade
<1>12. kept \in SUBSET RoundItems /\ InLine(kept, n)
  BY <1>1, <1>2, <1>4, <1>8, LineKept
<1>13. result # "none" /\ (Reappears(result, i.reappear) => result \in Failures)
  BY DEF Results, Reappears, Failures
\* An original that waits is not of the card that was asked.
<1>14. ASSUME NEW j \in kept, j.result = "none"
       PROVE  /\ j.reappear > 0 => j.first \in Failures
              /\ j.reappear = 0 => j.first = "none" /\ j.card # i.card /\ \A k \in kept : k.card = j.card => k = j
  <2>1. j \in Pending /\ j # i /\ j \in round /\ j.reappear \in Nat
    BY <1>1, <1>8, <1>13, <1>14 DEF Pending, RoundItems
  <2>2. IF j.reappear > 0 THEN j.first \in Failures
        ELSE j.first = "none" /\ \A k \in round : k.card = j.card => k = j
    BY <1>1, <2>1 DEF AskedOnce
  <2>3. j.reappear = 0 => j.card # i.card
    BY <1>4, <2>1, <2>2
  <2> QED
    BY <1>8, <2>1, <2>2, <2>3
<1>15. study' \in [Studied -> Grades]
  BY <1>1, <1>6, <1>11
<1>16. CASE ~Reappears(result, i.reappear) /\ round' = kept
  <2>1. AskedOnce'
    <3>1. Pending' = {j \in kept : j.result = "none"}
      BY <1>16 DEF Pending
    <3>2. \A j \in kept : j.reappear \in Nat
      BY <1>12 DEF RoundItems
    <3> QED
      BY <1>14, <1>16, <3>1, <3>2 DEF AskedOnce
  <2>2. ASSUME NEW c \in Studied, study'[c].state = "mastered"
        PROVE  /\ study'[c].score = 5 /\ study'[c].recovery = 0 /\ study'[c].last = "fluent"
               /\ \A j \in round' : j.card = c => j.first \notin Failures
    <3>1. CASE c # i.card
      <4>1. study'[c] = study[c]
        BY <1>1, <1>6, <3>1
      <4>2. \A j \in round : j.card = c => j.first \notin Failures
        BY <2>2, <4>1 DEF RoundInv
      <4> QED
        BY <1>8, <1>16, <2>2, <3>1, <4>1, <4>2 DEF RoundInv
    <3>2. CASE c = i.card
      <4>1. study'[c] = grade
        BY <1>1, <1>4, <1>6, <3>2
      <4>2. i.reappear = 0 /\ result \notin Failures
        BY <1>4, <1>10, <1>11, <2>2, <4>1
      <4>3. \A j \in kept : j.card = c => j = done
        BY <1>10, <3>2, <4>2
      <4>4. done.first \notin Failures
        BY <1>8, <1>10, <4>2
      <4> QED
        BY <1>11, <1>16, <2>2, <4>1, <4>3, <4>4
    <3> QED
      BY <3>1, <3>2
  <2> QED
    BY <1>12, <1>15, <1>16, <2>1, <2>2 DEF RoundInv
<1>17. CASE Reappears(result, i.reappear) /\ round' = {Moved(j, at) : j \in kept} \cup {repeat}
  <2>0. /\ at \in Nat
        /\ \A j \in kept : /\ Moved(j, at) \in RoundItems
                           /\ Moved(j, at).card = j.card /\ Moved(j, at).reappear = j.reappear
                           /\ Moved(j, at).first = j.first /\ Moved(j, at).result = j.result
    BY <1>5, <1>12, MovedIs
  <2>1. round' \in SUBSET RoundItems /\ InLine(round', n + 1)
    BY <1>5, <1>9, <1>12, <1>17, <2>0, LineGrows
  <2>2. repeat.first \in Failures
    BY <1>4, <1>8, <1>9, <1>10, <1>13, <1>17
  <2>3. AskedOnce'
    <3>1. ASSUME NEW k \in round', k.result = "none"
          PROVE  IF k.reappear > 0 THEN k.first \in Failures
                 ELSE k.first = "none" /\ \A l \in round' : l.card = k.card => l = k
      <4>1. CASE k = repeat
        BY <1>4, <1>9, <2>2, <4>1
      <4>2. CASE k # repeat
        <5>1. PICK j \in kept : k = Moved(j, at)
          BY <1>17, <4>2
        <5>2. j.result = "none" /\ j.reappear = k.reappear /\ j.first = k.first /\ j.card = k.card /\ j.reappear \in Nat
          BY <1>12, <2>0, <3>1, <5>1 DEF RoundItems
        <5>3. CASE j.reappear > 0
          BY <1>14, <5>2, <5>3
        <5>4. CASE j.reappear = 0
          <6>1. j.first = "none" /\ j.card # i.card /\ \A l \in kept : l.card = j.card => l = j
            BY <1>14, <5>2, <5>4
          <6>2. \A l \in round' : l.card = k.card => l = k
            BY <1>9, <1>17, <2>0, <5>1, <5>2, <6>1
          <6> QED
            BY <5>2, <5>4, <6>1, <6>2
        <5> QED
          BY <5>2, <5>3, <5>4
      <4> QED
        BY <4>1, <4>2
    <3> QED
      BY <3>1 DEF AskedOnce, Pending
  <2>4. ASSUME NEW c \in Studied, study'[c].state = "mastered"
        PROVE  /\ study'[c].score = 5 /\ study'[c].recovery = 0 /\ study'[c].last = "fluent"
               /\ \A j \in round' : j.card = c => j.first \notin Failures
    <3>1. c # i.card
      BY <1>1, <1>4, <1>6, <1>11, <1>13, <1>17, <2>4
    <3>2. study'[c] = study[c]
      BY <1>1, <1>6, <3>1
    <3>3. \A j \in round : j.card = c => j.first \notin Failures
      BY <2>4, <3>2 DEF RoundInv
    <3>4. \A j \in round' : j.card = c => j.first \notin Failures
      BY <1>8, <1>9, <1>17, <2>0, <3>1, <3>3
    <3> QED
      BY <2>4, <3>2, <3>4 DEF RoundInv
  <2>5. n + 1 \in Nat
    OBVIOUS
  <2> QED
    BY <1>15, <2>1, <2>3, <2>4, <2>5 DEF RoundInv
<1> QED
  BY <1>7, <1>16, <1>17

\* RoundInv is inductive: the items of a round stand in a line, one still to be asked is
\* a repeat after a failure or its card's only item, and a mastered card has no failure in
\* its round (_submit_review_feedback_observed, _shift_items_for_insert).
THEOREM RoundInvHolds == RuleSpec => []RoundInv
<1>1. RuleInit => RoundInv
  BY RuleAssumption, RoundBegins
<1>2. RoundInv /\ [Select \/ StudyNext]_ruleVars => RoundInv'
  <2> SUFFICES ASSUME RoundInv, [Select \/ StudyNext]_ruleVars PROVE RoundInv'
    OBVIOUS
  <2>1. CASE Select
    BY <2>1 DEF Select, RoundInv, AskedOnce, Pending
  <2>2. CASE OpenRound
    BY <2>2, RuleAssumption, RoundOpens
  <2>3. CASE \E result \in Results : Feedback(result)
    BY <2>3, RuleAssumption, RoundGoesOn
  <2>4. CASE UNCHANGED ruleVars
    BY <2>4 DEF ruleVars, RoundInv, AskedOnce, Pending
  <2> QED
    BY <2>1, <2>2, <2>3, <2>4 DEF StudyNext
<1> QED
  BY <1>1, <1>2, PTL DEF RuleSpec

\* MasteryIsEarned in every state: a card is mastered only with full marks, no weakness
\* left and no failure among the items of its round, and the positions of a round have
\* neither gaps nor doubles however many repeats were put in.
THEOREM MasteryHolds == RuleSpec => []MasteryIsEarned
<1>1. RoundInv => MasteryIsEarned
  <2> SUFFICES ASSUME RoundInv PROVE MasteryIsEarned
    OBVIOUS
  <2>1. PICK n \in Nat : InLine(round, n)
    BY DEF RoundInv
  <2>2. Cardinality(round) = n
    BY <2>1, LineCounts
  <2>3. {i.position : i \in round} = 0..(Cardinality(round) - 1)
    BY <2>1, <2>2 DEF InLine
  <2> QED
    BY <2>3 DEF RoundInv, MasteryIsEarned
<1> QED
  BY <1>1, RoundInvHolds, PTL

-----------------------------------------------------------------------------
(* Rules: what a selection takes.                                          *)

\* A sequence without doubles, and one that lists a set.
Once(s, A) == s \in Seq(A) /\ \A i, j \in 1..Len(s) : s[i] = s[j] => i = j
Of(s) == {s[i] : i \in 1..Len(s)}
Listing(s, S) == Once(s, S) /\ Of(s) = S

LEMMA OfIs == ASSUME NEW A, NEW s \in Seq(A) PROVE ToSet(s) = Of(s) /\ Of(s) \subseteq A
<1>1. DOMAIN s = 1..Len(s) /\ \A i \in 1..Len(s) : s[i] \in A
  OBVIOUS
<1> QED
  BY <1>1 DEF ToSet, Of

LEMMA OnceCounts ==
    ASSUME NEW A, NEW s, Once(s, A)
    PROVE  IsFiniteSet(Of(s)) /\ Cardinality(Of(s)) = Len(s) /\ Of(s) \subseteq A /\ ToSet(s) = Of(s) /\ Len(s) \in Nat
<1>1. s \in Seq(A) /\ Len(s) \in Nat /\ \A i \in 1..Len(s) : s[i] \in A
  BY DEF Once
<1> DEFINE f == [i \in 1..Len(s) |-> s[i]]
<1>2. f \in [1..Len(s) -> Of(s)]
  BY DEF Of
<1>3. f \in Injection(1..Len(s), Of(s)) /\ f \in Surjection(1..Len(s), Of(s))
  BY <1>2 DEF Injection, IsInjective, Surjection, Of, Once
<1>4. IsFiniteSet(1..Len(s)) /\ Cardinality(1..Len(s)) = Len(s)
  BY <1>1, FS_Interval, SMTT(30)
<1> HIDE DEF f
<1>5. IsFiniteSet(Of(s)) /\ (Cardinality(Of(s)) = Cardinality(1..Len(s)) <=> f \in Injection(1..Len(s), Of(s)))
  BY <1>3, <1>4, FS_Surjection
<1> QED
  BY <1>1, <1>3, <1>4, <1>5, OfIs

\* Not longer than the set it is from.
LEMMA OnceFits ==
    ASSUME NEW A, IsFiniteSet(A), NEW s, Once(s, A)
    PROVE  Cardinality(A) \in Nat /\ Len(s) <= Cardinality(A) /\ (Of(s) = A <=> Len(s) = Cardinality(A))
<1>1. IsFiniteSet(Of(s)) /\ Cardinality(Of(s)) = Len(s) /\ Of(s) \subseteq A
  BY OnceCounts
<1>2. Cardinality(Of(s)) <= Cardinality(A) /\ (Cardinality(Of(s)) = Cardinality(A) => Of(s) = A)
  BY <1>1, FS_Subset
<1>3. Cardinality(A) \in Nat
  BY FS_CardinalityType
<1> QED
  BY <1>1, <1>2, <1>3

LEMMA OnceWider == ASSUME NEW A, NEW B, A \subseteq B, NEW s, Once(s, A) PROVE Once(s, B)
BY DEF Once

\* The first n of a sequence.
LEMMA TakeMakes ==
    ASSUME NEW A, NEW s, Once(s, A), NEW n \in Nat
    PROVE  /\ Once(Take(s, n), A) /\ Len(Take(s, n)) = Smaller(n, Len(s))
           /\ Of(Take(s, n)) \subseteq Of(s)
           /\ Len(s) <= n => Take(s, n) = s
           /\ \A i \in 1..Smaller(n, Len(s)) : Take(s, n)[i] = s[i]
<1>1. s \in Seq(A) /\ Len(s) \in Nat
  BY DEF Once
<1> DEFINE m == Smaller(n, Len(s))
           cut == SubSeq(s, 1, m)
<1>2. m \in Nat /\ m <= Len(s) /\ m <= n /\ (Len(s) <= n => m = Len(s))
  BY <1>1 DEF Smaller
<1>3. Take(s, n) = cut
  BY DEF Take
<1> HIDE DEF m
<1>4. cut \in Seq(A) /\ Len(cut) = m /\ \A i \in 1..m : cut[i] = s[i]
  BY <1>1, <1>2, Shortened
<1>5. \A i \in 1..m : i \in 1..Len(s)
  BY <1>1, <1>2
<1> HIDE DEF cut
<1>6. Once(cut, A) /\ Of(cut) \subseteq Of(s)
  BY <1>4, <1>5 DEF Once, Of
<1>7. Len(s) <= n => cut = s
  BY <1>1, <1>2, <1>4
<1> QED
  BY <1>3, <1>4, <1>6, <1>7 DEF m

\* One sequence after another that has nothing in common with it.
LEMMA JoinMakes ==
    ASSUME NEW A, NEW s, Once(s, A), NEW t, Once(t, A), Of(s) \cap Of(t) = {}
    PROVE  Once(s \o t, A) /\ Of(s \o t) = Of(s) \cup Of(t) /\ Len(s \o t) = Len(s) + Len(t)
<1>1. s \in Seq(A) /\ t \in Seq(A) /\ Len(s) \in Nat /\ Len(t) \in Nat
  BY DEF Once
<1> DEFINE both == s \o t
           m == Len(s)
           n == Len(t)
<1>2. /\ both \in Seq(A) /\ Len(both) = m + n
      /\ \A i \in 1..(m + n) : both[i] = IF i <= m THEN s[i] ELSE t[i - m]
  BY <1>1, Joined
<1>3. \A i \in 1..(m + n) : /\ i <= m => i \in 1..m /\ both[i] = s[i] /\ both[i] \in Of(s)
                            /\ ~(i <= m) => i - m \in 1..n /\ both[i] = t[i - m] /\ both[i] \in Of(t)
  <2> SUFFICES ASSUME NEW i \in 1..(m + n)
               PROVE  /\ i <= m => i \in 1..m /\ both[i] = s[i] /\ both[i] \in Of(s)
                      /\ ~(i <= m) => i - m \in 1..n /\ both[i] = t[i - m] /\ both[i] \in Of(t)
    OBVIOUS
  <2>1. (i <= m => i \in 1..m) /\ (~(i <= m) => i - m \in 1..n)
    BY <1>1
  <2> HIDE DEF both
  <2> QED
    BY <1>2, <2>1 DEF Of
<1>4. ASSUME NEW i \in 1..(m + n), NEW j \in 1..(m + n), both[i] = both[j] PROVE i = j
  <2>1. (i <= m) <=> (j <= m)
    BY <1>3, <1>4
  <2>2. CASE i <= m
    BY <1>3, <1>4, <2>1, <2>2 DEF Once
  <2>3. CASE ~(i <= m)
    <3>1. i - m = j - m
      BY <1>3, <1>4, <2>1, <2>3 DEF Once
    <3> QED
      BY <1>1, <3>1
  <2> QED
    BY <2>2, <2>3
<1>5. Of(both) = Of(s) \cup Of(t)
  <2>1. Of(both) \subseteq Of(s) \cup Of(t)
    <3> HIDE DEF both
    <3> QED
      BY <1>2, <1>3 DEF Of
  <2>2. ASSUME NEW k \in 1..m PROVE s[k] \in Of(both)
    <3>1. k \in 1..(m + n) /\ k <= m
      BY <1>1
    <3> HIDE DEF both
    <3> QED
      BY <1>2, <3>1 DEF Of
  <2>3. ASSUME NEW k \in 1..n PROVE t[k] \in Of(both)
    <3>1. k + m \in 1..(m + n) /\ ~(k + m <= m) /\ k + m - m = k
      BY <1>1
    <3> HIDE DEF both
    <3> QED
      BY <1>2, <3>1, SMTT(30) DEF Of
  <2> QED
    BY <2>1, <2>2, <2>3 DEF Of
<1> QED
  BY <1>2, <1>4, <1>5 DEF Once

\* What is left of a sequence behind its first m.
LEMMA RestMakes ==
    ASSUME NEW A, NEW s, Once(s, A), NEW m \in 0..Len(s)
    PROVE  /\ Once(SubSeq(s, 1, m), A) /\ Len(SubSeq(s, 1, m)) = m
           /\ Once(SubSeq(s, m + 1, Len(s)), A) /\ Len(SubSeq(s, m + 1, Len(s))) = Len(s) - m
           /\ Of(SubSeq(s, 1, m)) \cap Of(SubSeq(s, m + 1, Len(s))) = {}
           /\ Of(SubSeq(s, 1, m)) \cup Of(SubSeq(s, m + 1, Len(s))) = Of(s)
<1> DEFINE n == Len(s)
           u == SubSeq(s, 1, m)
           r == SubSeq(s, m + 1, n)
<1>1. s \in Seq(A) /\ n \in Nat /\ m \in Nat /\ m <= n
  BY DEF Once
<1>2. u \in Seq(A) /\ Len(u) = m /\ \A i \in 1..m : u[i] = s[i]
  BY <1>1, Shortened
<1>3. r \in Seq(A) /\ Len(r) = n - m /\ \A i \in 1..(n - m) : r[i] = s[i + m]
  <2>1. r \in Seq(A)
    BY <1>1
  <2>2. Len(r) = n - m
    BY <1>1
  <2>3. \A i \in 1..(n - m) : r[i] = s[i + m]
    BY <1>1
  <2> QED
    BY <2>1, <2>2, <2>3
<1>4. \A i \in 1..n : \/ i \in 1..m
                      \/ i - m \in 1..(n - m) /\ (i - m) + m = i
  BY <1>1
<1>5. \A i \in 1..(n - m) : i + m \in 1..n /\ i + m \notin 1..m
  BY <1>1
<1>6. \A i \in 1..m : i \in 1..n
  BY <1>1
<1>7. \A i, j \in 1..n : s[i] = s[j] => i = j
  BY DEF Once
<1>8. \A i, j \in 1..(n - m) : i + m = j + m => i = j
  BY <1>1
<1> HIDE DEF u, r, n
<1>9. Once(u, A)
  <2>1. \A i, j \in 1..m : u[i] = u[j] => i = j
    BY <1>2, <1>6, <1>7, Zenon
  <2> QED
    BY <1>2, <2>1, Zenon DEF Once
<1>10. Once(r, A)
  <2>1. \A i, j \in 1..(n - m) : r[i] = r[j] => i = j
    BY <1>3, <1>5, <1>7, <1>8, Zenon
  <2> QED
    BY <1>3, <2>1, Zenon DEF Once
<1>11. Of(u) \cap Of(r) = {}
  BY <1>2, <1>3, <1>5, <1>6, <1>7 DEF Of
<1>12. Of(u) \cup Of(r) = Of(s)
  <2>1. Of(s) = {s[i] : i \in 1..n}
    BY DEF Of, n
  <2>2. \A i \in 1..n : s[i] \in Of(u) \cup Of(r)
    BY <1>2, <1>3, <1>4 DEF Of
  <2>3. Of(u) \subseteq Of(s)
    BY <1>2, <1>6, <2>1, Zenon DEF Of
  <2>4. Of(r) \subseteq Of(s)
    BY <1>3, <1>5, <2>1, Zenon DEF Of
  <2>5. Of(s) \subseteq Of(u) \cup Of(r)
    BY <2>1, <2>2, Zenon
  <2> QED
    BY <2>3, <2>4, <2>5, Zenon
<1> QED
  BY <1>2, <1>3, <1>9, <1>10, <1>11, <1>12 DEF n, u, r

\* Tuples of numbers of one length are totally ordered from the left.
LEMMA PrecedesIrreflexive == ASSUME NEW N \in Nat, NEW s \in [1..N -> Int] PROVE ~Precedes(s, s)
BY DEF Precedes

LEMMA PrecedesTotal ==
    ASSUME NEW N \in Nat, NEW s \in [1..N -> Int], NEW t \in [1..N -> Int], s # t
    PROVE  Precedes(s, t) \/ Precedes(t, s)
<1> DEFINE D == {n \in 1..N : s[n] # t[n]}
<1>1. D \in SUBSET Nat /\ D # {}
  OBVIOUS
<1>2. PICK n \in D : \A m \in D : n <= m
  <2> HIDE DEF D
  <2> QED
    BY <1>1, LeastExists
<1>3. \A m \in 1..(n - 1) : m \in 1..N /\ m \notin D
  BY <1>2
<1>4. n \in 1..N /\ s[n] # t[n] /\ s[n] \in Int /\ t[n] \in Int /\ \A m \in 1..(n - 1) : s[m] = t[m]
  BY <1>2, <1>3
<1>5. s[n] < t[n] \/ t[n] < s[n]
  BY <1>4
<1> QED
  BY <1>4, <1>5 DEF Precedes

LEMMA PrecedesTransitive ==
    ASSUME NEW N \in Nat, NEW s \in [1..N -> Int], NEW t \in [1..N -> Int], NEW u \in [1..N -> Int],
           Precedes(s, t), Precedes(t, u)
    PROVE  Precedes(s, u)
<1>1. PICK n \in 1..N : s[n] < t[n] /\ \A m \in 1..(n - 1) : s[m] = t[m]
  BY DEF Precedes
<1>2. PICK k \in 1..N : t[k] < u[k] /\ \A m \in 1..(k - 1) : t[m] = u[m]
  BY DEF Precedes
<1>3. \A i \in 1..N : s[i] \in Int /\ t[i] \in Int /\ u[i] \in Int
  OBVIOUS
<1> DEFINE least == IF n < k THEN n ELSE k
<1>4. least \in 1..N /\ s[least] < u[least]
  <2>1. CASE n < k
    <3>1. t[n] = u[n]
      BY <1>2, <2>1
    <3> QED
      BY <1>1, <2>1, <3>1
  <2>2. CASE n = k
    BY <1>1, <1>2, <1>3, <2>2
  <2>3. CASE n > k
    <3>1. s[k] = t[k]
      BY <1>1, <2>3
    <3> QED
      BY <1>2, <2>3, <3>1
  <2> QED
    BY <2>1, <2>2, <2>3
<1>5. \A m \in 1..(least - 1) : m \in 1..(n - 1) /\ m \in 1..(k - 1)
  OBVIOUS
<1>6. \A m \in 1..(least - 1) : s[m] = u[m]
  BY <1>1, <1>2, <1>5
<1> HIDE DEF least
<1> QED
  BY <1>4, <1>6 DEF Precedes

\* Sorted by keys that differ lists the set, the first parts of the keys rising.
Rises(s, key) == \A i, j \in 1..Len(s) : i < j => key[s[i]][1] <= key[s[j]][1]

LEMMA SortedMakes ==
    ASSUME NEW S, IsFiniteSet(S), NEW N \in Nat \ {0}, NEW key \in [S -> [1..N -> Int]],
           \A c, d \in S : key[c][N] = key[d][N] => c = d
    PROVE  Listing(Sorted(key), S) /\ Len(Sorted(key)) = Cardinality(S) /\ Rises(Sorted(key), key)
<1> DEFINE before == {p \in S \X S : Precedes(key[p[1]], key[p[2]])}
           row == SortedBy(S, before)
<1>1. Sorted(key) = row
  BY DEF Sorted
<1>2. \A c, d \in S : <<c, d>> \in before <=> Precedes(key[c], key[d])
  OBVIOUS
<1>3. \A c \in S : key[c] \in [1..N -> Int]
  OBVIOUS
<1> HIDE DEF before
<1>4. Orders(before, S)
  <2>1. \A c \in S : <<c, c>> \notin before
    BY <1>2, <1>3, PrecedesIrreflexive
  <2>2. ASSUME NEW c \in S, NEW d \in S, c # d PROVE <<c, d>> \in before \/ <<d, c>> \in before
    <3>1. key[c] # key[d]
      BY <2>2
    <3> QED
      BY <1>2, <1>3, <3>1, PrecedesTotal
  <2>3. ASSUME NEW c \in S, NEW d \in S, NEW e \in S, <<c, d>> \in before, <<d, e>> \in before PROVE <<c, e>> \in before
    BY <1>2, <1>3, <2>3, PrecedesTransitive
  <2> QED
    BY <2>1, <2>2, <2>3 DEF Orders
<1>5. /\ Cardinality(S) \in Nat
      /\ row \in [1..Cardinality(S) -> S]
      /\ row \in Seq(S)
      /\ Len(row) = Cardinality(S)
      /\ \A x \in S : \E n \in 1..Cardinality(S) : row[n] = x
      /\ \A m, n \in 1..Cardinality(S) : m < n => <<row[m], row[n]>> \in before
      /\ \A m, n \in 1..Cardinality(S) : row[m] = row[n] => m = n
  BY <1>4, SortedByLists
<1> HIDE DEF row
<1>6. Once(row, S) /\ Of(row) = S
  BY <1>5 DEF Once, Of
<1>7. ASSUME NEW i \in 1..Len(row), NEW j \in 1..Len(row), i < j PROVE key[row[i]][1] <= key[row[j]][1]
  <2>1. Precedes(key[row[i]], key[row[j]]) /\ row[i] \in S /\ row[j] \in S
    BY <1>2, <1>5, <1>7
  <2>2. PICK n \in 1..N : key[row[i]][n] < key[row[j]][n] /\ \A m \in 1..(n - 1) : key[row[i]][m] = key[row[j]][m]
    BY <1>3, <2>1 DEF Precedes
  <2>3. key[row[i]][1] \in Int /\ key[row[j]][1] \in Int
    BY <1>3, <2>1
  <2>4. n = 1 \/ 1 \in 1..(n - 1)
    OBVIOUS
  <2> QED
    BY <2>2, <2>3, <2>4
<1> QED
  BY <1>1, <1>5, <1>6, <1>7 DEF Listing, Rises

LEMMA AgeSorts ==
    ASSUME NEW cards, IsDeck(cards), NEW S \in SUBSET cards
    PROVE  Listing(Sorted([c \in S |-> AgeKey(c)]), S)
<1> DEFINE key == [c \in S |-> AgeKey(c)]
<1>1. \A c \in S : c.id \in Int /\ c.created \in Int
  BY DEF IsDeck, Cards
<1>2. ASSUME NEW c \in S PROVE AgeKey(c) \in [1..2 -> Int] /\ AgeKey(c)[2] = c.id
  BY <1>1 DEF AgeKey
<1>3. key \in [S -> [1..2 -> Int]] /\ \A c \in S : key[c][2] = c.id
  BY <1>2
<1>4. IsFiniteSet(S) /\ \A c, d \in S : c.id = d.id => c = d
  BY FS_Subset DEF IsDeck
<1> HIDE DEF key
<1>5. \A c, d \in S : key[c][2] = key[d][2] => c = d
  BY <1>3, <1>4
<1>a. 2 \in Nat \ {0}
  OBVIOUS
<1>6. Listing(Sorted(key), S)
  BY <1>a, <1>3, <1>4, <1>5, SortedMakes
<1> QED
  BY <1>6 DEF key

LEMMA WeakSorts ==
    ASSUME NEW cards, IsDeck(cards), NEW S \in SUBSET cards
    PROVE  Listing(Sorted([c \in S |-> StrengtheningKey(c)]), S)
<1> DEFINE key == [c \in S |-> StrengtheningKey(c)]
<1>1. ASSUME NEW c \in S PROVE StrengtheningKey(c) \in [1..7 -> Int] /\ StrengtheningKey(c)[7] = c.id
  <2> DEFINE late == Flag(~IsDue(c))
             weak == -c.recovery
             mark == IF c.last = "forgot" THEN 0 ELSE IF c.last = "shaky" THEN 1 ELSE 2
  <2>1. c.id \in Int /\ c.created \in Int /\ c.reviewed \in Int /\ c.next \in Int /\ c.recovery \in Int
    BY DEF IsDeck, Cards
  <2>2. late \in Int /\ weak \in Int /\ mark \in Int
    BY <2>1 DEF Flag
  <2>3. StrengtheningKey(c) = <<late, weak, mark, c.next, c.reviewed, c.created, c.id>>
    BY DEF StrengtheningKey
  <2> HIDE DEF late, weak, mark
  <2> QED
    BY <2>1, <2>2, <2>3
<1>3. key \in [S -> [1..7 -> Int]] /\ \A c \in S : key[c][7] = c.id
  BY <1>1
<1>4. IsFiniteSet(S) /\ \A c, d \in S : c.id = d.id => c = d
  BY FS_Subset DEF IsDeck
<1> HIDE DEF key
<1>5. \A c, d \in S : key[c][7] = key[d][7] => c = d
  BY <1>3, <1>4
<1>a. 7 \in Nat \ {0}
  OBVIOUS
<1>6. Listing(Sorted(key), S)
  BY <1>a, <1>3, <1>4, <1>5, SortedMakes
<1> QED
  BY <1>6 DEF key

LEMMA DueSorts ==
    ASSUME NEW cards, IsDeck(cards), NEW S \in SUBSET cards
    PROVE  Listing(Sorted([c \in S |-> DueKey(c)]), S)
<1> DEFINE key == [c \in S |-> DueKey(c)]
<1>1. ASSUME NEW c \in S PROVE DueKey(c) \in [1..6 -> Int] /\ DueKey(c)[6] = c.id
  <2> DEFINE reason == DueReason(c)
             rank == CASE reason = "recovery_due" -> 0 [] reason = "reviewing_due" -> 1
                       [] reason = "mastered_due" -> 2 [] OTHER -> 3
             weak == -c.recovery
  <2>1. c.id \in Int /\ c.created \in Int /\ c.reviewed \in Int /\ c.next \in Int /\ c.recovery \in Int
    BY DEF IsDeck, Cards
  <2>2. rank \in Int
    <3> HIDE DEF reason
    <3> QED
      OBVIOUS
  <2>3. weak \in Int
    BY <2>1
  <2>4. DueKey(c) = <<rank, c.next, weak, c.reviewed, c.created, c.id>>
    BY DEF DueKey
  <2> HIDE DEF rank, weak
  <2> QED
    BY <2>1, <2>2, <2>3, <2>4
<1>3. key \in [S -> [1..6 -> Int]] /\ \A c \in S : key[c][6] = c.id
  BY <1>1
<1>4. IsFiniteSet(S) /\ \A c, d \in S : c.id = d.id => c = d
  BY FS_Subset DEF IsDeck
<1> HIDE DEF key
<1>5. \A c, d \in S : key[c][6] = key[d][6] => c = d
  BY <1>3, <1>4
<1>a. 6 \in Nat \ {0}
  OBVIOUS
<1>6. Listing(Sorted(key), S)
  BY <1>a, <1>3, <1>4, <1>5, SortedMakes
<1> QED
  BY <1>6 DEF key

\* The fillers that were not reviewed today come before those that were.
UnreviewedFirst(s, reviewed) ==
    \A i, j \in 1..Len(s) : i < j /\ s[i].id \in reviewed => s[j].id \in reviewed

LEMMA FillSorts ==
    ASSUME NEW cards, IsDeck(cards), NEW S \in SUBSET cards, NEW reviewed
    PROVE  /\ Listing(Sorted([c \in S |-> FillKey(c, reviewed)]), S)
           /\ UnreviewedFirst(Sorted([c \in S |-> FillKey(c, reviewed)]), reviewed)
<1> DEFINE key == [c \in S |-> FillKey(c, reviewed)]
           row == Sorted(key)
<1>1. ASSUME NEW c \in S
      PROVE  FillKey(c, reviewed) \in [1..4 -> Int] /\ FillKey(c, reviewed)[4] = c.id
             /\ FillKey(c, reviewed)[1] = IF c.id \in reviewed THEN 1 ELSE 0
  <2> DEFINE idle == Flag(c.state = "mastered" /\ ~IsDue(c))
             old == Flag(c.id \in reviewed)
  <2>1. c.id \in Int /\ c.created \in Int
    BY DEF IsDeck, Cards
  <2>2. idle \in Int /\ old \in Int /\ old = IF c.id \in reviewed THEN 1 ELSE 0
    BY DEF Flag
  <2>3. FillKey(c, reviewed) = <<old, idle, c.created, c.id>>
    BY DEF FillKey
  <2> HIDE DEF idle, old
  <2> QED
    BY <2>1, <2>2, <2>3
<1>3. key \in [S -> [1..4 -> Int]] /\ \A c \in S : key[c][4] = c.id /\ key[c][1] = IF c.id \in reviewed THEN 1 ELSE 0
  BY <1>1
<1>4. IsFiniteSet(S) /\ \A c, d \in S : c.id = d.id => c = d
  BY FS_Subset DEF IsDeck
<1> HIDE DEF key
<1>5. \A c, d \in S : key[c][4] = key[d][4] => c = d
  BY <1>3, <1>4
<1>a. 4 \in Nat \ {0}
  OBVIOUS
<1>b. key \in [S -> [1..4 -> Int]] /\ IsFiniteSet(S)
  BY <1>3, <1>4
<1>6. Listing(row, S) /\ Rises(row, key)
  BY <1>a, <1>b, <1>5, SortedMakes, Zenon
<1> HIDE DEF row
<1>7. ASSUME NEW i \in 1..Len(row), NEW j \in 1..Len(row), i < j, row[i].id \in reviewed PROVE row[j].id \in reviewed
  <2>1. key[row[i]][1] <= key[row[j]][1] /\ row[i] \in S /\ row[j] \in S
    BY <1>6, <1>7 DEF Rises, Listing, Once
  <2> QED
    BY <1>3, <1>7, <2>1
<1>8. UnreviewedFirst(row, reviewed)
  BY <1>7 DEF UnreviewedFirst
<1> QED
  BY <1>6, <1>8 DEF key, row

\* Dedupe, one card after the other.
LetIn(acc, c) == IF c \in ToSet(acc) THEN acc ELSE Append(acc, c)

DedupeRun(t, list) ==
    /\ t[0] = <<>>
    /\ \A i \in 1..Len(list) : t[i] = LetIn(t[i - 1], list[i])
    /\ Dedupe(list) = t[Len(list)]

LEMMA DedupeRuns ==
    ASSUME NEW E, NEW list \in Seq(E)
    PROVE  \E t : DedupeRun(t, list)
<1> DEFINE D == SUBSET (1..Len(list))
           A == Seq(E)
           none == <<>>
           Step(acc, c) == LetIn(acc, c)
           Def(g) == g = [S \in D |-> IF S = {} THEN none ELSE Step(g[S \ {Max(S)}], list[Max(S)])]
           it == CHOOSE g : Def(g)
           H == [z \in A \X E |-> Step(z[1], z[2])]
<1>1. DOMAIN list = 1..Len(list) /\ Len(list) \in Nat /\ none \in A /\ \A i \in 1..Len(list) : list[i] \in E
  OBVIOUS
<1>2. H \in [A \X E -> A]
  BY DEF LetIn
<1>3. PICK g \in [D -> A] : g[{}] = none /\ \A S \in D : S # {} => g[S] = H[<<g[S \ {Max(S)}], list[Max(S)]>>]
  <2> HIDE DEF H, A, none
  <2>1. PICK g : Folds(g, A, H, none, list)
    BY <1>1, <1>2, FoldExists, Zenon
  <2> QED
    BY <2>1 DEF Folds
<1>4. Def(g)
  <2>1. ASSUME NEW S \in D, S # {} PROVE H[<<g[S \ {Max(S)}], list[Max(S)]>>] = Step(g[S \ {Max(S)}], list[Max(S)])
    <3>1. Max(S) \in S
      BY <1>1, <2>1, MaxExists
    <3>2. g[S \ {Max(S)}] \in A /\ list[Max(S)] \in E
      <4>1. S \ {Max(S)} \in D
        OBVIOUS
      <4> HIDE DEF A
      <4> QED
        BY <3>1, <4>1, <1>1
    <3> HIDE DEF Step, A
    <3> QED
      BY <3>2
  <2> HIDE DEF H, Step, A, none
  <2>2. \A S \in D : g[S] = IF S = {} THEN none ELSE Step(g[S \ {Max(S)}], list[Max(S)])
    BY <1>3, <2>1
  <2>3. g = [S \in D |-> g[S]]
    OBVIOUS
  <2> QED
    BY <2>2, <2>3
<1>5. Def(it)
  <2> HIDE DEF Def
  <2> QED
    BY <1>4
<1>6. Dedupe(list) = it[1..Len(list)]
  BY <1>1 DEF Dedupe, FoldLeft, MapThenFoldSet, LetIn
<1> DEFINE t == [i \in 0..Len(list) |-> it[1..i]]
<1> HIDE DEF it, Step, none
<1>7. t[0] = none
  BY <1>1, <1>5
<1>8. \A i \in 1..Len(list) : t[i] = Step(t[i - 1], list[i])
  <2> TAKE i \in 1..Len(list)
  <2>1. (1..i) \ {Max(1..i)} = 1..(i - 1) /\ Max(1..i) = i /\ 1..i # {} /\ 1..i \in D
    BY <1>1, Intervals
  <2>2. it[1..i] = Step(it[1..(i - 1)], list[i])
    BY <1>5, <2>1
  <2> QED
    BY <1>1, <2>2
<1>9. t[Len(list)] = it[1..Len(list)]
  BY <1>1
<1> HIDE DEF t
<1> QED
  BY <1>6, <1>7, <1>8, <1>9 DEF Step, DedupeRun, none

\* Dedupe keeps each card once.
LEMMA DedupeMakes ==
    ASSUME NEW E, NEW list \in Seq(E)
    PROVE  Once(Dedupe(list), E) /\ Of(Dedupe(list)) = Of(list)
<1>0. PICK t : DedupeRun(t, list)
  BY DedupeRuns, Zenon
<1>1. /\ t[0] = <<>>
      /\ \A i \in 1..Len(list) : t[i] = LetIn(t[i - 1], list[i])
      /\ Dedupe(list) = t[Len(list)]
  BY <1>0 DEF DedupeRun
<1>2. Len(list) \in Nat /\ \A i \in 1..Len(list) : list[i] \in E
  OBVIOUS
<1> DEFINE Right(i) == Once(t[i], E) /\ Of(t[i]) = {list[j] : j \in 1..i}
           P == {i \in 0..Len(list) : Right(i)}
<1>3. Right(0)
  BY <1>1 DEF Once, Of
<1>4. ASSUME NEW i \in 0..(Len(list) - 1), Right(i) PROVE Right(i + 1)
  <2> DEFINE c == list[i + 1]
             s == t[i]
             more == Append(s, c)
  <2>0. i + 1 \in 1..Len(list) /\ i + 1 - 1 = i
    BY <1>2
  <2>1. t[i + 1] = LetIn(s, c) /\ c \in E
    BY <1>1, <1>2, <2>0
  <2>2. {list[j] : j \in 1..(i + 1)} = {list[j] : j \in 1..i} \cup {c}
    <3>1. \A j : j \in 1..(i + 1) <=> j \in 1..i \/ j = i + 1
      BY <1>2
    <3> QED
      BY <3>1
  <2>3. s \in Seq(E) /\ Of(s) = ToSet(s) /\ Len(s) \in Nat
    <3>1. s \in Seq(E)
      BY <1>4 DEF Once
    <3> QED
      BY <3>1, OfIs
  <2> HIDE DEF c, s
  <2>4. CASE c \in Of(s)
    BY <1>4, <2>1, <2>2, <2>3, <2>4 DEF LetIn, s
  <2>5. CASE c \notin Of(s)
    <3>1. t[i + 1] = more
      BY <2>1, <2>3, <2>5 DEF LetIn
    <3>2. /\ more \in Seq(E) /\ Len(more) = Len(s) + 1
          /\ more[Len(s) + 1] = c
          /\ \A k \in 1..Len(s) : more[k] = s[k]
      BY <2>1, <2>3, Appended
    <3>3. \A k : k \in 1..(Len(s) + 1) <=> k \in 1..Len(s) \/ k = Len(s) + 1
      BY <2>3
    <3>4. Once(s, E)
      BY <1>4 DEF s
    <3> HIDE DEF more
    <3>5. \A k \in 1..Len(s) : s[k] # c
      BY <2>5 DEF Of
    <3>6. Once(more, E)
      <4> SUFFICES ASSUME NEW k \in 1..Len(more), NEW l \in 1..Len(more), more[k] = more[l] PROVE k = l
        BY <3>2 DEF Once
      <4>1. (k \in 1..Len(s) \/ k = Len(s) + 1) /\ (l \in 1..Len(s) \/ l = Len(s) + 1)
        BY <3>2, <3>3
      <4>2. \A m, n \in 1..Len(s) : s[m] = s[n] => m = n
        BY <3>4 DEF Once
      <4> QED
        BY <3>2, <3>5, <4>1, <4>2
    <3>7. Of(more) = Of(s) \cup {c}
      <4>1. \A o : o \in Of(more) <=> \E k \in 1..(Len(s) + 1) : o = more[k]
        BY <3>2 DEF Of
      <4>2. \A o : o \in Of(s) <=> \E k \in 1..Len(s) : o = s[k]
        BY DEF Of
      <4> QED
        BY <3>2, <3>3, <4>1, <4>2
    <3> QED
      BY <1>4, <2>2, <3>1, <3>6, <3>7 DEF s
  <2> QED
    BY <2>4, <2>5
<1> HIDE DEF Right
<1>5. 0 \in P /\ \A i \in 0..(Len(list) - 1) : i \in P => i + 1 \in P
  BY <1>2, <1>3, <1>4
<1>6. \A i \in 0..Len(list) : i \in P
  <2> HIDE DEF P
  <2> QED
    BY <1>2, <1>5, Climb
<1>7. Right(Len(list))
  BY <1>2, <1>6
<1> QED
  BY <1>1, <1>7 DEF Right, Of

\* What a fill makes: as many of the pool as it can, all of what was selected before a
\* filler, and of the fillers those that were not reviewed today first.
FillFits(got, selected, pool, target, reviewed) ==
    /\ Once(got, pool)
    /\ Len(got) = Smaller(target, Cardinality(pool))
    /\ \/ Of(got) \subseteq Of(selected) /\ Len(got) = target
       \/ /\ Of(selected) \subseteq Of(got)
          /\ \/ \A c \in pool \ Of(got) : c.id \in reviewed
             \/ \A c \in Of(got) \ Of(selected) : c.id \notin reviewed

LEMMA FillMakes ==
    ASSUME NEW pool, IsDeck(pool), NEW selected \in Seq(pool), NEW target \in Nat, NEW reviewed
    PROVE  FillFits(FillToTarget(selected, pool, target, reviewed), selected, pool, target, reviewed)
<1> DEFINE s == Dedupe(selected)
           rest == pool \ Of(selected)
           f == Sorted([c \in rest |-> FillKey(c, reviewed)])
           both == s \o f
           got == FillToTarget(selected, pool, target, reviewed)
<1>1. ToSet(selected) = Of(selected) /\ Of(selected) \subseteq pool
  BY OfIs
<1>2. Once(s, pool) /\ Of(s) = Of(selected)
  BY DedupeMakes
<1>3. Listing(f, rest) /\ UnreviewedFirst(f, reviewed)
  BY FillSorts
<1>4. got = IF Len(s) >= target THEN Take(s, target) ELSE Take(both, target)
  BY <1>1 DEF FillToTarget
<1> HIDE DEF s, f
<1>5. Once(f, pool) /\ Of(f) = rest
  BY <1>3, OnceWider DEF Listing
<1>6. Once(both, pool) /\ Of(both) = pool /\ Len(both) = Len(s) + Len(f)
  <2>1. Of(s) \cap Of(f) = {}
    BY <1>2, <1>5
  <2>2. Once(both, pool) /\ Of(both) = Of(s) \cup Of(f) /\ Len(both) = Len(s) + Len(f)
    BY <1>2, <1>5, <2>1, JoinMakes
  <2> QED
    BY <1>1, <1>2, <1>5, <2>2
<1>7. IsFiniteSet(pool)
  BY DEF IsDeck
<1>8. Cardinality(pool) \in Nat /\ Len(s) <= Cardinality(pool) /\ Len(both) = Cardinality(pool)
  BY <1>2, <1>6, <1>7, OnceFits
<1>9. s \in Seq(pool) /\ f \in Seq(pool) /\ Len(s) \in Nat /\ Len(f) \in Nat
  BY <1>2, <1>5 DEF Once
<1> HIDE DEF got
<1>10. CASE Len(s) >= target
  <2>1. /\ Once(got, pool) /\ Len(got) = Smaller(target, Len(s)) /\ Of(got) \subseteq Of(s)
    BY <1>2, <1>4, <1>10, TakeMakes
  <2> QED
    BY <1>2, <1>8, <1>9, <1>10, <2>1 DEF FillFits, Smaller, got
<1>11. CASE Len(s) < target
  <2>0. got = Take(both, target)
    BY <1>4, <1>9, <1>11
  <2>1. /\ Once(got, pool) /\ Len(got) = Smaller(target, Cardinality(pool))
        /\ \A i \in 1..Smaller(target, Cardinality(pool)) : got[i] = both[i]
    BY <1>6, <1>8, <2>0, TakeMakes
  <2> DEFINE n == Len(got)
             m == Len(s)
  <2>2. n \in Nat /\ m \in Nat /\ m <= n /\ n = Smaller(target, Cardinality(pool)) /\ n <= m + Len(f)
    BY <1>6, <1>8, <1>9, <1>11, <2>1 DEF Smaller
  <2>3. \A i \in 1..(m + Len(f)) : both[i] = IF i <= m THEN s[i] ELSE f[i - m]
    BY <1>9, Joined
  <2> HIDE DEF both
  <2>4. \A i \in 1..n : got[i] = IF i <= m THEN s[i] ELSE f[i - m]
    <3>1. \A i \in 1..n : i \in 1..(m + Len(f))
      BY <1>9, <2>2
    <3> HIDE DEF n, m
    <3> QED
      BY <2>1, <2>2, <2>3, <3>1
  <2>5. Of(selected) \subseteq Of(got)
    <3>1. ASSUME NEW i \in 1..m PROVE s[i] \in Of(got)
      <4>1. i \in 1..n /\ i <= m
        BY <2>2
      <4> HIDE DEF m
      <4> QED
        BY <2>4, <4>1 DEF Of
    <3> QED
      BY <1>2, <3>1 DEF Of
  <2>6. ASSUME NEW d \in Of(got) \ Of(selected), d.id \in reviewed, NEW c \in pool \ Of(got)
        PROVE  c.id \in reviewed
    <3>1. PICK i \in 1..n : d = got[i]
      BY DEF Of
    <3>2. ~(i <= m)
      <4>1. ASSUME i <= m PROVE d \in Of(s)
        <5>1. i \in 1..m
          BY <2>2, <4>1
        <5> HIDE DEF n, m
        <5>2. d = s[i]
          BY <2>4, <3>1, <4>1
        <5> QED
          BY <5>1, <5>2 DEF Of, m
      <4> QED
        BY <1>2, <2>6, <4>1
    <3>3. d = f[i - m] /\ i - m \in 1..Len(f)
      BY <1>9, <2>2, <2>4, <3>1, <3>2
    <3>4. c \in Of(f)
      BY <1>5, <2>5, <2>6
    <3>5. PICK j \in 1..Len(f) : c = f[j]
      BY <3>4 DEF Of
    <3>6. i - m < j
      <4>1. ASSUME j <= i - m PROVE FALSE
        <5> DEFINE k == j + m
        <5>1. k \in 1..n /\ ~(k <= m) /\ k - m = j
          BY <1>9, <2>2, <4>1
        <5> HIDE DEF n, m, k
        <5>2. got[k] = f[j]
          BY <2>4, <5>1
        <5>3. f[j] \in Of(got)
          BY <5>1, <5>2 DEF Of, n
        <5> QED
          BY <2>6, <3>5, <5>3
      <4> QED
        BY <1>9, <2>2, <4>1
    <3> QED
      BY <1>3, <2>6, <3>3, <3>5, <3>6 DEF UnreviewedFirst
  <2>7. \/ \A c \in pool \ Of(got) : c.id \in reviewed
        \/ \A c \in Of(got) \ Of(selected) : c.id \notin reviewed
    BY <2>6
  <2> QED
    BY <2>1, <2>5, <2>7 DEF FillFits, got
<1> QED
  BY <1>9, <1>10, <1>11

\* SelectionIsSound of any deck, request and selection.
SoundFor(got, cards, r) ==
    LET taken == ToSet(got)
        candidates == {c \in Ready(cards) : DueReason(c) # "none"}
        pool == IF r.goalMode \/ Fills(r) THEN Ready(cards) ELSE candidates
        newTaken == {c \in taken : c.state = "new"}
        Count(reason) == Cardinality({c \in candidates : DueReason(c) \in reason})
    IN /\ taken \subseteq pool
       /\ Cardinality(taken) = Len(got)
       /\ Len(got) = Smaller(Places(r), Cardinality(pool))
       /\ r.goalMode =>
            \/ \A c \in Ready(cards) \ taken : c.id \in r.reviewed
            \/ \A c \in taken : c.id \notin r.reviewed
       /\ ~r.goalMode =>
            \/ {c \in candidates : c.state # "new"} \subseteq taken
            \/ Cardinality(newTaken)
                <= EffectiveNewQuota(r.limit, Count({"strengthening"}), Count(DueReasons))

LEMMA PartIsDeck == ASSUME NEW cards, IsDeck(cards), NEW S \in SUBSET cards PROVE IsDeck(S) /\ IsFiniteSet(S)
BY FS_Subset DEF IsDeck

LEMMA PlacesAre == ASSUME NEW r PROVE Places(r) \in Nat /\ Places(r) >= 3 /\ NewQuota(r.limit) \in 0..3
<1>1. ReviewLimit(r.limit) \in {5, 10, 15} /\ DailyGoal(r.fill) \in {3, 5, 10, 15}
  BY DEF ReviewLimit, DailyGoal
<1>2. Places(r) \in {3, 5, 10, 15}
  BY <1>1 DEF Places
<1> QED
  BY <1>1, <1>2 DEF NewQuota

LEMMA GoalSelects ==
    ASSUME NEW cards, IsDeck(cards), NEW r, r.goalMode
    PROVE  SoundFor(SelectReviewCards(cards, r), cards, r)
<1> DEFINE pool == Ready(cards)
           left == {c \in pool : c.id \notin r.reviewed}
           weak == {c \in left : c.state = "strengthening"}
           due == {c \in left : DueReason(c) \in DueReasons}
           new == {c \in left : c.state = "new"}
           mastered == {c \in left \ due : c.state = "mastered"}
           fluent == {c \in left \ due : c.state = "reviewing" /\ c.last = "fluent"}
           s1 == Sorted([c \in new |-> AgeKey(c)])
           s2 == Sorted([c \in weak |-> StrengtheningKey(c)])
           s3 == Sorted([c \in due |-> DueKey(c)])
           s4 == Sorted([c \in mastered |-> AgeKey(c)])
           s5 == Sorted([c \in fluent |-> AgeKey(c)])
           selected == s1 \o s2 \o s3 \o s4 \o s5
           got == SelectReviewCards(cards, r)
           target == Places(r)
<1>1. pool \in SUBSET cards /\ left \in SUBSET pool
  BY DEF Ready
<1>2. IsDeck(pool) /\ IsFiniteSet(pool)
  BY <1>1, PartIsDeck
<1>3. got = FillToTarget(selected, pool, target, r.reviewed)
  BY DEF SelectReviewCards, SelectForGoal
<1>4. /\ new \in SUBSET pool /\ weak \in SUBSET pool /\ due \in SUBSET pool
      /\ mastered \in SUBSET pool /\ fluent \in SUBSET pool
  OBVIOUS
<1>5. new \subseteq left /\ weak \subseteq left /\ due \subseteq left /\ mastered \subseteq left /\ fluent \subseteq left
  OBVIOUS
<1> HIDE DEF new, weak, due, mastered, fluent, left, pool
<1>6. Listing(s1, new) /\ Listing(s4, mastered) /\ Listing(s5, fluent)
  BY <1>2, <1>4, AgeSorts
<1>7. Listing(s2, weak) /\ Listing(s3, due)
  BY <1>2, <1>4, WeakSorts, DueSorts
<1> HIDE DEF s1, s2, s3, s4, s5
<1>8. s1 \in Seq(left) /\ s2 \in Seq(left) /\ s3 \in Seq(left) /\ s4 \in Seq(left) /\ s5 \in Seq(left)
  BY <1>5, <1>6, <1>7 DEF Listing, Once
<1>9. selected \in Seq(left) /\ selected \in Seq(pool)
  BY <1>1, <1>8
<1>10. Of(selected) \subseteq left
  BY <1>9, OfIs
<1>11. target \in Nat
  BY PlacesAre
<1> HIDE DEF selected, target
<1>12. FillFits(got, selected, pool, target, r.reviewed)
  BY <1>2, <1>3, <1>9, <1>11, FillMakes
<1> HIDE DEF got
<1>13. /\ Once(got, pool) /\ Len(got) = Smaller(target, Cardinality(pool))
       /\ \/ Of(got) \subseteq Of(selected)
          \/ /\ Of(selected) \subseteq Of(got)
             /\ \/ \A c \in pool \ Of(got) : c.id \in r.reviewed
                \/ \A c \in Of(got) \ Of(selected) : c.id \notin r.reviewed
  BY <1>12 DEF FillFits
<1>14. ToSet(got) = Of(got) /\ Of(got) \subseteq pool /\ Cardinality(Of(got)) = Len(got)
  BY <1>13, OnceCounts
<1>15. \/ \A c \in pool \ Of(got) : c.id \in r.reviewed
       \/ \A c \in Of(got) : c.id \notin r.reviewed
  BY <1>10, <1>13 DEF left
<1>16. SoundFor(got, cards, r)
  BY <1>13, <1>14, <1>15 DEF SoundFor, pool, target
<1> QED
  BY <1>16 DEF got

\* What the quota lets through: whole lists of weak and due cards, or no more new cards
\* than the quota.
LEMMA QuotaSelects ==
    ASSUME NEW cards, IsDeck(cards), NEW r, ~r.goalMode
    PROVE  SoundFor(SelectReviewCards(cards, r), cards, r)
<1> DEFINE ready == Ready(cards)
           candidates == {c \in ready : DueReason(c) # "none"}
           weakOnes == {c \in candidates : DueReason(c) = "strengthening"}
           dueOnes == {c \in candidates : DueReason(c) \in DueReasons}
           newOnes == {c \in candidates : DueReason(c) = "new"}
           weak == Sorted([c \in weakOnes |-> StrengtheningKey(c)])
           due == Sorted([c \in dueOnes |-> DueKey(c)])
           new == Sorted([c \in newOnes |-> AgeKey(c)])
           quota == EffectiveNewQuota(r.limit, Len(weak), Len(due))
           target == Places(r)
           first == Take(new, quota)
           both == weak \o due
           old == Take(both, target - Len(first))
           start == first \o old
           rest == SubSeq(new, Len(first) + 1, Len(new))
           selected == IF Len(start) < target THEN first \o old \o rest ELSE start
           got == SelectReviewCards(cards, r)
<1>1. ready \in SUBSET cards /\ candidates \in SUBSET ready
  BY DEF Ready
<1>2. IsDeck(ready) /\ IsFiniteSet(ready) /\ IsDeck(candidates) /\ IsFiniteSet(candidates)
  BY <1>1, PartIsDeck
<1>3. got = IF Len(selected) >= target \/ ~Fills(r) THEN Take(selected, target)
            ELSE FillToTarget(selected, ready, target, r.reviewed)
  BY DEF SelectReviewCards, SelectByQuota
<1>4. weakOnes \in SUBSET candidates /\ dueOnes \in SUBSET candidates /\ newOnes \in SUBSET candidates
  OBVIOUS
<1>5. \A c \in candidates : c \in Cards
  BY <1>2 DEF IsDeck
<1>6. ASSUME NEW c \in candidates
      PROVE  /\ c \in newOnes <=> c.state = "new"
             /\ c \in weakOnes \/ c \in dueOnes \/ c \in newOnes
             /\ ~(c \in weakOnes /\ c \in dueOnes)
             /\ ~(c \in weakOnes /\ c \in newOnes)
             /\ ~(c \in dueOnes /\ c \in newOnes)
  BY <1>5 DEF DueReason, DueReasons, Cards, States
<1>7. /\ newOnes \cup weakOnes \cup dueOnes = candidates
      /\ weakOnes \cap dueOnes = {} /\ newOnes \cap (weakOnes \cup dueOnes) = {}
      /\ {c \in candidates : c.state # "new"} = weakOnes \cup dueOnes
      /\ \A c \in weakOnes \cup dueOnes : c.state # "new"
  BY <1>4, <1>6
<1>8. {c \in candidates : DueReason(c) \in {"strengthening"}} = weakOnes
  OBVIOUS
<1>9. {c \in candidates : DueReason(c) \in DueReasons} = dueOnes
  OBVIOUS
<1>10. SoundFor(got, cards, r) <=>
          /\ ToSet(got) \subseteq (IF Fills(r) THEN ready ELSE candidates)
          /\ Cardinality(ToSet(got)) = Len(got)
          /\ Len(got) = Smaller(target, Cardinality(IF Fills(r) THEN ready ELSE candidates))
          /\ \/ weakOnes \cup dueOnes \subseteq ToSet(got)
             \/ Cardinality({c \in ToSet(got) : c.state = "new"})
                    <= EffectiveNewQuota(r.limit, Cardinality(weakOnes), Cardinality(dueOnes))
  <2> HIDE DEF got, target, weakOnes, dueOnes
  <2>1. SoundFor(got, cards, r) <=>
          /\ ToSet(got) \subseteq (IF Fills(r) THEN ready ELSE candidates)
          /\ Cardinality(ToSet(got)) = Len(got)
          /\ Len(got) = Smaller(target, Cardinality(IF Fills(r) THEN ready ELSE candidates))
          /\ \/ {c \in candidates : c.state # "new"} \subseteq ToSet(got)
             \/ Cardinality({c \in ToSet(got) : c.state = "new"})
                    <= EffectiveNewQuota(r.limit, Cardinality({c \in candidates : DueReason(c) \in {"strengthening"}}),
                                                  Cardinality({c \in candidates : DueReason(c) \in DueReasons}))
    BY Zenon DEF SoundFor, target
  <2> QED
    BY <1>7, <1>8, <1>9, <2>1
<1>a. selected = IF Len(start) < target THEN start \o rest ELSE start
  OBVIOUS
<1> HIDE DEF selected, got, weakOnes, dueOnes, newOnes, candidates, ready
<1>11. Listing(weak, weakOnes) /\ Listing(due, dueOnes) /\ Listing(new, newOnes)
  BY <1>2, <1>4, AgeSorts, WeakSorts, DueSorts
<1> HIDE DEF weak, due, new
<1>12. /\ Once(weak, candidates) /\ Of(weak) = weakOnes
       /\ Once(due, candidates) /\ Of(due) = dueOnes
       /\ Once(new, candidates) /\ Of(new) = newOnes
  BY <1>4, <1>11, OnceWider DEF Listing
<1>13. /\ Len(weak) = Cardinality(weakOnes) /\ Len(due) = Cardinality(dueOnes)
       /\ Len(weak) \in Nat /\ Len(due) \in Nat /\ Len(new) \in Nat
  BY <1>12, OnceCounts
<1>14. target \in Nat /\ target >= 3 /\ quota \in 0..3
  <2>1. NewQuota(r.limit) \in 0..3 /\ target \in Nat /\ target >= 3
    BY PlacesAre
  <2> QED
    BY <2>1 DEF EffectiveNewQuota
<1>15. Once(both, candidates) /\ Of(both) = weakOnes \cup dueOnes
  BY <1>7, <1>12, JoinMakes
<1> HIDE DEF both, quota, target
<1>b. quota \in Nat
  BY <1>14
<1>16. Once(first, candidates) /\ Len(first) = Smaller(quota, Len(new)) /\ Of(first) \subseteq newOnes
  <2>1. /\ Once(first, candidates) /\ Len(first) = Smaller(quota, Len(new))
        /\ Of(first) \subseteq Of(new)
    BY <1>12, <1>b, TakeMakes
  <2> QED
    BY <1>12, <2>1
<1>17. Len(first) \in Nat /\ Len(first) <= quota /\ Len(first) <= Len(new) /\ target - Len(first) \in Nat
  BY <1>13, <1>14, <1>16 DEF Smaller
<1>18. first = SubSeq(new, 1, Len(first))
  BY <1>16 DEF Take
<1>19. /\ Once(old, candidates) /\ Len(old) = Smaller(target - Len(first), Len(both))
       /\ Of(old) \subseteq weakOnes \cup dueOnes
       /\ Len(both) <= target - Len(first) => old = both
  <2> DEFINE places == target - Len(first)
  <2>1. places \in Nat
    BY <1>17
  <2> HIDE DEF places
  <2>2. /\ Once(Take(both, places), candidates) /\ Len(Take(both, places)) = Smaller(places, Len(both))
        /\ Of(Take(both, places)) \subseteq Of(both)
        /\ Len(both) <= places => Take(both, places) = both
    BY <1>15, <2>1, TakeMakes
  <2> QED
    BY <1>15, <2>2 DEF places
<1> HIDE DEF first, old
<1>20. /\ Once(start, candidates) /\ Of(start) = Of(first) \cup Of(old) /\ Len(start) = Len(first) + Len(old)
  BY <1>7, <1>16, <1>19, JoinMakes
<1>21. Len(start) \in Nat /\ Len(old) \in Nat /\ Len(both) \in Nat
  BY <1>15, <1>19, <1>20 DEF Once
<1>22. Len(start) <= target /\ (Len(start) < target => old = both)
  BY <1>14, <1>17, <1>19, <1>20, <1>21 DEF Smaller
<1> HIDE DEF start
<1>23. /\ Cardinality(candidates) \in Nat /\ Cardinality(ready) \in Nat /\ Cardinality(candidates) <= Cardinality(ready)
       /\ Len(start) <= Cardinality(candidates)
  <2>1. Cardinality(candidates) \in Nat /\ Len(start) <= Cardinality(candidates)
    BY <1>2, <1>20, OnceFits
  <2>2. Cardinality(ready) \in Nat
    BY <1>2, FS_CardinalityType
  <2>3. Cardinality(candidates) <= Cardinality(ready)
    BY <1>1, <1>2, FS_Subset
  <2> QED
    BY <2>1, <2>2, <2>3
<1>24. CASE Len(start) = target
  <2>1. selected = start
    BY <1>14, <1>24, <1>a
  <2>2. got = start
    <3>1. got = Take(selected, target)
      BY <1>3, <1>14, <1>24, <2>1
    <3> QED
      BY <1>14, <1>20, <1>24, <2>1, <3>1, TakeMakes
  <2>3. ToSet(got) = Of(start) /\ Of(start) \subseteq candidates /\ Cardinality(Of(start)) = Len(got) /\ Len(got) = target
    BY <1>20, <1>24, <2>2, OnceCounts
  <2>4. {c \in Of(start) : c.state = "new"} \subseteq Of(first)
    BY <1>7, <1>19, <1>20
  <2>5. Cardinality({c \in Of(start) : c.state = "new"}) <= quota
    <3>1. IsFiniteSet(Of(first)) /\ Cardinality(Of(first)) = Len(first)
      BY <1>16, OnceCounts
    <3> DEFINE some == {c \in Of(start) : c.state = "new"}
    <3>2. Cardinality(some) <= Cardinality(Of(first)) /\ IsFiniteSet(some)
      BY <2>4, <3>1, FS_Subset
    <3>3. Cardinality(some) \in Nat
      BY <3>2, FS_CardinalityType
    <3> QED
      BY <1>14, <1>17, <3>1, <3>2, <3>3
  <2>6. Len(got) = Smaller(target, Cardinality(IF Fills(r) THEN ready ELSE candidates))
    BY <1>14, <1>23, <1>24, <2>3 DEF Smaller
  <2>7. quota = EffectiveNewQuota(r.limit, Cardinality(weakOnes), Cardinality(dueOnes))
    BY <1>13 DEF quota
  <2>8. SoundFor(got, cards, r)
    BY <1>1, <1>10, <2>3, <2>5, <2>6, <2>7
  <2> QED
    BY <2>8 DEF got
<1>25. CASE Len(start) < target
  <2>1. selected = start \o rest
    BY <1>25, <1>a
  <2>2. /\ Once(rest, candidates) /\ Of(first) \cap Of(rest) = {} /\ Of(first) \cup Of(rest) = newOnes
    <3> DEFINE m == Len(first)
    <3>1. m \in 0..Len(new)
      BY <1>13, <1>17
    <3> HIDE DEF m
    <3>2. /\ Once(SubSeq(new, m + 1, Len(new)), candidates)
          /\ Of(SubSeq(new, 1, m)) \cap Of(SubSeq(new, m + 1, Len(new))) = {}
          /\ Of(SubSeq(new, 1, m)) \cup Of(SubSeq(new, m + 1, Len(new))) = Of(new)
      BY <1>12, <3>1, RestMakes
    <3> QED
      BY <1>12, <1>18, <3>2 DEF m
  <2> HIDE DEF rest
  <2>3. Of(start) \cap Of(rest) = {}
    BY <1>7, <1>19, <1>20, <2>2
  <2>4. Once(selected, candidates) /\ Of(selected) = candidates
    <3>1. Once(selected, candidates) /\ Of(selected) = Of(start) \cup Of(rest)
      BY <1>20, <2>1, <2>2, <2>3, JoinMakes
    <3> QED
      BY <1>7, <1>15, <1>20, <1>22, <1>25, <2>2, <3>1
  <2>5. Len(selected) = Cardinality(candidates)
    BY <1>2, <2>4, OnceFits
  <2>6. ASSUME NEW i \in 1..Len(start) PROVE i \in 1..Len(selected) /\ selected[i] = start[i]
    <3>1. start \in Seq(candidates) /\ rest \in Seq(candidates)
      BY <1>20, <2>2 DEF Once
    <3>2. Len(selected) = Len(start) + Len(rest) /\ Len(rest) \in Nat
      BY <2>1, <3>1
    <3>3. \A k \in 1..(Len(start) + Len(rest)) : selected[k] = IF k <= Len(start) THEN start[k] ELSE rest[k - Len(start)]
      BY <2>1, <3>1, Joined
    <3>4. i \in 1..(Len(start) + Len(rest)) /\ i <= Len(start)
      BY <1>21, <3>2
    <3> QED
      BY <3>2, <3>3, <3>4
  <2>7. weakOnes \cup dueOnes \subseteq Of(start)
    BY <1>15, <1>20, <1>22, <1>25
  <2>8. CASE Len(selected) >= target \/ ~Fills(r)
    <3>1. got = Take(selected, target)
      BY <1>3, <2>8
    <3>2. /\ Once(got, candidates) /\ Len(got) = Smaller(target, Len(selected))
          /\ \A i \in 1..Smaller(target, Len(selected)) : got[i] = selected[i]
      BY <1>14, <2>4, <3>1, TakeMakes
    <3>3. \A i \in 1..Len(start) : i \in 1..Smaller(target, Len(selected))
      <4> SUFFICES ASSUME NEW i \in 1..Len(start) PROVE i \in 1..Smaller(target, Len(selected))
        OBVIOUS
      <4>1. i \in 1..Len(selected) /\ Len(selected) \in Nat
        BY <1>23, <2>5, <2>6
      <4> QED
        BY <1>14, <1>21, <1>25, <4>1 DEF Smaller
    <3>4. Of(start) \subseteq Of(got)
      BY <2>6, <3>2, <3>3 DEF Of
    <3>5. ToSet(got) = Of(got) /\ Of(got) \subseteq candidates /\ Cardinality(Of(got)) = Len(got)
      BY <3>2, OnceCounts
    <3>6. Len(got) = Smaller(target, Cardinality(IF Fills(r) THEN ready ELSE candidates))
      <4>1. CASE Fills(r)
        BY <1>14, <1>23, <2>5, <2>8, <3>2, <4>1 DEF Smaller
      <4>2. CASE ~Fills(r)
        BY <2>5, <3>2, <4>2
      <4> QED
        BY <4>1, <4>2
    <3>7. SoundFor(got, cards, r)
      BY <1>1, <1>10, <2>7, <3>4, <3>5, <3>6 DEF got
    <3> QED
      BY <3>7 DEF got
  <2>9. CASE Len(selected) < target /\ Fills(r)
    <3>1. selected \in Seq(ready)
      BY <1>1, <2>4 DEF Once
    <3>2. got = FillToTarget(selected, ready, target, r.reviewed)
      BY <1>3, <1>14, <1>23, <2>5, <2>9
    <3>3. FillFits(got, selected, ready, target, r.reviewed)
      BY <1>2, <1>14, <3>1, <3>2, FillMakes
    <3>4. /\ Once(got, ready) /\ Len(got) = Smaller(target, Cardinality(ready))
          /\ \/ Of(got) \subseteq Of(selected) /\ Len(got) = target
             \/ Of(selected) \subseteq Of(got)
      BY <3>3 DEF FillFits
    <3>5. ToSet(got) = Of(got) /\ Of(got) \subseteq ready /\ Cardinality(Of(got)) = Len(got) /\ IsFiniteSet(Of(got))
      BY <3>4, OnceCounts
    <3>6. Of(selected) \subseteq Of(got)
      <4>1. ASSUME Of(got) \subseteq Of(selected), Len(got) = target PROVE FALSE
        <5>1. Cardinality(Of(got)) <= Cardinality(candidates)
          BY <1>2, <2>4, <4>1, FS_Subset
        <5> QED
          BY <1>14, <1>23, <2>5, <2>9, <3>5, <4>1, <5>1
      <4> QED
        BY <3>4, <4>1
    <3>7. weakOnes \cup dueOnes \subseteq Of(got)
      BY <1>7, <2>4, <3>6
    <3>8. SoundFor(got, cards, r)
      BY <1>10, <2>9, <3>4, <3>5, <3>7 DEF got
    <3> QED
      BY <3>8 DEF got
  <2> QED
    BY <1>14, <1>23, <2>5, <2>8, <2>9 DEF got
<1> QED
  BY <1>14, <1>21, <1>22, <1>24, <1>25

SelectionInv == deck \in Decks /\ request \in Requests /\ (chosen = <<>> \/ chosen = SelectReviewCards(deck, request))

\* SelectionIsSound in every state, for decks and requests of any size: each card once,
\* as many as there are, the unreviewed before those that wait, and new cards beyond
\* their quota only behind every card that is due.
THEOREM SelectionHolds == RuleSpec => []SelectionIsSound
<1>1. RuleInit => SelectionInv
  BY DEF RuleInit, SelectionInv
<1>2. SelectionInv /\ [Select \/ StudyNext]_ruleVars => SelectionInv'
  BY DEF SelectionInv, Select, StudyNext, OpenRound, Feedback, ruleVars
<1>3. SelectionInv => SelectionIsSound
  <2> SUFFICES ASSUME SelectionInv, chosen = SelectReviewCards(deck, request) PROVE SelectionIsSound
    BY DEF SelectionInv, SelectionIsSound
  <2>1. IsDeck(deck)
    BY DeckAssumption DEF SelectionInv
  <2>2. SoundFor(chosen, deck, request)
    BY <2>1, GoalSelects, QuotaSelects
  <2> QED
    BY <2>2 DEF SelectionIsSound, SoundFor
<1> QED
  BY <1>1, <1>2, <1>3, PTL DEF RuleSpec

\* RulesAreSound in every state: selections are whole and fair, and mastery is earned
\* (select_review_cards, apply_review_feedback_to_card).
THEOREM RulesHold == RuleSpec => []RulesAreSound
<1>1. SelectionIsSound /\ MasteryIsEarned => RulesAreSound
  BY DEF RulesAreSound
<1> QED
  BY <1>1, SelectionHolds, MasteryHolds, PTL

-----------------------------------------------------------------------------
(* Questions: passes over the cards and the dictionary.                    *)

\* The first element that is left, if there is one.
LEMMA FirstLeft ==
    ASSUME NEW A, NEW s \in Seq(A), NEW out
    PROVE  /\ Without(s, out) = <<>> => \A k \in 1..Len(s) : s[k] \in out
           /\ Without(s, out) # <<>> =>
                \E k \in 1..Len(s) : s[k] \notin out /\ Without(s, out)[1] = s[k] /\ \A j \in 1..(k - 1) : s[j] \in out
<1>1. Without(s, out) \in Seq(A) /\ \E at : Keeps(at, s, out)
  BY WithoutKeeps, Zenon
<1>2. PICK at : Keeps(at, s, out)
  BY <1>1
<1> DEFINE left == Left(s, out)
           N == Cardinality(left)
           less == Without(s, out)
<1>3. /\ Len(less) = N /\ N \in Nat /\ at \in [1..N -> left]
      /\ \A i \in left : \E n \in 1..N : at[n] = i
      /\ \A m, n \in 1..N : m < n => at[m] < at[n]
      /\ \A n \in 1..N : less[n] = s[at[n]]
  BY <1>2 DEF Keeps
<1>4. \A i : i \in left <=> i \in 1..Len(s) /\ s[i] \notin out
  BY DEF Left
<1>5. less \in Seq(A)
  BY <1>1
<1> HIDE DEF left, N, less
<1>6. ASSUME less = <<>> PROVE \A k \in 1..Len(s) : s[k] \in out
  <2>1. N = 0
    BY <1>3, <1>6
  <2> QED
    BY <1>3, <1>4, <2>1
<1>7. ASSUME less # <<>>
      PROVE  \E k \in 1..Len(s) : s[k] \notin out /\ less[1] = s[k] /\ \A j \in 1..(k - 1) : s[j] \in out
  <2>1. N # 0
    BY <1>3, <1>5, <1>7
  <2>2. 1 \in 1..N
    BY <1>3, <2>1
  <2>3. at[1] \in left /\ less[1] = s[at[1]]
    BY <1>3, <2>2
  <2>4. ASSUME NEW j \in 1..(at[1] - 1) PROVE s[j] \in out
    <3>1. at[1] \in 1..Len(s) /\ j \in 1..Len(s) /\ j < at[1]
      BY <1>4, <2>3
    <3>2. ASSUME j \in left PROVE FALSE
      <4>1. PICK n \in 1..N : at[n] = j
        BY <1>3, <3>2
      <4>2. n = 1 \/ 1 < n
        OBVIOUS
      <4> QED
        BY <1>3, <2>2, <3>1, <4>1, <4>2
    <3> QED
      BY <1>4, <3>1, <3>2
  <2> QED
    BY <1>4, <2>3, <2>4
<1> QED
  BY <1>6, <1>7 DEF less

\* A pass that adds one answer after the other.
AddOne(acc, d, legal) ==
    IF Len(acc) < 3 /\ d.text \in legal /\ d.key \notin Seen \cup {e.key : e \in ToSet(acc)} THEN Append(acc, d) ELSE acc

AddRun(t, list, legal) ==
    /\ t[0] = distractors
    /\ \A i \in 1..Len(list) : t[i] = AddOne(t[i - 1], list[i], legal)
    /\ Adding(list, legal) = t[Len(list)]

LEMMA AddRuns ==
    ASSUME NEW E, NEW list \in Seq(E), distractors \in Seq(E), NEW legal
    PROVE  \E t : AddRun(t, list, legal)
<1> DEFINE D == SUBSET (1..Len(list))
           A == Seq(E)
           none == distractors
           Step(acc, d) == AddOne(acc, d, legal)
           Def(g) == g = [S \in D |-> IF S = {} THEN none ELSE Step(g[S \ {Max(S)}], list[Max(S)])]
           it == CHOOSE g : Def(g)
           H == [z \in A \X E |-> Step(z[1], z[2])]
<1>1. DOMAIN list = 1..Len(list) /\ Len(list) \in Nat /\ none \in A /\ \A i \in 1..Len(list) : list[i] \in E
  OBVIOUS
<1>2. H \in [A \X E -> A]
  BY DEF AddOne
<1>3. PICK g \in [D -> A] : g[{}] = none /\ \A S \in D : S # {} => g[S] = H[<<g[S \ {Max(S)}], list[Max(S)]>>]
  <2> HIDE DEF H, A, none
  <2>1. PICK g : Folds(g, A, H, none, list)
    BY <1>1, <1>2, FoldExists, Zenon
  <2> QED
    BY <2>1 DEF Folds
<1>4. Def(g)
  <2>1. ASSUME NEW S \in D, S # {} PROVE H[<<g[S \ {Max(S)}], list[Max(S)]>>] = Step(g[S \ {Max(S)}], list[Max(S)])
    <3>1. Max(S) \in S
      BY <1>1, <2>1, MaxExists
    <3>2. g[S \ {Max(S)}] \in A /\ list[Max(S)] \in E
      <4>1. S \ {Max(S)} \in D
        OBVIOUS
      <4> HIDE DEF A
      <4> QED
        BY <3>1, <4>1, <1>1
    <3> HIDE DEF Step, A
    <3> QED
      BY <3>2
  <2> HIDE DEF H, Step, A, none
  <2>2. \A S \in D : g[S] = IF S = {} THEN none ELSE Step(g[S \ {Max(S)}], list[Max(S)])
    BY <1>3, <2>1
  <2>3. g = [S \in D |-> g[S]]
    OBVIOUS
  <2> QED
    BY <2>2, <2>3
<1>5. Def(it)
  <2> HIDE DEF Def
  <2> QED
    BY <1>4
<1>6. Adding(list, legal) = it[1..Len(list)]
  BY <1>1 DEF Adding, AddOne, FoldLeft, MapThenFoldSet
<1> DEFINE t == [i \in 0..Len(list) |-> it[1..i]]
<1> HIDE DEF it, Step, none
<1>7. t[0] = none
  BY <1>1, <1>5
<1>8. \A i \in 1..Len(list) : t[i] = Step(t[i - 1], list[i])
  <2> TAKE i \in 1..Len(list)
  <2>1. (1..i) \ {Max(1..i)} = 1..(i - 1) /\ Max(1..i) = i /\ 1..i # {} /\ 1..i \in D
    BY <1>1, Intervals
  <2>2. it[1..i] = Step(it[1..(i - 1)], list[i])
    BY <1>5, <2>1
  <2> QED
    BY <1>1, <2>2
<1>9. t[Len(list)] = it[1..Len(list)]
  BY <1>1
<1> HIDE DEF t
<1> QED
  BY <1>6, <1>7, <1>8, <1>9 DEF Step, AddRun, none

\* A pass over the rows of the dictionary.
OfferOne(acc, e) ==
    IF Len(acc.list) = EntryLimit THEN acc
    ELSE IF Without(e.meanings, acc.seen) = <<>> THEN [acc EXCEPT !.read = @ \cup {e}]
    ELSE [seen |-> acc.seen \cup {Without(e.meanings, acc.seen)[1]}, read |-> acc.read \cup {e},
          list |-> Append(acc.list, [text |-> Without(e.meanings, acc.seen)[1], key |-> Normal[Without(e.meanings, acc.seen)[1]],
                                     source |-> "ecdict", from |-> e.word])]

OfferRun(t, list) ==
    /\ t[0] = [seen |-> Seen, read |-> {}, list |-> <<>>]
    /\ \A i \in 1..Len(list) : t[i] = OfferOne(t[i - 1], list[i])
    /\ Offering(list) = t[Len(list)]

AllMeanings(words) == UNION {ToSet(e.meanings) : e \in words}
RowOf(x, y) == [text |-> x, key |-> Normal[x], source |-> "ecdict", from |-> y]
Rows(words) == {RowOf(x, y) : x \in AllMeanings(words), y \in {e.word : e \in words}}
Words(words) == \A e \in words : e.meanings \in Seq(ToSet(e.meanings))
Passes(K, words) == [seen : SUBSET (K \cup AllMeanings(words)), read : SUBSET words, list : Seq(Rows(words))]

LEMMA OfferTypes ==
    ASSUME NEW E, Words(E), NEW K, NEW acc \in Passes(K, E), NEW e \in E
    PROVE  OfferOne(acc, e) \in Passes(K, E)
<1> DEFINE unseen == Without(e.meanings, acc.seen)
           s == e.meanings
<1>0. acc.seen \in SUBSET (K \cup AllMeanings(E)) /\ acc.read \in SUBSET E /\ acc.list \in Seq(Rows(E))
  BY DEF Passes
<1>1. s \in Seq(ToSet(s)) /\ ToSet(s) \subseteq AllMeanings(E)
  BY DEF Words, AllMeanings
<1>2. CASE Len(acc.list) = EntryLimit
  BY <1>2 DEF OfferOne
<1>3. CASE Len(acc.list) # EntryLimit /\ unseen = <<>>
  BY <1>0, <1>3 DEF OfferOne, Passes
<1>4. CASE Len(acc.list) # EntryLimit /\ unseen # <<>>
  <2>1. unseen[1] \in ToSet(s)
    <3> HIDE DEF s
    <3>1. PICK k \in 1..Len(s) : Without(s, acc.seen)[1] = s[k]
      BY <1>1, <1>4, FirstLeft DEF s
    <3>2. s[k] \in ToSet(s)
      BY <1>1
    <3> QED
      BY <3>1, <3>2 DEF s
  <2>2. OfferOne(acc, e) = [seen |-> acc.seen \cup {unseen[1]}, read |-> acc.read \cup {e},
                            list |-> Append(acc.list, RowOf(unseen[1], e.word))]
    BY <1>4 DEF OfferOne, RowOf
  <2> HIDE DEF unseen, s
  <2>3. unseen[1] \in AllMeanings(E)
    BY <1>1, <2>1
  <2>4. RowOf(unseen[1], e.word) \in Rows(E)
    BY <2>3 DEF Rows
  <2>5. Append(acc.list, RowOf(unseen[1], e.word)) \in Seq(Rows(E))
    BY <1>0, <2>4, Appended
  <2> QED
    BY <1>0, <2>2, <2>3, <2>5 DEF Passes
<1> QED
  BY <1>2, <1>3, <1>4

LEMMA OfferRuns ==
    ASSUME NEW E, Words(E), NEW list \in Seq(E)
    PROVE  \E t : OfferRun(t, list)
<1> DEFINE D == SUBSET (1..Len(list))
           A == Passes(Seen, E)
           none == [seen |-> Seen, read |-> {}, list |-> <<>>]
           Step(acc, d) == OfferOne(acc, d)
           Def(g) == g = [S \in D |-> IF S = {} THEN none ELSE Step(g[S \ {Max(S)}], list[Max(S)])]
           it == CHOOSE g : Def(g)
           H == [z \in A \X E |-> Step(z[1], z[2])]
<1>1. DOMAIN list = 1..Len(list) /\ Len(list) \in Nat /\ none \in A /\ \A i \in 1..Len(list) : list[i] \in E
  BY DEF Passes
<1>2. H \in [A \X E -> A]
  <2>1. \A acc \in A, d \in E : Step(acc, d) \in A
    <3>1. ASSUME NEW acc \in A, NEW d \in E PROVE OfferOne(acc, d) \in A
      BY OfferTypes
    <3> QED
      BY <3>1
  <2> HIDE DEF A, Step
  <2> QED
    BY <2>1
<1>3. PICK g \in [D -> A] : g[{}] = none /\ \A S \in D : S # {} => g[S] = H[<<g[S \ {Max(S)}], list[Max(S)]>>]
  <2> HIDE DEF H, A, none
  <2>1. PICK g : Folds(g, A, H, none, list)
    BY <1>1, <1>2, FoldExists, Zenon
  <2> QED
    BY <2>1 DEF Folds
<1>4. Def(g)
  <2>1. ASSUME NEW S \in D, S # {} PROVE H[<<g[S \ {Max(S)}], list[Max(S)]>>] = Step(g[S \ {Max(S)}], list[Max(S)])
    <3>1. Max(S) \in S
      BY <1>1, <2>1, MaxExists
    <3>2. g[S \ {Max(S)}] \in A /\ list[Max(S)] \in E
      <4>1. S \ {Max(S)} \in D
        OBVIOUS
      <4> HIDE DEF A
      <4> QED
        BY <3>1, <4>1, <1>1
    <3> HIDE DEF Step, A
    <3> QED
      BY <3>2
  <2> HIDE DEF H, Step, A, none
  <2>2. \A S \in D : g[S] = IF S = {} THEN none ELSE Step(g[S \ {Max(S)}], list[Max(S)])
    BY <1>3, <2>1
  <2>3. g = [S \in D |-> g[S]]
    OBVIOUS
  <2> QED
    BY <2>2, <2>3
<1>5. Def(it)
  <2> HIDE DEF Def
  <2> QED
    BY <1>4
<1>6. Offering(list) = it[1..Len(list)]
  BY <1>1 DEF Offering, OfferOne, FoldLeft, MapThenFoldSet
<1> DEFINE t == [i \in 0..Len(list) |-> it[1..i]]
<1> HIDE DEF it, Step, none
<1>7. t[0] = none
  BY <1>1, <1>5
<1>8. \A i \in 1..Len(list) : t[i] = Step(t[i - 1], list[i])
  <2> TAKE i \in 1..Len(list)
  <2>1. (1..i) \ {Max(1..i)} = 1..(i - 1) /\ Max(1..i) = i /\ 1..i # {} /\ 1..i \in D
    BY <1>1, Intervals
  <2>2. it[1..i] = Step(it[1..(i - 1)], list[i])
    BY <1>5, <2>1
  <2> QED
    BY <1>1, <2>2
<1>9. t[Len(list)] = it[1..Len(list)]
  BY <1>1
<1> HIDE DEF t
<1> QED
  BY <1>6, <1>7, <1>8, <1>9 DEF Step, OfferRun, none

Different(s) == \A i, j \in 1..Len(s) : s[i].key = s[j].key => i = j

\* What a pass has added after n of a list.
AddFits(got, list, legal, n) ==
    /\ Len(distractors) <= Len(got) /\ Len(got) <= 3 /\ Different(got)
    /\ \A i \in 1..Len(distractors) : got[i] = distractors[i]
    /\ \A i \in 1..Len(got) : i > Len(distractors) =>
        \E k \in 1..n : got[i] = list[k] /\ list[k].text \in legal /\ list[k].key \notin Seen
    /\ Len(got) < 3 => \A k \in 1..n : list[k].text \in legal =>
        list[k].key \in Seen \/ \E i \in 1..Len(got) : got[i].key = list[k].key

LEMMA AddMakes ==
    ASSUME NEW E, NEW list \in Seq(E), distractors \in Seq(E), Len(distractors) <= 3, Different(distractors), NEW legal
    PROVE  Adding(list, legal) \in Seq(E) /\ AddFits(Adding(list, legal), list, legal, Len(list))
<1>0. PICK t : AddRun(t, list, legal)
  BY AddRuns, Zenon
<1>1. /\ t[0] = distractors
      /\ \A i \in 1..Len(list) : t[i] = AddOne(t[i - 1], list[i], legal)
      /\ Adding(list, legal) = t[Len(list)]
  BY <1>0 DEF AddRun
<1>2. Len(list) \in Nat /\ (\A i \in 1..Len(list) : list[i] \in E) /\ Len(distractors) \in Nat
  OBVIOUS
<1> DEFINE Right(i) == t[i] \in Seq(E) /\ AddFits(t[i], list, legal, i)
           P == {i \in 0..Len(list) : Right(i)}
<1>3. Right(0)
  BY <1>1, <1>2 DEF AddFits
<1>4. ASSUME NEW i \in 0..(Len(list) - 1), Right(i) PROVE Right(i + 1)
  <2> DEFINE d == list[i + 1]
             s == t[i]
             more == Append(s, d)
             m == Len(s)
             start == Len(distractors)
  <2>0. i + 1 \in 1..Len(list) /\ i + 1 - 1 = i
    BY <1>2
  <2>1. t[i + 1] = AddOne(s, d, legal) /\ d \in E
    BY <1>1, <1>2, <2>0
  <2>2. s \in Seq(E) /\ m \in Nat /\ start \in Nat /\ ToSet(s) = Of(s)
    <3>1. s \in Seq(E) /\ m \in Nat
      BY <1>4
    <3> HIDE DEF s
    <3> QED
      BY <1>2, <3>1, OfIs
  <2>3. /\ start <= m /\ m <= 3 /\ \A k, l \in 1..m : s[k].key = s[l].key => k = l
        /\ \A k \in 1..start : s[k] = distractors[k]
        /\ \A k \in 1..m : k > start => \E l \in 1..i : s[k] = list[l] /\ list[l].text \in legal /\ list[l].key \notin Seen
        /\ m < 3 => \A l \in 1..i : list[l].text \in legal => list[l].key \in Seen \/ \E k \in 1..m : s[k].key = list[l].key
    BY <1>4 DEF AddFits, Different
  <2>4. \A k : k \in 1..(i + 1) <=> k \in 1..i \/ k = i + 1
    BY <1>2
  <2>5. {e.key : e \in ToSet(s)} = {s[k].key : k \in 1..m}
    BY <2>2 DEF Of
  <2> HIDE DEF s, m, start
  <2>6. CASE ~(m < 3 /\ d.text \in legal /\ d.key \notin Seen \cup {s[k].key : k \in 1..m})
    <3>1. t[i + 1] = s
      BY <2>1, <2>5, <2>6 DEF AddOne, m
    <3>2. m < 3 => (d.text \in legal => d.key \in Seen \/ \E k \in 1..m : s[k].key = d.key)
      BY <2>6
    <3>3. AddFits(s, list, legal, i + 1)
      <4>1. start <= m /\ m <= 3 /\ Different(s) /\ \A k \in 1..start : s[k] = distractors[k]
        BY <2>3 DEF Different, m
      <4>2. \A k \in 1..m : k > start => \E l \in 1..(i + 1) : s[k] = list[l] /\ list[l].text \in legal /\ list[l].key \notin Seen
        BY <2>3, <2>4
      <4>3. m < 3 => \A l \in 1..(i + 1) : list[l].text \in legal => list[l].key \in Seen \/ \E k \in 1..m : s[k].key = list[l].key
        BY <2>3, <2>4, <3>2
      <4> QED
        BY <4>1, <4>2, <4>3 DEF AddFits, m, start
    <3> QED
      BY <2>2, <3>1, <3>3
  <2>7. CASE m < 3 /\ d.text \in legal /\ d.key \notin Seen \cup {s[k].key : k \in 1..m}
    <3>1. t[i + 1] = more
      BY <2>1, <2>5, <2>7 DEF AddOne, m
    <3>2. more \in Seq(E) /\ Len(more) = m + 1 /\ more[m + 1] = d /\ \A k \in 1..m : more[k] = s[k]
      BY <2>1, <2>2, Appended DEF m
    <3> HIDE DEF more
    <3>3. \A k : k \in 1..(m + 1) <=> k \in 1..m \/ k = m + 1
      BY <2>2
    <3>4. Different(more)
      <4> SUFFICES ASSUME NEW k \in 1..(m + 1), NEW l \in 1..(m + 1), more[k].key = more[l].key PROVE k = l
        BY <3>2 DEF Different
      <4>1. (k \in 1..m \/ k = m + 1) /\ (l \in 1..m \/ l = m + 1)
        BY <3>3
      <4> QED
        BY <2>3, <2>7, <3>2, <4>1
    <3>5. \A k \in 1..start : more[k] = distractors[k]
      <4>1. \A k \in 1..start : k \in 1..m
        BY <2>2, <2>3
      <4> QED
        BY <2>3, <3>2, <4>1
    <3>6. \A k \in 1..(m + 1) : k > start => \E l \in 1..(i + 1) : more[k] = list[l] /\ list[l].text \in legal /\ list[l].key \notin Seen
      <4> SUFFICES ASSUME NEW k \in 1..(m + 1), k > start
                   PROVE  \E l \in 1..(i + 1) : more[k] = list[l] /\ list[l].text \in legal /\ list[l].key \notin Seen
        OBVIOUS
      <4>1. CASE k \in 1..m
        BY <2>3, <2>4, <3>2, <4>1
      <4>2. CASE k = m + 1
        <5>1. i + 1 \in 1..(i + 1) /\ more[k] = list[i + 1] /\ list[i + 1].text \in legal /\ list[i + 1].key \notin Seen
          BY <2>4, <2>7, <3>2, <4>2
        <5> QED
          BY <5>1
      <4> QED
        BY <3>3, <4>1, <4>2
    <3>7. \A l \in 1..(i + 1) : list[l].text \in legal => list[l].key \in Seen \/ \E k \in 1..(m + 1) : more[k].key = list[l].key
      <4> SUFFICES ASSUME NEW l \in 1..(i + 1), list[l].text \in legal, list[l].key \notin Seen
                   PROVE  \E k \in 1..(m + 1) : more[k].key = list[l].key
        OBVIOUS
      <4>1. CASE l \in 1..i
        <5>1. PICK k \in 1..m : s[k].key = list[l].key
          BY <2>3, <2>7, <4>1
        <5> QED
          BY <3>2, <3>3, <5>1
      <4>2. CASE l = i + 1
        BY <3>2, <3>3, <4>2
      <4> QED
        BY <2>4, <4>1, <4>2
    <3>8. start <= m + 1 /\ m + 1 <= 3
      BY <2>2, <2>3, <2>7
    <3>9. AddFits(more, list, legal, i + 1)
      BY <3>2, <3>4, <3>5, <3>6, <3>7, <3>8 DEF AddFits, start
    <3> QED
      BY <3>1, <3>2, <3>9
  <2> QED
    BY <2>6, <2>7
<1> HIDE DEF Right
<1>5. 0 \in P /\ \A i \in 0..(Len(list) - 1) : i \in P => i + 1 \in P
  BY <1>2, <1>3, <1>4
<1>6. \A i \in 0..Len(list) : i \in P
  <2> HIDE DEF P
  <2> QED
    BY <1>2, <1>5, Climb
<1>7. Right(Len(list))
  BY <1>2, <1>6
<1> QED
  BY <1>1, <1>7 DEF Right

\* What a row gave: nothing if all its meanings were seen, else its first unseen one.
Gave(before, list, e) ==
    \/ \A k \in 1..Len(e.meanings) : e.meanings[k] \in before
    \/ \E k \in 1..Len(e.meanings), i \in 1..Len(list) :
        /\ e.meanings[k] \notin before /\ \A j \in 1..(k - 1) : e.meanings[j] \in before
        /\ list[i].text = e.meanings[k] /\ list[i].from = e.word

\* What a pass has offered: texts that were not seen, each once, and what it gave for
\* each of the entries it looked at.
OfferFits(acc) ==
    /\ acc.seen = Seen \cup {acc.list[i].text : i \in 1..Len(acc.list)}
    /\ \A i, j \in 1..Len(acc.list) : acc.list[i].text = acc.list[j].text => i = j
    /\ \A e \in acc.read : \E before \in SUBSET acc.seen : Seen \subseteq before /\ Gave(before, acc.list, e)

\* The next row, if the pass looks at it.
LEMMA OfferMore ==
    ASSUME NEW E, Words(E), NEW s \in Passes(Seen, E), OfferFits(s), NEW e \in E
    PROVE  OfferFits(OfferOne(s, e))
<1> DEFINE u == OfferOne(s, e)
           unseen == Without(e.meanings, s.seen)
           n == Len(s.list)
           words == e.meanings
<1>1. words \in Seq(ToSet(words))
  BY DEF Words
<1>2. s.list \in Seq(Rows(E)) /\ n \in Nat
  BY DEF Passes
<1>3. /\ s.seen = Seen \cup {s.list[k].text : k \in 1..n}
      /\ \A k, l \in 1..n : s.list[k].text = s.list[l].text => k = l
      /\ \A d \in s.read : \E before \in SUBSET s.seen : Seen \subseteq before /\ Gave(before, s.list, d)
  BY DEF OfferFits
<1>4. CASE n = EntryLimit
  BY <1>4 DEF OfferOne
<1>5. CASE n # EntryLimit /\ unseen = <<>>
  <2>1. u.seen = s.seen /\ u.list = s.list /\ u.read = s.read \cup {e}
    BY <1>5 DEF OfferOne, Passes
  <2>2. \A k \in 1..Len(words) : words[k] \in s.seen
    <3> HIDE DEF words
    <3> QED
      BY <1>1, <1>5, FirstLeft DEF words
  <2>3. Seen \subseteq s.seen /\ Gave(s.seen, s.list, e)
    BY <1>3, <2>2 DEF Gave
  <2> HIDE DEF u
  <2>4. /\ u.seen = Seen \cup {u.list[k].text : k \in 1..Len(u.list)}
        /\ \A k, l \in 1..Len(u.list) : u.list[k].text = u.list[l].text => k = l
    BY <1>3, <2>1
  <2>5. \A d \in u.read : \E before \in SUBSET u.seen : Seen \subseteq before /\ Gave(before, u.list, d)
    BY <1>3, <2>1, <2>3
  <2>6. OfferFits(u)
    BY <2>4, <2>5 DEF OfferFits
  <2> QED
    BY <2>6 DEF u
<1>6. CASE n # EntryLimit /\ unseen # <<>>
  <2> DEFINE new == RowOf(unseen[1], e.word)
             more == Append(s.list, new)
  <2>1. PICK k \in 1..Len(words) : words[k] \notin s.seen /\ unseen[1] = words[k] /\ \A j \in 1..(k - 1) : words[j] \in s.seen
    <3> HIDE DEF words
    <3> QED
      BY <1>1, <1>6, FirstLeft DEF words
  <2>2. u = [seen |-> s.seen \cup {unseen[1]}, read |-> s.read \cup {e}, list |-> more]
    BY <1>6 DEF OfferOne, RowOf
  <2>3. new.text = unseen[1] /\ new.from = e.word
    BY DEF RowOf
  <2> HIDE DEF new, unseen, u
  <2>4. Len(more) = n + 1 /\ more[n + 1] = new /\ \A l \in 1..n : more[l] = s.list[l]
    <3>1. s.list \in Seq(Rows(E) \cup {new}) /\ new \in Rows(E) \cup {new}
      BY <1>2
    <3> QED
      BY <3>1, Appended
  <2>5. \A l : l \in 1..(n + 1) <=> l \in 1..n \/ l = n + 1
    BY <1>2
  <2>6. u.seen = s.seen \cup {unseen[1]} /\ u.list = more /\ u.read = s.read \cup {e}
    BY <2>2
  <2> HIDE DEF more, n, words
  <2>7. {more[l].text : l \in 1..(n + 1)} = {s.list[l].text : l \in 1..n} \cup {unseen[1]}
    BY <2>3, <2>4, <2>5
  <2>8. \A l, m \in 1..(n + 1) : more[l].text = more[m].text => l = m
    <3> SUFFICES ASSUME NEW l \in 1..(n + 1), NEW m \in 1..(n + 1), more[l].text = more[m].text PROVE l = m
      OBVIOUS
    <3>1. (l \in 1..n \/ l = n + 1) /\ (m \in 1..n \/ m = n + 1)
      BY <2>5
    <3>2. \A o \in 1..n : s.list[o].text # unseen[1]
      BY <1>3, <2>1
    <3> QED
      BY <1>3, <2>3, <2>4, <3>1, <3>2
  <2>9. Seen \subseteq s.seen /\ Gave(s.seen, more, e)
    <3>1. n + 1 \in 1..Len(more) /\ more[n + 1].text = words[k] /\ more[n + 1].from = e.word
      BY <2>1, <2>3, <2>4, <2>5
    <3> QED
      BY <1>3, <2>1, <3>1 DEF Gave, words
  <2>10. ASSUME NEW d \in s.read PROVE \E before \in SUBSET u.seen : Seen \subseteq before /\ Gave(before, more, d)
    <3>1. PICK before \in SUBSET s.seen : Seen \subseteq before /\ Gave(before, s.list, d)
      BY <1>3
    <3>2. \A m \in 1..Len(s.list) : m \in 1..Len(more) /\ more[m] = s.list[m]
      BY <2>4, <2>5 DEF n
    <3>3. Gave(before, more, d)
      BY <3>1, <3>2 DEF Gave
    <3> QED
      BY <2>6, <3>1, <3>3
  <2>11. \A d \in u.read : \E before \in SUBSET u.seen : Seen \subseteq before /\ Gave(before, more, d)
    BY <2>6, <2>9, <2>10
  <2>12. u.seen = Seen \cup {u.list[l].text : l \in 1..Len(u.list)}
    <3>1. u.seen = Seen \cup {s.list[l].text : l \in 1..n} \cup {unseen[1]}
      BY <1>3, <2>6
    <3>2. {u.list[l].text : l \in 1..Len(u.list)} = {more[l].text : l \in 1..(n + 1)}
      BY <2>4, <2>6
    <3> QED
      BY <2>7, <3>1, <3>2
  <2>13. \A l, m \in 1..Len(u.list) : u.list[l].text = u.list[m].text => l = m
    BY <2>4, <2>6, <2>8
  <2>14. OfferFits(u)
    BY <2>6, <2>11, <2>12, <2>13 DEF OfferFits
  <2> QED
    BY <2>14 DEF u
<1> QED
  BY <1>4, <1>5, <1>6

LEMMA OfferMakes ==
    ASSUME NEW E, Words(E), NEW list \in Seq(E)
    PROVE  Offering(list) \in Passes(Seen, E) /\ OfferFits(Offering(list))
<1>0. PICK t : OfferRun(t, list)
  BY OfferRuns, Zenon
<1>1. /\ t[0] = [seen |-> Seen, read |-> {}, list |-> <<>>]
      /\ \A i \in 1..Len(list) : t[i] = OfferOne(t[i - 1], list[i])
      /\ Offering(list) = t[Len(list)]
  BY <1>0 DEF OfferRun
<1>2. Len(list) \in Nat /\ \A i \in 1..Len(list) : list[i] \in E
  OBVIOUS
<1> DEFINE Right(i) == t[i] \in Passes(Seen, E) /\ OfferFits(t[i])
           P == {i \in 0..Len(list) : Right(i)}
<1>3. Right(0)
  <2>1. t[0] \in Passes(Seen, E) /\ t[0].seen = Seen /\ t[0].list = <<>> /\ t[0].read = {}
    BY <1>1 DEF Passes
  <2> QED
    BY <2>1 DEF OfferFits
<1>4. ASSUME NEW i \in 0..(Len(list) - 1), Right(i) PROVE Right(i + 1)
  <2>1. i + 1 \in 1..Len(list) /\ i + 1 - 1 = i
    BY <1>2
  <2>2. t[i + 1] = OfferOne(t[i], list[i + 1]) /\ list[i + 1] \in E
    BY <1>1, <1>2, <2>1
  <2>3. OfferOne(t[i], list[i + 1]) \in Passes(Seen, E)
    BY <1>4, <2>2, OfferTypes
  <2>4. OfferFits(OfferOne(t[i], list[i + 1]))
    BY <1>4, <2>2, OfferMore
  <2> QED
    BY <2>2, <2>3, <2>4
<1> HIDE DEF Right
<1>5. 0 \in P /\ \A i \in 0..(Len(list) - 1) : i \in P => i + 1 \in P
  BY <1>2, <1>3, <1>4
<1>6. \A i \in 0..Len(list) : i \in P
  <2> HIDE DEF P
  <2> QED
    BY <1>2, <1>5, Climb
<1>7. Right(Len(list))
  BY <1>2, <1>6
<1> QED
  BY <1>1, <1>7 DEF Right

-----------------------------------------------------------------------------
(* Questions: what a search has found so far.                              *)

KeysIn(ds) == {ds[i].key : i \in 1..Len(ds)} \cup {Normal[Target.answer]}
FromEntry(d, e) == d.source = "ecdict" /\ (d.from = e.word \/ (d.key \in ToSet(e.meanings) /\ d.text # d.key))

OffersStill(e, seen) ==
    \E k \in 1..Len(e.meanings) :
        /\ e.meanings[k] \notin seen /\ e.meanings[k] \in Chinese /\ Normal[e.meanings[k]] \notin seen
        /\ \A j \in 1..(k - 1) : e.meanings[j] \in seen

\* The stages before s leave no answer of a considered card behind that fits them; a
\* card's answer is of such a stage, and the dictionary's come after all of them.  An
\* entry that could give more after the last pass over the dictionary, which read looked
\* at, gave one or was given in another spelling.
Search(ds, s, read) ==
    /\ ds \in Seq(Of(ds)) /\ Len(ds) < 3 /\ Different(ds)
    /\ \A i \in 1..Len(ds) : ds[i].text \in Visible /\ ds[i].key = Normal[ds[i].text] /\ ds[i].key # Normal[Target.answer]
    /\ \A c \in considered, r \in 1..6 : r < s /\ Fits(c, r) /\ c.answer \in Visible => Normal[c.answer] \in KeysIn(ds)
    /\ \A i \in 1..Len(ds) :
        \/ ds[i].source = "ecdict" /\ s > 7
        \/ ds[i].source = "user_card" /\ \E r \in 1..6 : r < s /\ \E c \in considered : c.id = ds[i].from /\ Fits(c, r)
    /\ s = 11 => \A e \in read : OffersStill(e, KeysIn(ds)) => \E i \in 1..Len(ds) : FromEntry(ds[i], e)

\* The cards of the query: all that the user has, up to the limit.
Considers == considered \in SUBSET Others /\ (Cardinality(Others) <= CardLimit => considered = Others)

QuestionInv ==
    /\ bank \in Banks /\ lexicon \in Lexicons
    /\ waiting \in Seq(bank) /\ picked \in Seq(bank) /\ picked \o waiting = Candidates(bank)
    /\ stage \in -1..12
    /\ stage \in 0..11 => waiting # <<>>
    /\ reached \in SUBSET lexicon
    /\ stage = 0 => distractors = <<>>
    /\ stage \in 1..11 => Considers /\ Search(distractors, stage, reached)
    /\ stage = Opened => Len(picked) >= Wanted \/ waiting = <<>>

LEMMA SeenIs == ASSUME NEW E, distractors \in Seq(E) PROVE Seen = KeysIn(distractors) /\ ToSet(distractors) = Of(distractors)
<1>1. ToSet(distractors) = Of(distractors)
  BY OfIs
<1> QED
  BY <1>1 DEF Seen, Keys, KeysIn, Of

LEMMA OffersIs ==
    ASSUME lexicon \in Lexicons, NEW e \in lexicon
    PROVE  Offers(e) <=> OffersStill(e, Seen)
<1> DEFINE s == e.meanings
           unseen == Without(s, Seen)
<1>1. s \in Seq(ToSet(s))
  BY DictionaryAssumption
<1>2. Offers(e) <=> unseen # <<>> /\ unseen[1] \in Chinese /\ Normal[unseen[1]] \notin Seen
  BY DEF Offers
<1>3. OffersStill(e, Seen) <=>
        \E k \in 1..Len(s) : s[k] \notin Seen /\ s[k] \in Chinese /\ Normal[s[k]] \notin Seen /\ \A j \in 1..(k - 1) : s[j] \in Seen
  BY DEF OffersStill
<1> HIDE DEF s
<1>4. /\ unseen = <<>> => \A k \in 1..Len(s) : s[k] \in Seen
      /\ unseen # <<>> => \E k \in 1..Len(s) : s[k] \notin Seen /\ unseen[1] = s[k] /\ \A j \in 1..(k - 1) : s[j] \in Seen
  BY <1>1, FirstLeft
<1> HIDE DEF unseen
<1>5. Len(s) \in Nat
  BY <1>1
<1>6. ASSUME NEW k \in 1..Len(s), NEW l \in 1..Len(s), s[k] \notin Seen, s[l] \notin Seen,
             \A j \in 1..(k - 1) : s[j] \in Seen, \A j \in 1..(l - 1) : s[j] \in Seen
      PROVE  k = l
  <2>1. ~(k < l)
    BY <1>6
  <2>2. ~(l < k)
    BY <1>6
  <2> QED
    BY <2>1, <2>2
<1> QED
  BY <1>2, <1>3, <1>4, <1>6

LEMMA CandidatesAre == ASSUME NEW cards \in Banks PROVE Candidates(cards) \in Seq(cards)
<1> DEFINE ones == {c \in cards : c.eligible /\ c.due # NoValue}
           before == {p \in ones \X ones : Earlier(p[1], p[2])}
           n == Cardinality(ones)
           row == SortedBy(ones, before)
           m == IF n < 3 * Wanted THEN n ELSE 3 * Wanted
<1>1. IsFiniteSet(ones) /\ n \in Nat
  BY BankAssumption, FS_Subset, FS_CardinalityType
<1>2. \A c \in ones : c \in cards /\ c.id \in Int /\ c.due \in Int
  BY BankAssumption
<1>3. \A c, d \in ones : c.id = d.id => c = d
  BY BankAssumption
<1>4. \A c, d \in ones : <<c, d>> \in before <=> IF c.due = d.due THEN c.id < d.id ELSE c.due < d.due
  BY DEF Earlier
<1>5. ones \subseteq cards
  OBVIOUS
<1> HIDE DEF before, ones
<1>6. Orders(before, ones)
  <2>1. \A c \in ones : <<c, c>> \notin before
    BY <1>2, <1>4
  <2>2. \A c, d \in ones : c # d => <<c, d>> \in before \/ <<d, c>> \in before
    BY <1>2, <1>3, <1>4
  <2>3. \A c, d, e \in ones : <<c, d>> \in before /\ <<d, e>> \in before => <<c, e>> \in before
    BY <1>2, <1>4
  <2> QED
    BY <2>1, <2>2, <2>3 DEF Orders
<1>7. row \in Seq(ones) /\ Len(row) = n
  BY <1>1, <1>6, SortedByLists
<1>8. m \in Nat /\ m <= n
  BY <1>1, QuestionAssumption
<1>9. Candidates(cards) = SubSeq(row, 1, m)
  BY DEF Candidates, ones, before
<1> HIDE DEF row, m
<1>10. SubSeq(row, 1, m) \in Seq(ones)
  BY <1>7, <1>8, Shortened
<1> QED
  BY <1>5, <1>9, <1>10

LEMMA QuestionBegins == QuestionInit => QuestionInv
<1> SUFFICES ASSUME QuestionInit PROVE QuestionInv
  OBVIOUS
<1>1. bank \in Banks /\ lexicon \in Lexicons /\ waiting = Candidates(bank) /\ picked = <<>> /\ distractors = <<>> /\ reached = {}
  BY DEF QuestionInit
<1>2. waiting \in Seq(bank) /\ picked \in Seq(bank) /\ picked \o waiting = Candidates(bank)
  BY <1>1, CandidatesAre
<1>3. stage = IF waiting = <<>> THEN 12 ELSE 0
  BY DEF QuestionInit, Opened
<1> QED
  BY <1>1, <1>2, <1>3 DEF QuestionInv, Opened

\* The query gives cards of the user, and all of them if they are few; then the search
\* begins with nothing.
LEMMA FetchBegins == ASSUME QuestionInv, FetchCards PROVE QuestionInv'
<1>1. /\ bank \in Banks /\ lexicon \in Lexicons /\ distractors = <<>> /\ waiting # <<>>
      /\ waiting \in Seq(bank) /\ picked \in Seq(bank) /\ picked \o waiting = Candidates(bank)
  BY DEF QuestionInv, FetchCards
<1>2. /\ bank' = bank /\ lexicon' = lexicon /\ waiting' = waiting /\ picked' = picked
      /\ distractors' = distractors /\ stage' = 1 /\ considered' \in LimitedTo(CardLimit, Others)
  BY DEF FetchCards, Goes, SameCards
<1>3. Others' = Others
  BY <1>2 DEF Others, Target
<1>4. considered' \in SUBSET Others
  BY <1>2 DEF LimitedTo
<1>5. ASSUME Cardinality(Others) <= CardLimit PROVE considered' = Others
  <2>1. IsFiniteSet(Others) /\ Cardinality(Others) \in Nat
    BY <1>1, BankAssumption, FS_Subset, FS_CardinalityType DEF Others
  <2>2. CardLimit \in Nat
    BY QuestionAssumption
  <2>3. Cardinality(considered') = Cardinality(Others)
    BY <1>2, <1>5, <2>1, <2>2 DEF LimitedTo
  <2> QED
    BY <1>4, <2>1, <2>3, FS_Subset
<1>6. Considers'
  BY <1>3, <1>4, <1>5 DEF Considers
<1>7. reached' \in SUBSET lexicon'
  BY <1>2 DEF FetchCards, QuestionInv
<1>8. Search(distractors, stage, reached)'
  BY <1>1, <1>2 DEF Search, Different, Of
<1> QED
  BY <1>1, <1>2, <1>6, <1>7, <1>8 DEF QuestionInv, Opened

\* How a stage ends: with three answers the card is taken, with less the search goes on.
LEMMA StageEnds ==
    ASSUME QuestionInv, stage \in 1..10, NEW found, NEW read \in SUBSET lexicon, Continue(found, read), SameCards,
           Len(found) # 3 => Search(found, stage + 1, read)
    PROVE  QuestionInv'
<1>1. /\ bank \in Banks /\ lexicon \in Lexicons
      /\ waiting \in Seq(bank) /\ picked \in Seq(bank) /\ picked \o waiting = Candidates(bank)
      /\ waiting # <<>> /\ Considers
  BY DEF QuestionInv
<1>2. bank' = bank /\ lexicon' = lexicon
  BY DEF SameCards
<1>3. CASE Len(found) = 3
  <2>1. /\ picked' = Append(picked, Target) /\ distractors' = <<>> /\ waiting' = Tail(waiting) /\ reached' = {}
        /\ stage' = IF Len(picked') >= Wanted \/ Tail(waiting) = <<>> THEN 12 ELSE 0
    BY <1>3 DEF Continue, Goes, Opened
  <2>2. waiting' \in Seq(bank) /\ picked' \in Seq(bank) /\ picked' \o waiting' = picked \o waiting
    <3>1. waiting \in Seq(bank) /\ picked \in Seq(bank) /\ waiting # <<>>
      BY <1>1
    <3>2. picked' = Append(picked, Head(waiting)) /\ waiting' = Tail(waiting)
      BY <2>1 DEF Target
    <3> QED
      BY <3>1, <3>2, SMTT(30)
  <2>3. stage' = 0 => waiting' # <<>>
    BY <2>1
  <2> QED
    BY <1>1, <1>2, <2>1, <2>2, <2>3 DEF QuestionInv, Opened
<1>4. CASE Len(found) # 3
  <2>1. /\ distractors' = found /\ stage' = stage + 1 /\ waiting' = waiting /\ picked' = picked
        /\ considered' = considered /\ reached' = read
    BY <1>4 DEF Continue, Goes
  <2>2. Search(found, stage + 1, read)
    BY <1>4
  <2>3. Target' = Target /\ Others' = Others
    BY <1>2, <2>1 DEF Target, Others
  <2>4. \A c, r : Fits(c, r)' <=> Fits(c, r)
    BY <2>3 DEF Fits, SameType, SamePos, CloseFreq, HasDistance, Distance
  <2>5. \A ds : KeysIn(ds)' = KeysIn(ds)
    BY <2>3 DEF KeysIn
  <2>6. Search(distractors, stage, reached)'
    BY <2>1, <2>2, <2>3, <2>4, <2>5 DEF Search, OffersStill
  <2>7. Considers'
    BY <1>1, <2>1, <2>3 DEF Considers
  <2> QED
    BY <1>1, <1>2, <2>1, <2>6, <2>7 DEF QuestionInv, Opened
<1> QED
  BY <1>3, <1>4

\* What a pass keeps of what was found.
PassFits(found, list, legal) ==
    /\ found \in Seq(Of(found)) /\ Len(found) < 3 /\ Different(found)
    /\ \A i \in 1..Len(found) : found[i].text \in Visible /\ found[i].key = Normal[found[i].text] /\ found[i].key # Normal[Target.answer]
    /\ Len(distractors) <= Len(found) /\ Len(distractors) \in Nat /\ Len(found) \in Nat
    /\ \A i \in 1..Len(distractors) : i \in 1..Len(found) /\ found[i] = distractors[i]
    /\ \A i \in 1..Len(found) : i > Len(distractors) =>
         \E k \in 1..Len(list) : found[i] = list[k] /\ list[k].text \in legal /\ list[k].key \notin Seen
    /\ Seen \subseteq KeysIn(found)
    /\ \A k \in 1..Len(list) : list[k].text \in legal => list[k].key \in KeysIn(found)

LEMMA SearchGoesOn ==
    ASSUME NEW s \in 1..10, Search(distractors, s, reached), NEW E, NEW list \in Seq(E), \A k \in 1..Len(list) : list[k].key = Normal[list[k].text], distractors \in Seq(E),
           NEW legal \in SUBSET Visible, NEW found, found = Adding(list, legal), Len(found) # 3
    PROVE  PassFits(found, list, legal)
<1>1. /\ Len(distractors) < 3 /\ Different(distractors) /\ Seen = KeysIn(distractors)
      /\ \A i \in 1..Len(distractors) : distractors[i].text \in Visible /\ distractors[i].key = Normal[distractors[i].text] /\ distractors[i].key # Normal[Target.answer]
  BY SeenIs DEF Search
<1>a. Len(distractors) <= 3
  BY <1>1
<1>2. found \in Seq(E) /\ AddFits(found, list, legal, Len(list))
  BY <1>a, <1>1, AddMakes
<1>3. Len(found) \in Nat /\ Len(distractors) \in Nat
  BY <1>2
<1> DEFINE m == Len(found)
           start == Len(distractors)
<1>4. /\ start <= m /\ m < 3 /\ Different(found)
      /\ \A i \in 1..start : found[i] = distractors[i]
      /\ \A i \in 1..m : i > start => \E k \in 1..Len(list) : found[i] = list[k] /\ list[k].text \in legal /\ list[k].key \notin Seen
      /\ \A k \in 1..Len(list) : list[k].text \in legal => list[k].key \in Seen \/ \E i \in 1..m : found[i].key = list[k].key
  <2>1. /\ Len(distractors) <= Len(found) /\ Len(found) <= 3 /\ Different(found)
        /\ \A i \in 1..Len(distractors) : found[i] = distractors[i]
        /\ \A i \in 1..Len(found) : i > Len(distractors) =>
            \E k \in 1..Len(list) : found[i] = list[k] /\ list[k].text \in legal /\ list[k].key \notin Seen
        /\ Len(found) < 3 => \A k \in 1..Len(list) : list[k].text \in legal =>
            list[k].key \in Seen \/ \E i \in 1..Len(found) : found[i].key = list[k].key
    BY <1>2, Zenon DEF AddFits
  <2>2. Len(found) <= 3
    BY <2>1, Zenon
  <2>3. \A n \in Nat : n <= 3 /\ n # 3 => n < 3
    OBVIOUS
  <2>4. Len(found) < 3
    BY <1>3, <2>2, <2>3, Zenon
  <2> QED
    BY <2>1, <2>4, Zenon
<1>5. found \in Seq(Of(found))
  <2>1. \A i \in 1..Len(found) : found[i] \in Of(found)
    BY DEF Of
  <2>2. found = [i \in 1..Len(found) |-> found[i]]
    BY <1>2
  <2> QED
    BY <1>3, <2>1, <2>2
<1> HIDE DEF m, start
<1>6. \A i \in 1..m : i \in 1..start \/ i > start
  BY <1>3 DEF start, m
<1>7. \A i \in 1..start : i \in 1..m
  BY <1>3, <1>4 DEF start, m
<1>8. \A i \in 1..m : found[i].text \in Visible /\ found[i].key = Normal[found[i].text] /\ found[i].key # Normal[Target.answer]
  BY <1>1, <1>4, <1>6 DEF Seen, start
<1>9. Seen \subseteq KeysIn(found)
  BY <1>1, <1>4, <1>7 DEF KeysIn, start, m
<1>10. \A k \in 1..Len(list) : list[k].text \in legal => list[k].key \in KeysIn(found)
  BY <1>4, <1>9 DEF KeysIn, m
<1> QED
  BY <1>3, <1>4, <1>5, <1>7, <1>8, <1>9, <1>10 DEF m, start, PassFits

\* A set of cards in the order of their frequency.
LEMMA NearerSorts ==
    ASSUME bank \in Banks, NEW S \in SUBSET bank
    PROVE  LET row == SortedBy(S, {p \in S \X S : Nearer(p[1], p[2])}) IN
           row \in Seq(S) /\ \A c \in S : \E n \in 1..Len(row) : row[n] = c
<1> DEFINE before == {p \in S \X S : Nearer(p[1], p[2])}
           row == SortedBy(S, before)
<1>1. IsFiniteSet(S)
  BY BankAssumption, FS_Subset
<1>2. \A c \in S : c.id \in Int
  BY BankAssumption
<1>3. \A c, d \in S : c.id = d.id => c = d
  BY BankAssumption
<1>4. \A c \in S : FreqScore(c) \in Int
  BY DEF FreqScore
<1>5. \A c, d \in S : <<c, d>> \in before <=> IF FreqScore(c) = FreqScore(d) THEN c.id > d.id ELSE FreqScore(c) > FreqScore(d)
  BY DEF Nearer
<1> HIDE DEF before
<1>6. Orders(before, S)
  <2>1. \A c \in S : <<c, c>> \notin before
    BY <1>2, <1>5
  <2>2. \A c, d \in S : c # d => <<c, d>> \in before \/ <<d, c>> \in before
    BY <1>2, <1>3, <1>4, <1>5
  <2>3. \A c, d, e \in S : <<c, d>> \in before /\ <<d, e>> \in before => <<c, e>> \in before
    BY <1>2, <1>4, <1>5
  <2> QED
    BY <2>1, <2>2, <2>3 DEF Orders
<1>7. row \in Seq(S) /\ Len(row) = Cardinality(S) /\ \A c \in S : \E n \in 1..Cardinality(S) : row[n] = c
  BY <1>1, <1>6, SortedByLists
<1> HIDE DEF row
<1>8. row \in Seq(S) /\ \A c \in S : \E n \in 1..Len(row) : row[n] = c
  BY <1>7
<1> QED
  BY <1>8 DEF row, before

LEMMA CardsGoOn == ASSUME QuestionInv, CardStage PROVE QuestionInv'
<1> DEFINE fitting == {c \in considered : Fits(c, stage)}
           rows == SortedBy(fitting, {p \in fitting \X fitting : Nearer(p[1], p[2])})
           answer(c) == [text |-> c.answer, key |-> Normal[c.answer], source |-> "user_card", from |-> c.id]
           list == [n \in DOMAIN rows |-> answer(rows[n])]
           found == FoundByCards
           E == Of(distractors) \cup {answer(c) : c \in fitting}
<1>1. stage \in 1..6 /\ Continue(found, {}) /\ SameCards
  BY DEF CardStage
<1>2. bank \in Banks /\ considered \in SUBSET Others /\ Search(distractors, stage, reached)
  BY <1>1 DEF QuestionInv, Considers
<1>3. fitting \in SUBSET bank /\ fitting \in SUBSET considered /\ \A c \in considered : c \in fitting <=> Fits(c, stage)
  BY <1>2 DEF Others
<1> HIDE DEF fitting
<1>4. rows \in Seq(fitting) /\ \A c \in fitting : \E n \in 1..Len(rows) : rows[n] = c
  BY <1>2, <1>3, NearerSorts
<1>5. found = Adding(list, Visible)
  BY DEF FoundByCards, fitting
<1> HIDE DEF rows
<1>6. /\ list \in Seq({answer(c) : c \in fitting}) /\ Len(list) = Len(rows)
      /\ \A n \in 1..Len(rows) : list[n] = answer(rows[n]) /\ rows[n] \in fitting
  <2>1. DOMAIN rows = 1..Len(rows) /\ Len(rows) \in Nat /\ \A n \in 1..Len(rows) : rows[n] \in fitting
    BY <1>4
  <2>2. list = [n \in 1..Len(rows) |-> answer(rows[n])]
    BY <2>1
  <2>3. \A n \in 1..Len(rows) : answer(rows[n]) \in {answer(c) : c \in fitting}
    BY <2>1
  <2> HIDE DEF list
  <2> QED
    BY <2>1, <2>2, <2>3
<1>7. distractors \in Seq(E) /\ list \in Seq(E)
  <2>1. distractors \in Seq(Of(distractors))
    BY <1>2 DEF Search
  <2> HIDE DEF list
  <2> QED
    BY <1>6, <2>1
<1> HIDE DEF list, found, E
<1>8. ASSUME Len(found) # 3 PROVE Search(found, stage + 1, {})
  <2>0. stage \in 1..10
    BY <1>1
  <2>1. /\ found \in Seq(Of(found)) /\ Len(found) < 3 /\ Different(found)
        /\ \A i \in 1..Len(found) : found[i].text \in Visible /\ found[i].key = Normal[found[i].text] /\ found[i].key # Normal[Target.answer]
        /\ Len(distractors) \in Nat /\ Len(found) \in Nat
        /\ \A i \in 1..Len(distractors) : i \in 1..Len(found) /\ found[i] = distractors[i]
        /\ \A i \in 1..Len(found) : i > Len(distractors) =>
            \E k \in 1..Len(list) : found[i] = list[k] /\ list[k].text \in Visible /\ list[k].key \notin Seen
        /\ Seen \subseteq KeysIn(found)
        /\ \A k \in 1..Len(list) : list[k].text \in Visible => list[k].key \in KeysIn(found)
    <3>1. Visible \in SUBSET Visible
      OBVIOUS
    <3>2. \A k \in 1..Len(list) : list[k].key = Normal[list[k].text]
      BY <1>6
    <3>3. PassFits(found, list, Visible)
      BY <1>2, <1>5, <1>7, <1>8, <2>0, <3>1, <3>2, SearchGoesOn
    <3> QED
      BY <3>3, Zenon DEF PassFits
  <2>2. ASSUME NEW c \in considered, NEW r \in 1..6, r < stage + 1, Fits(c, r), c.answer \in Visible
        PROVE  Normal[c.answer] \in KeysIn(found)
    <3>1. CASE r < stage
      <4>1. Normal[c.answer] \in KeysIn(distractors)
        BY <1>2, <2>2, <3>1 DEF Search
      <4>2. Normal[c.answer] \in Seen
        BY <1>7, <4>1, SeenIs
      <4> QED
        BY <2>1, <4>2
    <3>2. CASE r = stage
      <4>1. PICK n \in 1..Len(rows) : rows[n] = c
        BY <1>3, <1>4, <2>2, <3>2
      <4>2. n \in 1..Len(list) /\ list[n] = answer(c)
        BY <1>6, <4>1
      <4>3. list[n].key = Normal[c.answer] /\ list[n].text = c.answer
        BY <4>2
      <4> QED
        BY <2>1, <2>2, <4>2, <4>3
    <3> QED
      BY <1>1, <2>2, <3>1, <3>2
  <2>3. ASSUME NEW i \in 1..Len(found)
        PROVE  \/ found[i].source = "ecdict" /\ stage + 1 > 7
               \/ /\ found[i].source = "user_card"
                  /\ \E r \in 1..6 : r < stage + 1 /\ \E c \in considered : c.id = found[i].from /\ Fits(c, r)
    <3>1. CASE i \in 1..Len(distractors)
      <4>1. found[i] = distractors[i]
        BY <2>1, <3>1
      <4>2. \/ distractors[i].source = "ecdict" /\ stage > 7
            \/ /\ distractors[i].source = "user_card"
               /\ \E r \in 1..6 : r < stage /\ \E c \in considered : c.id = distractors[i].from /\ Fits(c, r)
        BY <1>2, <3>1 DEF Search
      <4>3. \A r \in 1..6 : r < stage => r < stage + 1
        BY <1>1
      <4>4. ~(stage > 7)
        BY <1>1
      <4> QED
        BY <4>1, <4>2, <4>3, <4>4
    <3>2. CASE i > Len(distractors)
      <4>1. PICK k \in 1..Len(list) : found[i] = list[k]
        BY <2>1, <3>2
      <4>2. found[i] = answer(rows[k]) /\ rows[k] \in fitting
        BY <1>6, <4>1
      <4>3. found[i].source = "user_card" /\ found[i].from = rows[k].id /\ rows[k] \in considered /\ Fits(rows[k], stage)
        BY <1>3, <4>2
      <4>4. stage < stage + 1
        BY <1>1
      <4> QED
        BY <1>1, <4>3, <4>4
    <3> QED
      BY <2>1, <3>1, <3>2
  <2>4. stage + 1 # 11
    BY <1>1
  <2> QED
    BY <2>1, <2>2, <2>3, <2>4 DEF Search
<1>9. stage \in 1..10
  BY <1>1
<1> QED
  BY <1>1, <1>8, <1>9, StageEnds

\* An entry that the pass looked at and that could still give an answer after it gave
\* one, or its meaning came from another entry in another spelling.
LEMMA PassExhausts ==
    ASSUME NEW pass \in Passes(Seen, lexicon), OfferFits(pass), Words(lexicon),
           NEW E, distractors \in Seq(E), pass.list \in Seq(E),
           NEW s \in 1..10, Search(distractors, s, reached),
           NEW found, found = Adding(pass.list, Chinese), Len(found) # 3,
           NEW e \in pass.read, OffersStill(e, KeysIn(found))
    PROVE  \E i \in 1..Len(found) : FromEntry(found[i], e)
<1> DEFINE list == pass.list
           words == e.meanings
           seen == KeysIn(found)
<1>1. e \in lexicon /\ list \in Seq(Rows(lexicon))
  BY DEF Passes
<1>2. /\ pass.seen = Seen \cup {list[i].text : i \in 1..Len(list)}
      /\ \A i, j \in 1..Len(list) : list[i].text = list[j].text => i = j
      /\ \A d \in pass.read : \E before \in SUBSET pass.seen : Seen \subseteq before /\ Gave(before, list, d)
  BY DEF OfferFits
<1>3. \A i \in 1..Len(list) : list[i].source = "ecdict" /\ list[i].key = Normal[list[i].text]
  <2>1. \A r \in Rows(lexicon) : r.source = "ecdict" /\ r.key = Normal[r.text]
    BY DEF Rows, RowOf
  <2>2. \A i \in 1..Len(list) : list[i] \in Rows(lexicon)
    BY <1>1
  <2> QED
    BY <2>1, <2>2
<1> HIDE DEF list
<1>4. PICK before \in SUBSET pass.seen : Seen \subseteq before /\ Gave(before, list, e)
  BY <1>2
<1>5. Chinese \in SUBSET Visible
  BY QuestionAssumption
<1>6. /\ Seen \subseteq seen
      /\ \A k \in 1..Len(list) : list[k].text \in Chinese => list[k].key \in seen
      /\ \A i \in 1..Len(distractors) : found[i] = distractors[i]
      /\ \A i \in 1..Len(found) : i > Len(distractors) => \E k \in 1..Len(list) : found[i] = list[k]
      /\ Len(distractors) \in Nat /\ Len(found) \in Nat
  <2>1. list \in Seq(E) /\ found = Adding(list, Chinese)
    BY DEF list
  <2>2. PassFits(found, list, Chinese)
    BY <1>3, <1>5, <2>1, SearchGoesOn
  <2>3. /\ Len(distractors) \in Nat /\ Len(found) \in Nat
        /\ \A i \in 1..Len(distractors) : i \in 1..Len(found) /\ found[i] = distractors[i]
        /\ \A i \in 1..Len(found) : i > Len(distractors) =>
             \E k \in 1..Len(list) : found[i] = list[k] /\ list[k].text \in Chinese /\ list[k].key \notin Seen
        /\ Seen \subseteq KeysIn(found)
        /\ \A k \in 1..Len(list) : list[k].text \in Chinese => list[k].key \in KeysIn(found)
    BY <2>2, Zenon DEF PassFits
  <2> QED
    BY <2>3, Zenon
<1>7. \A x \in before : x \in Chinese => x \in seen \/ Normal[x] \in seen
  BY <1>2, <1>3, <1>6
<1>8. words \in Seq(ToSet(words)) /\ Len(words) \in Nat
  BY <1>1 DEF Words
<1>9. PICK l \in 1..Len(words) : /\ words[l] \notin seen /\ words[l] \in Chinese /\ Normal[words[l]] \notin seen
                                 /\ \A j \in 1..(l - 1) : words[j] \in seen
  BY DEF OffersStill
<1>10. \A k \in 1..Len(words) : words[k] \in ToSet(words)
  BY <1>8
<1>11. \/ \A k \in 1..Len(words) : words[k] \in before
       \/ \E k \in 1..Len(words), i \in 1..Len(list) :
            /\ words[k] \notin before /\ \A j \in 1..(k - 1) : words[j] \in before
            /\ list[i].text = words[k] /\ list[i].from = e.word
  BY <1>4 DEF Gave
<1>12. \A d : FromEntry(d, e) <=> d.source = "ecdict" /\ (d.from = e.word \/ (d.key \in ToSet(words) /\ d.text # d.key))
  BY DEF FromEntry
<1> HIDE DEF words, seen
<1>13. ~(\A k \in 1..Len(words) : words[k] \in before)
  BY <1>7, <1>9
<1>14. PICK k \in 1..Len(words) : \E i \in 1..Len(list) :
            /\ words[k] \notin before /\ \A j \in 1..(k - 1) : words[j] \in before
            /\ list[i].text = words[k] /\ list[i].from = e.word
  BY <1>11, <1>13
<1>15. PICK i \in 1..Len(list) :
            /\ words[k] \notin before /\ \A j \in 1..(k - 1) : words[j] \in before
            /\ list[i].text = words[k] /\ list[i].from = e.word
  BY <1>14
<1>16. k < l
  <2>1. ASSUME l < k PROVE FALSE
    <3>1. l \in 1..(k - 1)
      BY <2>1
    <3> QED
      BY <1>7, <1>9, <1>15, <3>1
  <2>2. l # k
    BY <1>3, <1>6, <1>9, <1>15
  <2> QED
    BY <2>1, <2>2
<1>17. words[k] \in seen /\ words[k] \notin Seen
  <2>1. k \in 1..(l - 1)
    BY <1>16
  <2> QED
    BY <1>4, <1>9, <1>15, <2>1
<1>18. PICK p \in 1..Len(found) : found[p].key = words[k]
  <2>1. words[k] # Normal[Target.answer]
    BY <1>17 DEF Seen
  <2> QED
    BY <1>17, <2>1 DEF seen, KeysIn
<1>19. p > Len(distractors)
  <2>1. ASSUME p \in 1..Len(distractors) PROVE FALSE
    <3>1. found[p].key \in Seen
      <4>1. found[p] = distractors[p]
        BY <1>6, <2>1
      <4>2. Seen = KeysIn(distractors)
        BY SeenIs
      <4> QED
        BY <2>1, <4>1, <4>2 DEF KeysIn
    <3> QED
      BY <1>17, <1>18, <3>1
  <2> QED
    BY <1>6, <2>1
<1>20. PICK q \in 1..Len(list) : found[p] = list[q]
  BY <1>6, <1>19
<1>21. FromEntry(found[p], e)
  <2>1. found[p].source = "ecdict" /\ found[p].key \in ToSet(words)
    BY <1>3, <1>10, <1>18, <1>20
  <2>2. CASE found[p].text = found[p].key
    <3>1. q = i
      BY <1>2, <1>15, <1>18, <1>20, <2>2
    <3> QED
      BY <1>12, <1>15, <1>20, <2>1, <3>1
  <2> QED
    BY <1>12, <2>1, <2>2
<1> QED
  BY <1>21

LEMMA DictionaryGoesOn == ASSUME QuestionInv, DictionaryStage PROVE QuestionInv'
<1>1. stage \in 7..10 /\ SameCards
  BY DEF DictionaryStage
<1>2. PICK rows \in LimitedTo(RowLimit, {e \in lexicon : e.word # Target.id}) :
        \E order \in SetToSeqs({e \in rows : OfPos(e)}) :
            Continue(Adding(Offering(order).list, Chinese), Offering(order).read)
  BY DEF DictionaryStage
<1>3. PICK order \in SetToSeqs({e \in rows : OfPos(e)}) :
            Continue(Adding(Offering(order).list, Chinese), Offering(order).read)
  BY <1>2
<1> DEFINE pass == Offering(order)
           list == pass.list
           found == Adding(list, Chinese)
           E == Of(distractors) \cup Rows(lexicon)
<1>4. bank \in Banks /\ lexicon \in Lexicons /\ Search(distractors, stage, reached)
  BY <1>1 DEF QuestionInv
<1>5. IsFiniteSet(lexicon) /\ Words(lexicon)
  BY <1>4, DictionaryAssumption DEF Words
<1>6. order \in Seq(lexicon)
  <2> DEFINE chosenOnes == {e \in rows : OfPos(e)}
             n == Cardinality(chosenOnes)
  <2>1. chosenOnes \in SUBSET lexicon
    BY DEF LimitedTo
  <2>2. n \in Nat
    BY <1>5, <2>1, FS_Subset, FS_CardinalityType
  <2>3. order \in [1..n -> chosenOnes]
    BY DEF SetToSeqs
  <2> HIDE DEF n, chosenOnes
  <2> QED
    BY <2>1, <2>2, <2>3
<1>7. pass \in Passes(Seen, lexicon) /\ OfferFits(pass)
  BY <1>5, <1>6, OfferMakes
<1> HIDE DEF pass
<1>8. list \in Seq(Rows(lexicon)) /\ pass.read \in SUBSET lexicon
  BY <1>7 DEF Passes
<1>9. distractors \in Seq(E) /\ list \in Seq(E)
  <2>1. distractors \in Seq(Of(distractors))
    BY <1>4 DEF Search
  <2> HIDE DEF list
  <2> QED
    BY <1>8, <2>1
<1> HIDE DEF E
<1>10. stage \in 1..10 /\ Chinese \in SUBSET Visible
  BY <1>1, QuestionAssumption
<1>11. Seen = KeysIn(distractors)
  BY <1>9, SeenIs
<1>12. \A k \in 1..Len(list) : list[k].source = "ecdict" /\ list[k].key = Normal[list[k].text]
  <2>1. \A r \in Rows(lexicon) : r.source = "ecdict" /\ r.key = Normal[r.text]
    BY DEF Rows, RowOf
  <2>2. \A k \in 1..Len(list) : list[k] \in Rows(lexicon)
    BY <1>8
  <2> QED
    BY <2>1, <2>2
<1> DEFINE m == Len(found)
           start == Len(distractors)
<1>13. ASSUME m # 3 PROVE Search(found, stage + 1, pass.read)
  <2>1. PassFits(found, list, Chinese)
    <3>1. found = Adding(list, Chinese) /\ Len(found) # 3
      BY <1>13
    <3> HIDE DEF found, list
    <3> QED
      BY <1>4, <1>9, <1>10, <1>12, <3>1, SearchGoesOn
  <2>2. found = Adding(pass.list, Chinese) /\ Len(found) # 3 /\ pass.list \in Seq(E)
    BY <1>9, <1>13
  <2> HIDE DEF found, list
  <2>3. /\ found \in Seq(Of(found)) /\ m < 3 /\ Different(found)
        /\ \A i \in 1..m : found[i].text \in Visible /\ found[i].key = Normal[found[i].text] /\ found[i].key # Normal[Target.answer]
        /\ start \in Nat /\ m \in Nat
        /\ \A i \in 1..start : i \in 1..m /\ found[i] = distractors[i]
        /\ \A i \in 1..m : i > start => \E k \in 1..Len(list) : found[i] = list[k]
        /\ Seen \subseteq KeysIn(found)
    BY <2>1 DEF PassFits
  <2>4. ASSUME NEW e \in pass.read, OffersStill(e, KeysIn(found))
        PROVE  \E i \in 1..m : FromEntry(found[i], e)
    BY <1>4, <1>5, <1>7, <1>9, <1>10, <2>2, <2>4, PassExhausts DEF m
  <2> HIDE DEF m, start
  <2>5. ASSUME NEW c \in considered, NEW r \in 1..6, Fits(c, r), c.answer \in Visible PROVE Normal[c.answer] \in KeysIn(found)
    <3>1. r < stage
      BY <1>1
    <3>2. Normal[c.answer] \in KeysIn(distractors)
      BY <1>4, <2>5, <3>1 DEF Search
    <3> QED
      BY <1>11, <2>3, <3>2
  <2>6. ASSUME NEW i \in 1..m
        PROVE  \/ found[i].source = "ecdict" /\ stage + 1 > 7
               \/ /\ found[i].source = "user_card"
                  /\ \E r \in 1..6 : r < stage + 1 /\ \E c \in considered : c.id = found[i].from /\ Fits(c, r)
    <3>1. CASE i \in 1..start
      <4>1. \/ distractors[i].source = "ecdict" /\ stage > 7
            \/ /\ distractors[i].source = "user_card"
               /\ \E r \in 1..6 : r < stage /\ \E c \in considered : c.id = distractors[i].from /\ Fits(c, r)
        BY <1>4, <3>1 DEF Search, start
      <4>2. found[i] = distractors[i] /\ (stage > 7 => stage + 1 > 7) /\ \A r \in 1..6 : r < stage => r < stage + 1
        BY <1>1, <2>3, <3>1
      <4> QED
        BY <4>1, <4>2
    <3>2. CASE i > start
      <4>1. PICK k \in 1..Len(list) : found[i] = list[k]
        BY <2>3, <3>2
      <4>2. found[i].source = "ecdict"
        BY <1>12, <4>1
      <4> QED
        BY <1>1, <4>2
    <3> QED
      BY <2>3, <3>1, <3>2
  <2> QED
    BY <2>3, <2>4, <2>5, <2>6 DEF Search, m
<1>14. Continue(found, pass.read)
  BY <1>3 DEF list, pass
<1> HIDE DEF found, list
<1> QED
  BY <1>1, <1>8, <1>10, <1>13, <1>14, StageEnds DEF m

\* QuestionInv is inductive: the cards that are taken and those that wait are the
\* candidates, and what a search has found is what its passes leave behind.
THEOREM QuestionInvHolds == QuestionSpec => []QuestionInv
<1>1. QuestionInit => QuestionInv
  BY QuestionBegins
<1>2. QuestionInv /\ [QuestionNext]_questionVars => QuestionInv'
  <2> SUFFICES ASSUME QuestionInv, [QuestionNext]_questionVars PROVE QuestionInv'
    OBVIOUS
  <2>0. CASE FetchCards
    BY <2>0, FetchBegins
  <2>1. CASE CardStage
    BY <2>1, CardsGoOn
  <2>2. CASE DictionaryStage
    BY <2>2, DictionaryGoesOn
  <2>3. CASE GiveUpQuestion
    <3>1. bank' = bank /\ lexicon' = lexicon /\ waiting' = waiting /\ picked' = picked /\ stage' = -1 /\ reached' = reached
      BY <2>3 DEF GiveUpQuestion, Goes, Failed
    <3> QED
      BY <3>1 DEF QuestionInv, Opened
  <2>4. CASE UNCHANGED questionVars
    <3>1. bank' = bank /\ lexicon' = lexicon /\ waiting' = waiting /\ picked' = picked /\ stage' = stage /\ distractors' = distractors
          /\ considered' = considered /\ reached' = reached
      BY <2>4 DEF questionVars
    <3>2. Target' = Target /\ Others' = Others
      BY <3>1 DEF Target, Others
    <3>3. \A c, r : Fits(c, r)' <=> Fits(c, r)
      BY <3>2 DEF Fits, SameType, SamePos, CloseFreq, HasDistance, Distance
    <3>4. \A ds : KeysIn(ds)' = KeysIn(ds)
      BY <3>2 DEF KeysIn
    <3>5. Search(distractors, stage, reached) => Search(distractors, stage, reached)'
      BY <3>1, <3>2, <3>3, <3>4 DEF Search, OffersStill
    <3>6. Considers => Considers'
      BY <3>1, <3>2 DEF Considers
    <3> QED
      BY <3>1, <3>5, <3>6 DEF QuestionInv
  <2> QED
    BY <2>0, <2>1, <2>2, <2>3, <2>4 DEF QuestionNext
<1> QED
  BY <1>1, <1>2, PTL DEF QuestionSpec

LEMMA FairFollows == ASSUME QuestionInv PROVE QuestionsAreFair
<1>1. ASSUME stage \in 1..11 PROVE AnswersAreWrong /\ CardsComeFirst /\ FailsForWant
  <2>1. Search(distractors, stage, reached) /\ lexicon \in Lexicons /\ reached \in SUBSET lexicon /\ Considers
    BY <1>1 DEF QuestionInv
  <2>2. distractors \in Seq(Of(distractors)) /\ Different(distractors) /\ Len(distractors) < 3
    BY <2>1 DEF Search
  <2>3. Seen = KeysIn(distractors) /\ ToSet(distractors) = Of(distractors) /\ Len(distractors) \in Nat
    BY <2>2, SeenIs
  <2>4. Keys = {distractors[i].key : i \in 1..Len(distractors)}
    BY <2>3 DEF Keys, Of
  <2>5. Normal[Target.answer] \notin Keys /\ \A d \in ToSet(distractors) : d.text \in Visible /\ d.key = Normal[d.text]
    BY <2>1, <2>3, <2>4 DEF Search, Of
  <2>6. AnswersAreWrong
    <3> DEFINE keys == [i \in 1..Len(distractors) |-> distractors[i].key]
    <3>1. keys \in Seq(Keys) /\ Len(keys) = Len(distractors) /\ Of(keys) = Keys
      <4>1. keys \in Seq(Keys) /\ Len(keys) = Len(distractors)
        BY <2>3, <2>4
      <4>2. \A i \in 1..Len(distractors) : keys[i] = distractors[i].key
        OBVIOUS
      <4> HIDE DEF keys
      <4> QED
        BY <2>4, <4>1, <4>2 DEF Of
    <3>2. \A i, j \in 1..Len(distractors) : keys[i] = keys[j] => i = j
      BY <2>2 DEF Different
    <3> HIDE DEF keys
    <3>3. Once(keys, Keys)
      BY <3>1, <3>2 DEF Once
    <3>4. IsFiniteSet(Keys) /\ Cardinality(Keys) = Len(distractors)
      BY <3>1, <3>3, OnceCounts
    <3>5. Cardinality(Keys \cup {Normal[Target.answer]}) = Cardinality(Keys) + 1
      BY <2>5, <3>4, FS_AddElement
    <3> QED
      BY <2>3, <2>5, <3>4, <3>5 DEF AnswersAreWrong, Seen
  <2>7. ASSUME NEW c \in considered, Unused(c), NEW r \in 1..6, Fits(c, r)
        PROVE  ~(r < stage)
    BY <2>1, <2>3, <2>7 DEF Search, Unused
  <2>8. \A c : Fits(c, 6)
    BY DEF Fits
  <2>9. ASSUME stage > 6, NEW c \in considered PROVE ~Unused(c)
    BY <2>7, <2>8, <2>9
  <2>10. ASSUME NEW c \in considered
         PROVE  BestStage(c) \in 1..6 /\ Fits(c, BestStage(c)) /\ \A r \in 1..6 : Fits(c, r) => BestStage(c) <= r
    <3> DEFINE S == {r \in 1..6 : Fits(c, r)}
    <3>1. S \in SUBSET Nat /\ 6 \in S
      BY <2>8
    <3>2. PICK least \in S : \A r \in S : least <= r
      <4> HIDE DEF S
      <4> QED
        BY <3>1, LeastExists
    <3>3. least \in 1..6 /\ Fits(c, least) /\ \A r \in 1..(least - 1) : ~Fits(c, r)
      BY <3>2
    <3> DEFINE best == BestStage(c)
    <3>4. best \in 1..6 /\ Fits(c, best) /\ \A r \in 1..(best - 1) : ~Fits(c, r)
      BY <3>3 DEF BestStage
    <3> HIDE DEF best
    <3>5. \A r \in 1..6 : Fits(c, r) => best <= r
      BY <3>4
    <3> QED
      BY <3>4, <3>5 DEF best
  <2>11. CardsComeFirst
    <3> DEFINE left == {c \in considered : Unused(c)}
    <3>1. ASSUME NEW d \in ToSet(distractors), d.source = "ecdict" PROVE left = {}
      <4>1. PICK i \in 1..Len(distractors) : d = distractors[i]
        BY <2>3 DEF Of
      <4>2. stage > 7
        BY <2>1, <3>1, <4>1 DEF Search
      <4>3. stage > 6
        BY <1>1, <4>2
      <4> QED
        BY <2>9, <4>3
    <3>2. ASSUME NEW d \in ToSet(distractors), d.source = "user_card", NEW u \in considered, u.id = d.from, NEW c \in left
          PROVE  BestStage(u) <= BestStage(c)
      <4>1. PICK i \in 1..Len(distractors) : d = distractors[i]
        BY <2>3 DEF Of
      <4>2. PICK r \in 1..6 : r < stage /\ \E o \in considered : o.id = d.from /\ Fits(o, r)
        BY <2>1, <3>2, <4>1 DEF Search
      <4>3. Fits(u, r)
        <5>1. PICK o \in considered : o.id = d.from /\ Fits(o, r)
          BY <4>2
        <5>2. o = u
          <6>1. bank \in Banks /\ o \in bank /\ u \in bank /\ o.id = u.id
            BY <2>1, <3>2, <5>1 DEF QuestionInv, Considers, Others
          <6> QED
            BY <6>1, BankAssumption
        <5> QED
          BY <5>1, <5>2
      <4>4. BestStage(u) <= r /\ BestStage(u) \in 1..6
        BY <2>10, <4>3
      <4>5. c \in considered /\ BestStage(c) \in 1..6 /\ ~(BestStage(c) < stage)
        BY <2>7, <2>10
      <4> QED
        BY <1>1, <4>2, <4>4, <4>5
    <3> HIDE DEF left
    <3>3. CardsComeFirst <=>
            /\ Cardinality(Others) <= CardLimit => considered = Others
            /\ (\E d \in ToSet(distractors) : d.source = "ecdict") => left = {}
            /\ \A d \in ToSet(distractors) : d.source = "user_card" =>
                \A u \in considered : u.id = d.from => \A c \in left : BestStage(u) <= BestStage(c)
      BY DEF CardsComeFirst, left
    <3> QED
      BY <2>1, <3>1, <3>2, <3>3 DEF Considers
  <2>12. FailsForWant
    <3> SUFFICES ASSUME stage = 11
                 PROVE  /\ \A c \in considered : ~Unused(c)
                        /\ \A e \in reached : Offers(e) => \E d \in ToSet(distractors) : FromEntry(d, e)
      BY DEF FailsForWant, FromEntry
    <3>1. \A c \in considered : ~Unused(c)
      BY <2>9
    <3>2. ASSUME NEW e \in reached, Offers(e) PROVE \E d \in ToSet(distractors) : FromEntry(d, e)
      <4>1. OffersStill(e, KeysIn(distractors))
        BY <2>1, <2>3, <3>2, OffersIs
      <4>2. PICK i \in 1..Len(distractors) : FromEntry(distractors[i], e)
        BY <2>1, <3>2, <4>1 DEF Search
      <4> QED
        BY <2>3, <4>2 DEF Of
    <3> QED
      BY <3>1, <3>2
  <2> QED
    BY <2>6, <2>11, <2>12
<1>2. OpensWhole
  <2> SUFFICES ASSUME stage = Opened
               PROVE  /\ picked = SubSeq(Candidates(bank), 1, Len(picked))
                      /\ Len(picked) < Wanted => Len(picked) = Len(Candidates(bank))
    BY DEF OpensWhole
  <2>1. /\ waiting \in Seq(bank) /\ picked \in Seq(bank) /\ picked \o waiting = Candidates(bank)
        /\ Len(picked) >= Wanted \/ waiting = <<>>
    BY DEF QuestionInv
  <2>2. Len(picked) \in Nat /\ Len(waiting) \in Nat
    BY <2>1
  <2>3. picked = SubSeq(picked \o waiting, 1, Len(picked))
    <3> DEFINE both == picked \o waiting
               cut == SubSeq(both, 1, Len(picked))
    <3>1. both \in Seq(bank) /\ Len(both) = Len(picked) + Len(waiting)
          /\ \A i \in 1..(Len(picked) + Len(waiting)) : both[i] = IF i <= Len(picked) THEN picked[i] ELSE waiting[i - Len(picked)]
      BY <2>1, Joined
    <3> HIDE DEF both
    <3>2. cut \in Seq(bank) /\ Len(cut) = Len(picked) /\ \A i \in 1..Len(picked) : cut[i] = both[i]
      <4>1. Len(picked) <= Len(both)
        BY <2>2, <3>1
      <4> QED
        BY <2>2, <3>1, <4>1, Shortened
    <3> HIDE DEF cut
    <3>3. \A i \in 1..Len(picked) : cut[i] = picked[i]
      <4>1. \A i \in 1..Len(picked) : i \in 1..(Len(picked) + Len(waiting)) /\ i <= Len(picked)
        BY <2>2
      <4> QED
        BY <3>1, <3>2, <4>1
    <3>4. cut = picked
      <4> DEFINE n == Len(picked)
      <4>1. cut \in [1..n -> bank] /\ picked \in [1..n -> bank]
        BY <2>1, <2>2, <3>2
      <4> HIDE DEF n
      <4> QED
        BY <3>3, <4>1 DEF n
    <3> QED
      BY <3>4 DEF cut, both
  <2>4. waiting = <<>> => Len(picked) = Len(Candidates(bank))
    BY <2>1
  <2>5. Wanted \in Nat
    BY QuestionAssumption
  <2> DEFINE n == Len(picked)
  <2>6. n \in Nat /\ (n >= Wanted \/ n = Len(Candidates(bank)))
    BY <2>1, <2>2, <2>4
  <2> HIDE DEF n
  <2>7. n < Wanted => n = Len(Candidates(bank))
    BY <2>5, <2>6
  <2>8. picked = SubSeq(Candidates(bank), 1, Len(picked))
    BY <2>1, <2>3, Zenon
  <2> QED
    BY <2>7, <2>8, Zenon DEF n
<1> QED
  BY <1>1, <1>2 DEF QuestionsAreFair

\* QuestionsAreFair in every state, for every bank and dictionary and whatever the limits
\* of the two queries leave to be considered (generate_distractors): wrong answers that
\* are wrong and different however they are written, the user's cards before the
\* dictionary and the better before the worse, and a session refused only where neither
\* these cards nor the last rows of the dictionary hold more, other spellings aside.
THEOREM QuestionsHold == QuestionSpec => []QuestionsAreFair
BY QuestionInvHolds, FairFollows, PTL

=============================================================================
