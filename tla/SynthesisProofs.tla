---------------------------- MODULE SynthesisProofs ----------------------------
(***************************************************************************)
(* Proofs about the synthesis of reversible circuits, for any number of      *)
(* lines and any permutation: by transformation, with any options, and by   *)
(* transpositions.                                                          *)
(***************************************************************************)
EXTENDS TransformationSynthesis, TranspositionSynthesis,
        FiniteSetTheorems, SequenceTheorems, TLAPS

-------------------------------------------------------------------------------
(* Induction on natural numbers is by the least counterexample.             *)
LEMMA Least ==
    ASSUME NEW T, T \subseteq Nat, T # {}
    PROVE  \E n \in T : \A k \in T : n <= k
<1>1. PICK n \in T : \A k \in T : ~ <<k, n>> \in OpToRel(<, Nat)
    BY NatLessThanWellFounded, WFMin
<1>2. \A k \in T : ~ k < n
    BY <1>1 DEF OpToRel
<1> QED
    BY <1>2

LEMMA LinesAre ==
    /\ num_lines \in Nat /\ num_lines >= 1 /\ Lines \subseteq Nat /\ 0 \in Lines
    /\ \A l \in Lines : \A k \in 0..l - 1 : k \in Lines /\ k < l
    /\ \A k, l \in Lines : k < l => k \in 0..l - 1
BY LinesAssumption DEF Lines

(* Rows are ordered strictly, and a row is not smaller than its parts.      *)
LEMMA SmallerIrreflexive == \A x : ~Smaller(x, x)
BY DEF Smaller

LEMMA SmallerTotal ==
    ASSUME NEW x \in Assignments, NEW y \in Assignments, x # y
    PROVE  Smaller(x, y) \/ Smaller(y, x)
<1> DEFINE T == {l \in Lines : (l \in x) # (l \in y)}
<1>1. x \subseteq Lines /\ y \subseteq Lines
    BY DEF Assignments
<1>2. T \subseteq Nat /\ T # {}
    BY <1>1, LinesAre
<1>3. PICK n \in T : \A k \in T : n <= k
    BY <1>2, Least, Zenon
<1>4. \A k \in 0..n - 1 : (k \in x) = (k \in y)
    <2> TAKE k \in 0..n - 1
    <2>1. k \in Lines /\ k < n /\ k \in Nat /\ n \in Nat
        BY <1>2, LinesAre
    <2>2. k \notin T
        BY <1>3, <2>1
    <2> QED
        BY <2>1, <2>2
<1>5. CASE n \in y
    BY <1>4, <1>5 DEF Smaller
<1>6. CASE n \notin y
    <2>1. n \in x \ y
        BY <1>6
    <2> QED
        BY <1>4, <2>1 DEF Smaller
<1> QED
    BY <1>5, <1>6

LEMMA SmallerTransitive ==
    ASSUME NEW x \in Assignments, NEW y \in Assignments, NEW z \in Assignments,
           Smaller(x, y), Smaller(y, z)
    PROVE  Smaller(x, z)
<1>1. PICK k \in y \ x : \A i \in 0..k - 1 : (i \in x) = (i \in y)
    BY DEF Smaller
<1>2. PICK l \in z \ y : \A i \in 0..l - 1 : (i \in y) = (i \in z)
    BY DEF Smaller
<1>3. k \in Nat /\ l \in Nat /\ k # l
    BY LinesAre DEF Assignments
<1>4. CASE k < l
    <2>1. k \in z \ x
        BY <1>1, <1>2, <1>3, <1>4
    <2>2. \A i \in 0..k - 1 : (i \in x) = (i \in z)
        BY <1>1, <1>2, <1>3, <1>4
    <2> QED
        BY <2>1, <2>2 DEF Smaller
<1>5. CASE l < k
    <2>1. l \in z \ x
        BY <1>1, <1>2, <1>3, <1>5
    <2>2. \A i \in 0..l - 1 : (i \in x) = (i \in z)
        BY <1>1, <1>2, <1>3, <1>5
    <2> QED
        BY <2>1, <2>2 DEF Smaller
<1> QED
    BY <1>3, <1>4, <1>5

LEMMA PartsAreNotLarger ==
    ASSUME NEW x, NEW y, x \subseteq y
    PROVE  ~Smaller(y, x)
BY DEF Smaller

(* A part of a row that is larger than goal is not a part of a smaller one.   *)
LEMMA NoPartOfSmaller ==
    ASSUME NEW x \in Assignments, NEW goal \in Assignments, NEW y \in Assignments,
           Smaller(y, goal), ~Smaller(x, goal)
    PROVE  ~(x \subseteq y)
<1> SUFFICES ASSUME x \subseteq y PROVE FALSE
    OBVIOUS
<1>1. x = y \/ Smaller(x, y)
    BY SmallerTotal, PartsAreNotLarger
<1> QED
    BY <1>1, SmallerTransitive

-------------------------------------------------------------------------------
(* Sorting by the number of smaller elements.                                *)
IsStrictOrder(R, S) ==
    /\ \A x \in S : <<x, x>> \notin R
    /\ \A x, y \in S : x # y => <<x, y>> \in R \/ <<y, x>> \in R
    /\ \A x, y, z \in S : <<x, y>> \in R /\ <<y, z>> \in R => <<x, z>> \in R

LowerPart(x, R, S) == {y \in S : <<y, x>> \in R}

Rank(x, R, S) == Cardinality(LowerPart(x, R, S))

LEMMA RankGrows ==
    ASSUME NEW S, IsFiniteSet(S), NEW R, IsStrictOrder(R, S)
    PROVE  /\ Cardinality(S) \in Nat
           /\ \A x \in S : Rank(x, R, S) \in 0..Cardinality(S) - 1
           /\ \A x, y \in S : <<x, y>> \in R => Rank(x, R, S) < Rank(y, R, S)
           /\ \A x, y \in S : Rank(x, R, S) = Rank(y, R, S) => x = y
<1>1. Cardinality(S) \in Nat
    BY FS_CardinalityType
<1>2. ASSUME NEW A \in SUBSET S, NEW B \in SUBSET S, A \subseteq B, A # B
      PROVE  Cardinality(A) \in Nat /\ Cardinality(B) \in Nat /\ Cardinality(A) < Cardinality(B)
    <2>1. IsFiniteSet(B)
        BY FS_Subset
    <2>2. IsFiniteSet(A) /\ Cardinality(A) <= Cardinality(B) /\ Cardinality(A) # Cardinality(B)
        BY <1>2, <2>1, FS_Subset
    <2>3. Cardinality(A) \in Nat /\ Cardinality(B) \in Nat
        BY <2>1, <2>2, FS_CardinalityType
    <2> QED
        BY <2>2, <2>3
<1>3. ASSUME NEW x \in S
      PROVE  Rank(x, R, S) \in 0..Cardinality(S) - 1
    <2>1. LowerPart(x, R, S) \in SUBSET S /\ LowerPart(x, R, S) # S
        BY DEF LowerPart, IsStrictOrder
    <2>2. Cardinality(LowerPart(x, R, S)) \in Nat
          /\ Cardinality(LowerPart(x, R, S)) < Cardinality(S)
        BY <1>2, <2>1
    <2> QED
        BY <1>1, <2>2 DEF Rank
<1>4. ASSUME NEW x \in S, NEW y \in S, <<x, y>> \in R
      PROVE  Rank(x, R, S) < Rank(y, R, S)
    <2>1. LowerPart(x, R, S) \in SUBSET S /\ LowerPart(y, R, S) \in SUBSET S
        BY DEF LowerPart
    <2>2. LowerPart(x, R, S) \subseteq LowerPart(y, R, S)
        BY <1>4 DEF LowerPart, IsStrictOrder
    <2>3. x \in LowerPart(y, R, S) /\ x \notin LowerPart(x, R, S)
        BY <1>4 DEF LowerPart, IsStrictOrder
    <2> QED
        BY <1>2, <2>1, <2>2, <2>3 DEF Rank
<1>5. ASSUME NEW x \in S, NEW y \in S, Rank(x, R, S) = Rank(y, R, S), x # y
      PROVE  FALSE
    <2>1. <<x, y>> \in R \/ <<y, x>> \in R
        BY <1>5 DEF IsStrictOrder
    <2>2. Rank(x, R, S) \in Int /\ Rank(y, R, S) \in Int
        BY <1>1, <1>3
    <2> QED
        BY <1>4, <1>5, <2>1, <2>2
<1> QED
    BY <1>1, <1>3, <1>4, <1>5

LEMMA RanksAreTaken ==
    ASSUME NEW S, IsFiniteSet(S), NEW R, IsStrictOrder(R, S), NEW i \in 1..Cardinality(S)
    PROVE  \E x \in S : Rank(x, R, S) = i - 1
<1> DEFINE n == Cardinality(S)
           T == 0..n - 1
           f == [x \in S |-> Rank(x, R, S)]
<1>1. n \in Nat /\ IsFiniteSet(T) /\ Cardinality(T) = n
    <2>1. n \in Nat
        BY FS_CardinalityType
    <2>2. IsFiniteSet(0..n - 1) /\ Cardinality(0..n - 1) = IF 0 > n - 1 THEN 0 ELSE (n - 1) - 0 + 1
        <3>1. 0 \in Int /\ n - 1 \in Int
            BY <2>1
        <3> HIDE DEF n
        <3> QED
            BY <3>1, FS_Interval, Zenon
    <2> QED
        BY <2>1, <2>2
<1>2. f \in Injection(S, T)
    <2>1. f \in [S -> T]
        BY RankGrows
    <2>2. \A x, y \in S : f[x] = f[y] => x = y
        BY RankGrows
    <2> HIDE DEF f, T
    <2> QED
        BY <2>1, <2>2 DEF Injection, IsInjective
<1>3. f \in Surjection(S, T)
    <2> HIDE DEF f, T, n
    <2> QED
        BY <1>1, <1>2, FS_Injection DEF n
<1>4. i - 1 \in T
    BY <1>1
<1>5. \E x \in S : f[x] = i - 1
    <2> HIDE DEF f, T
    <2> QED
        BY <1>3, <1>4 DEF Surjection
<1> QED
    BY <1>5

(* The sequence of the elements by rank. *)
Ranked(s, R, S) ==
    s = [i \in 1..Cardinality(S) |-> CHOOSE x \in S : Rank(x, R, S) = i - 1]

LEMMA RankedFacts ==
    ASSUME NEW S, IsFiniteSet(S), NEW R, IsStrictOrder(R, S), NEW s, Ranked(s, R, S)
    PROVE  /\ Cardinality(S) \in Nat /\ s \in [1..Cardinality(S) -> S]
           /\ \A x \in S : \E i \in 1..Cardinality(S) : s[i] = x
           /\ \A i, j \in 1..Cardinality(S) : i < j => <<s[i], s[j]>> \in R
<1> DEFINE n == Cardinality(S)
<1>1. n \in Nat /\ s = [i \in 1..n |-> CHOOSE x \in S : Rank(x, R, S) = i - 1]
    BY RankGrows DEF Ranked
<1>2. ASSUME NEW i \in 1..n
      PROVE  s[i] \in S /\ Rank(s[i], R, S) = i - 1
    <2>1. \E x \in S : Rank(x, R, S) = i - 1
        BY RanksAreTaken
    <2>2. s[i] = CHOOSE x \in S : Rank(x, R, S) = i - 1
        BY <1>1
    <2> QED
        BY <2>1, <2>2, Zenon
<1>3. s \in [1..n -> S]
    BY <1>1, <1>2
<1>4. ASSUME NEW x \in S
      PROVE  \E i \in 1..n : s[i] = x
    <2> DEFINE i == Rank(x, R, S) + 1
    <2>1. i \in 1..n /\ i - 1 = Rank(x, R, S)
        BY <1>1, RankGrows
    <2>2. s[i] \in S /\ Rank(s[i], R, S) = Rank(x, R, S)
        BY <1>2, <2>1
    <2>3. s[i] = x
        BY <2>2, RankGrows
    <2> QED
        BY <2>1, <2>3
<1>5. ASSUME NEW i \in 1..n, NEW j \in 1..n, i < j
      PROVE  <<s[i], s[j]>> \in R
    <2>1. /\ s[i] \in S /\ Rank(s[i], R, S) = i - 1
          /\ s[j] \in S /\ Rank(s[j], R, S) = j - 1
        BY <1>2
    <2>2. s[i] # s[j] /\ ~(j - 1 < i - 1)
        BY <1>1, <1>5, <2>1
    <2>3. <<s[i], s[j]>> \in R \/ <<s[j], s[i]>> \in R
        BY <2>1, <2>2 DEF IsStrictOrder
    <2>4. <<s[j], s[i]>> \in R => j - 1 < i - 1
        BY <2>1, RankGrows
    <2> QED
        BY <2>2, <2>3, <2>4
<1> QED
    BY <1>1, <1>3, <1>4, <1>5

LEMMA AreFinite ==
    /\ IsFiniteSet(Lines) /\ IsFiniteSet(Assignments)
    /\ \A S \in SUBSET Lines : IsFiniteSet(S)
<1>1. IsFiniteSet(Lines)
    BY LinesAre, FS_Interval DEF Lines
<1> QED
    BY <1>1, FS_SUBSET, FS_Subset DEF Assignments

N == Cardinality(Assignments)

(* All rows in ascending order, row 0 first. *)
LEMMA RowsAscend ==
    /\ N \in Nat /\ Rows \in [1..N -> Assignments] /\ Len(Rows) = N
    /\ \A x \in Assignments : \E i \in 1..N : Rows[i] = x
    /\ \A i, j \in 1..N : i < j => Smaller(Rows[i], Rows[j])
<1> DEFINE R == {p \in Assignments \X Assignments : Smaller(p[1], p[2])}
<1>1. \A x, y \in Assignments : <<x, y>> \in R <=> Smaller(x, y)
    OBVIOUS
<1> HIDE DEF R
<1>2. IsStrictOrder(R, Assignments)
    <2>1. \A x \in Assignments : <<x, x>> \notin R
        BY <1>1, SmallerIrreflexive
    <2>2. \A x, y \in Assignments : x # y => <<x, y>> \in R \/ <<y, x>> \in R
        BY <1>1, SmallerTotal
    <2>3. \A x, y, z \in Assignments : <<x, y>> \in R /\ <<y, z>> \in R => <<x, z>> \in R
        BY <1>1, SmallerTransitive
    <2> QED
        BY <2>1, <2>2, <2>3 DEF IsStrictOrder
<1>3. Ranked(Rows, R, Assignments)
    <2>1. \A x \in Assignments : {y \in Assignments : Smaller(y, x)} = LowerPart(x, R, Assignments)
        BY <1>1 DEF LowerPart
    <2> DEFINE c(i) == CHOOSE x \in Assignments :
                            Cardinality({y \in Assignments : Smaller(y, x)}) = i - 1
               r(i) == CHOOSE x \in Assignments : Rank(x, R, Assignments) = i - 1
    <2>2. \A i : c(i) = r(i)
        <3> TAKE i
        <3>1. \A x \in Assignments : Cardinality({y \in Assignments : Smaller(y, x)}) = i - 1
                                     <=> Rank(x, R, Assignments) = i - 1
            BY <2>1 DEF Rank
        <3> QED
            BY <3>1
    <2>3. Rows = [i \in 1..Cardinality(Assignments) |-> c(i)]
        BY DEF Rows, Sorted
    <2> HIDE DEF c, r
    <2>4. Rows = [i \in 1..Cardinality(Assignments) |-> r(i)]
        BY <2>2, <2>3
    <2> QED
        BY <2>4, Zenon DEF Ranked, r
<1>4. /\ N \in Nat /\ Rows \in [1..N -> Assignments]
      /\ \A x \in Assignments : \E i \in 1..N : Rows[i] = x
      /\ \A i, j \in 1..N : i < j => <<Rows[i], Rows[j]>> \in R
    BY <1>2, <1>3, AreFinite, RankedFacts DEF N
<1>5. \A i, j \in 1..N : i < j => Smaller(Rows[i], Rows[j])
    BY <1>1, <1>4
<1>6. Len(Rows) = N
    BY <1>4
<1> QED
    BY <1>4, <1>5, <1>6

(* The lines of a set, each once. *)
LEMMA DownwardsDescend ==
    ASSUME NEW S \in SUBSET Lines
    PROVE  /\ Cardinality(S) \in Nat /\ Downwards(S) \in [1..Cardinality(S) -> S]
           /\ \A l \in S : \E i \in 1..Cardinality(S) : Downwards(S)[i] = l
           /\ \A i, j \in 1..Cardinality(S) : i < j => Downwards(S)[i] > Downwards(S)[j]
<1> DEFINE R == {p \in S \X S : p[1] > p[2]}
<1>0. S \subseteq Nat
    BY LinesAre
<1>1. \A x, y \in S : <<x, y>> \in R <=> x > y
    OBVIOUS
<1> HIDE DEF R
<1>2. IsStrictOrder(R, S)
    <2>1. \A x \in S : <<x, x>> \notin R
        BY <1>0, <1>1
    <2>2. \A x, y \in S : x # y => <<x, y>> \in R \/ <<y, x>> \in R
        BY <1>0, <1>1
    <2>3. \A x, y, z \in S : <<x, y>> \in R /\ <<y, z>> \in R => <<x, z>> \in R
        BY <1>0, <1>1
    <2> QED
        BY <2>1, <2>2, <2>3 DEF IsStrictOrder
<1>3. Ranked(Downwards(S), R, S)
    <2>1. \A x \in S : {y \in S : y > x} = LowerPart(x, R, S)
        BY <1>1 DEF LowerPart
    <2> DEFINE c(i) == CHOOSE x \in S : Cardinality({y \in S : y > x}) = i - 1
               r(i) == CHOOSE x \in S : Rank(x, R, S) = i - 1
    <2>2. \A i : c(i) = r(i)
        <3> TAKE i
        <3>1. \A x \in S : Cardinality({y \in S : y > x}) = i - 1 <=> Rank(x, R, S) = i - 1
            BY <2>1 DEF Rank
        <3> QED
            BY <3>1
    <2>3. Downwards(S) = [i \in 1..Cardinality(S) |-> c(i)]
        BY DEF Downwards, Sorted
    <2> HIDE DEF c, r
    <2>4. Downwards(S) = [i \in 1..Cardinality(S) |-> r(i)]
        BY <2>2, <2>3
    <2> QED
        BY <2>4, Zenon DEF Ranked, r
<1>4. /\ Cardinality(S) \in Nat /\ Downwards(S) \in [1..Cardinality(S) -> S]
      /\ \A l \in S : \E i \in 1..Cardinality(S) : Downwards(S)[i] = l
      /\ \A i, j \in 1..Cardinality(S) : i < j => <<Downwards(S)[i], Downwards(S)[j]>> \in R
    BY <1>2, <1>3, AreFinite, RankedFacts
<1>5. \A i, j \in 1..Cardinality(S) : i < j => Downwards(S)[i] > Downwards(S)[j]
    BY <1>1, <1>4
<1> QED
    BY <1>4, <1>5

LEMMA DownwardsLists ==
    ASSUME NEW S \in SUBSET Lines
    PROVE  /\ Cardinality(S) \in Nat /\ Downwards(S) \in [1..Cardinality(S) -> S]
           /\ \A l \in S : \E i \in 1..Cardinality(S) : Downwards(S)[i] = l
           /\ \A i, j \in 1..Cardinality(S) : i < j => Downwards(S)[i] # Downwards(S)[j]
<1>1. \A x, y \in S : x > y => x # y
    BY LinesAre
<1> QED
    BY <1>1, DownwardsDescend

-------------------------------------------------------------------------------
(* The community modules fold a sequence over the subsets of its domain, the   *)
(* largest index last.                                                      *)
LEMMA MaxOf ==
    ASSUME NEW n \in Nat, NEW s \in SUBSET (1..n), s # {}
    PROVE  SeqExt!Max(s) \in s /\ \A i \in s : i <= SeqExt!Max(s)
<1> DEFINE T == {n - i : i \in s}
<1>0. \A i \in s : i \in 1..n /\ n - i \in Nat
    OBVIOUS
<1>1. T \subseteq Nat /\ T # {}
    BY <1>0
<1>2. PICK m \in T : \A k \in T : m <= k
    BY <1>1, Least, Zenon
<1>3. PICK j \in s : m = n - j
    BY <1>2
<1>4. \A i \in s : n - i \in T
    OBVIOUS
<1>5. \A i \in s : j >= i
    <2> TAKE i \in s
    <2>1. n - j <= n - i /\ i \in Int /\ j \in Int
        BY <1>2, <1>3, <1>4
    <2> QED
        BY <2>1
<1>6. \E j1 \in s : \A i \in s : j1 >= i
    BY <1>5
<1>7. SeqExt!Max(s) \in s /\ \A i \in s : SeqExt!Max(s) >= i
    BY <1>6, Zenon DEF SeqExt!Max
<1>8. s \subseteq Int
    OBVIOUS
<1> QED
    BY <1>7, <1>8

LEMMA MaxOfPrefix ==
    ASSUME NEW n \in Nat, NEW k \in 1..n
    PROVE  1..k \in SUBSET (1..n) /\ 1..k # {} /\ SeqExt!Max(1..k) = k /\ (1..k) \ {k} = 1..k - 1
<1>1. 1..k \in SUBSET (1..n) /\ k \in 1..k /\ k \in Nat
    OBVIOUS
<1>2. SeqExt!Max(1..k) \in 1..k /\ k <= SeqExt!Max(1..k)
    BY <1>1, MaxOf
<1> QED
    BY <1>1, <1>2

IsFold(it, F, base, n) ==
    it = [s \in SUBSET (1..n) |->
            IF s = {} THEN base ELSE F[<<SeqExt!Max(s), it[s \ {SeqExt!Max(s)}]>>]]

LEMMA FoldExists ==
    ASSUME NEW n \in Nat, NEW V, NEW base \in V, NEW F \in [(1..n) \X V -> V]
    PROVE  \E it \in [SUBSET (1..n) -> V] : IsFold(it, F, base, n)
<1> DEFINE E(k) == \E it \in [SUBSET (1..k) -> V] : IsFold(it, F, base, k)
           T == {k \in 0..n : ~E(k)}
<1>1. E(0)
    <2> DEFINE it == [s \in SUBSET (1..0) |-> base]
    <2>1. \A s \in SUBSET (1..0) : s = {}
        OBVIOUS
    <2>2. it = [s \in SUBSET (1..0) |-> IF s = {} THEN base ELSE F[<<SeqExt!Max(s), it[s \ {SeqExt!Max(s)}]>>]]
        BY <2>1
    <2>3. it \in [SUBSET (1..0) -> V]
        OBVIOUS
    <2> QED
        BY <2>2, <2>3 DEF IsFold
<1>2. ASSUME NEW k \in 0..n - 1, E(k)
      PROVE  E(k + 1)
    <2>1. PICK it \in [SUBSET (1..k) -> V] : IsFold(it, F, base, k)
        BY <1>2
    <2>2. k \in Nat /\ k + 1 \in 1..n /\ k + 1 \in Nat
        OBVIOUS
    <2> DEFINE g == [s \in SUBSET (1..k + 1) |->
                        IF k + 1 \in s THEN F[<<k + 1, it[s \ {k + 1}]>>] ELSE it[s]]
    <2>3. ASSUME NEW s \in SUBSET (1..k + 1)
          PROVE  /\ k + 1 \notin s => s \in SUBSET (1..k)
                 /\ s \ {k + 1} \in SUBSET (1..k)
                 /\ k + 1 \in s => SeqExt!Max(s) = k + 1
        <3>1. k + 1 \in s => SeqExt!Max(s) = k + 1
            <4> SUFFICES ASSUME k + 1 \in s PROVE SeqExt!Max(s) = k + 1
                OBVIOUS
            <4>1. SeqExt!Max(s) \in s /\ k + 1 <= SeqExt!Max(s)
                BY <2>2, MaxOf
            <4>2. SeqExt!Max(s) \in 1..k + 1
                BY <4>1
            <4> QED
                BY <2>2, <4>1, <4>2
        <3> QED
            BY <2>2, <3>1
    <2>4. g \in [SUBSET (1..k + 1) -> V]
        <3> SUFFICES ASSUME NEW s \in SUBSET (1..k + 1) PROVE g[s] \in V
            OBVIOUS
        <3>1. CASE k + 1 \in s
            <4>1. it[s \ {k + 1}] \in V
                BY <2>1, <2>3
            <4> QED
                BY <2>2, <3>1, <4>1
        <3>2. CASE k + 1 \notin s
            BY <2>1, <2>3, <3>2
        <3> QED
            BY <3>1, <3>2
    <2>5. ASSUME NEW s \in SUBSET (1..k + 1)
          PROVE  g[s] = IF s = {} THEN base ELSE F[<<SeqExt!Max(s), g[s \ {SeqExt!Max(s)}]>>]
        <3>1. CASE k + 1 \in s
            <4>1. s # {} /\ SeqExt!Max(s) = k + 1 /\ g[s] = F[<<k + 1, it[s \ {k + 1}]>>]
                BY <2>3, <3>1
            <4>2. s \ {k + 1} \in SUBSET (1..k + 1) /\ k + 1 \notin s \ {k + 1}
                OBVIOUS
            <4>3. g[s \ {k + 1}] = it[s \ {k + 1}]
                BY <4>2
            <4> HIDE DEF g
            <4> QED
                BY <4>1, <4>3
        <3>2. CASE k + 1 \notin s
            <4>1. s \in SUBSET (1..k) /\ g[s] = it[s]
                BY <2>3, <3>2
            <4>2. it[s] = IF s = {} THEN base ELSE F[<<SeqExt!Max(s), it[s \ {SeqExt!Max(s)}]>>]
                BY <2>1, <4>1 DEF IsFold
            <4>3. s \ {SeqExt!Max(s)} \in SUBSET (1..k + 1) /\ k + 1 \notin s \ {SeqExt!Max(s)}
                BY <3>2
            <4>4. g[s \ {SeqExt!Max(s)}] = it[s \ {SeqExt!Max(s)}]
                BY <4>3
            <4> HIDE DEF g
            <4> QED
                BY <4>1, <4>2, <4>4
        <3> QED
            BY <3>1, <3>2
    <2>6. g = [s \in SUBSET (1..k + 1) |-> g[s]]
        OBVIOUS
    <2> HIDE DEF g
    <2>7. IsFold(g, F, base, k + 1)
        BY <2>5, <2>6 DEF IsFold
    <2> QED
        BY <2>4, <2>7
<1> HIDE DEF E
<1>3. T = {}
    <2> SUFFICES ASSUME T # {} PROVE FALSE
        OBVIOUS
    <2>0. T \subseteq Nat
        OBVIOUS
    <2>1. PICK k \in T : \A j \in T : k <= j
        BY <2>0, Least, Zenon
    <2>2. k \in 0..n /\ ~E(k) /\ k # 0
        BY <1>1
    <2>3. k - 1 \in 0..n - 1 /\ k - 1 \in 0..n /\ (k - 1) + 1 = k /\ ~ k <= k - 1
        BY <2>2
    <2>4. E(k - 1)
        BY <2>1, <2>3
    <2>5. E((k - 1) + 1)
        BY <1>2, <2>3, <2>4
    <2> QED
        BY <2>2, <2>3, <2>5
<1>4. E(n)
    <2>1. n \in 0..n /\ n \notin T
        BY <1>3
    <2> QED
        BY <2>1
<1> QED
    BY <1>4 DEF E

(* What such a fold returns is the end of a walk through values of its type.  *)
Walk(h, F, base, n, V) ==
    h \in [0..n -> V] /\ h[0] = base /\ \A k \in 1..n : h[k] = F[<<k, h[k - 1]>>]

WalksTo(v, F, base, n, V) == \E h : Walk(h, F, base, n, V) /\ v = h[n]

FoldsPrefixes(r, F, base, n, V) ==
    r[{}] = base /\ \A k \in 1..n : r[1..k - 1] \in V => r[1..k] = F[<<k, r[1..k - 1]>>]

LEMMA WalkOfFold ==
    ASSUME NEW n \in Nat, NEW V, NEW base \in V, NEW F \in [(1..n) \X V -> V],
           NEW r, FoldsPrefixes(r, F, base, n, V)
    PROVE  WalksTo(r[1..n], F, base, n, V)
<1>0. r[{}] = base /\ \A k \in 1..n : r[1..k - 1] \in V => r[1..k] = F[<<k, r[1..k - 1]>>]
    BY DEF FoldsPrefixes
<1> DEFINE h == [k \in 0..n |-> r[1..k]]
           T == {k \in 0..n : r[1..k] \notin V}
<1>1. T = {}
    <2> SUFFICES ASSUME T # {} PROVE FALSE
        OBVIOUS
    <2>0. T \subseteq Nat
        OBVIOUS
    <2>1. PICK k \in T : \A j \in T : k <= j
        BY <2>0, Least, Zenon
    <2>2. 1..0 = {}
        OBVIOUS
    <2>3. k \in 1..n /\ k - 1 \in 0..n /\ ~ k <= k - 1
        BY <1>0, <2>1, <2>2
    <2>4. r[1..k - 1] \in V
        BY <2>1, <2>3
    <2>5. r[1..k] \in V
        BY <1>0, <2>3, <2>4
    <2> QED
        BY <2>1, <2>5
<1>2. h[0] = base
    <2>1. 1..0 = {}
        OBVIOUS
    <2> QED
        BY <1>0, <2>1
<1>3. h \in [0..n -> V]
    <2>1. \A k \in 0..n : r[1..k] \in V
        BY <1>1
    <2> QED
        BY <2>1
<1>4. ASSUME NEW k \in 1..n
      PROVE  h[k] = F[<<k, h[k - 1]>>]
    <2>1. k \in 0..n /\ k - 1 \in 0..n
        OBVIOUS
    <2>2. r[1..k - 1] \in V
        BY <1>1, <2>1
    <2>3. h[k] = r[1..k] /\ h[k - 1] = r[1..k - 1]
        BY <2>1
    <2> QED
        BY <1>0, <2>2, <2>3
<1>5. h[n] = r[1..n]
    OBVIOUS
<1> HIDE DEF h
<1>6. Walk(h, F, base, n, V)
    BY <1>2, <1>3, <1>4 DEF Walk
<1> QED
    BY <1>5, <1>6 DEF WalksTo

(* The subsets of the domain over which the community modules fold.           *)
Unfolds(r, F, base, n, V) ==
    /\ r[{}] = base
    /\ \A s \in SUBSET (1..n) : s # {} /\ r[s \ {SeqExt!Max(s)}] \in V =>
            r[s] = F[<<SeqExt!Max(s), r[s \ {SeqExt!Max(s)}]>>]

LEMMA WalkOfUnfolds ==
    ASSUME NEW n \in Nat, NEW V, NEW base \in V, NEW F \in [(1..n) \X V -> V],
           NEW r, Unfolds(r, F, base, n, V)
    PROVE  WalksTo(r[1..n], F, base, n, V)
<1>1. r[{}] = base
    BY DEF Unfolds
<1>2. ASSUME NEW k \in 1..n, r[1..k - 1] \in V
      PROVE  r[1..k] = F[<<k, r[1..k - 1]>>]
    <2>1. 1..k \in SUBSET (1..n) /\ 1..k # {} /\ SeqExt!Max(1..k) = k /\ (1..k) \ {k} = 1..k - 1
        BY MaxOfPrefix
    <2>2. r[(1..k) \ {SeqExt!Max(1..k)}] = r[1..k - 1]
        BY <2>1, Zenon
    <2>3. r[1..k] = F[<<SeqExt!Max(1..k), r[(1..k) \ {SeqExt!Max(1..k)}]>>]
        BY <1>2, <2>1, <2>2, Zenon DEF Unfolds
    <2> QED
        BY <2>1, <2>3, Zenon
<1>3. FoldsPrefixes(r, F, base, n, V)
    BY <1>1, <1>2, Zenon DEF FoldsPrefixes
<1> QED
    BY <1>3, WalkOfFold, Zenon

-------------------------------------------------------------------------------
(* Gates and their circuits. *)
GatesIn(K) ==
    {Toffoli(c, t) : c \in SUBSET (K \X BOOLEAN), t \in K}
    \cup {Fredkin(c, t, u) : c \in SUBSET (K \X BOOLEAN), t \in K, u \in K}
    \cup {Peres(c, t, u) : c \in K, t \in K, u \in K}

GateSet == GatesIn(Lines)

LEMMA SimulateToffoli ==
    ASSUME NEW c, NEW t, NEW x
    PROVE  Simulate(Toffoli(c, t), x) = IF Controlled(c, x) THEN Flip(x, t) ELSE x
<1> DEFINE g == Toffoli(c, t)
<1>1. g.type = "toffoli" /\ g.controls = c /\ g.targets = <<t>>
    BY DEF Toffoli, Gate
<1> HIDE DEF g
<1>2. g.targets[1] = t
    BY <1>1
<1> QED
    BY <1>1, <1>2 DEF Simulate, g

LEMMA SimulateFredkin ==
    ASSUME NEW c, NEW t, NEW u, NEW x
    PROVE  Simulate(Fredkin(c, t, u), x) =
             IF {d[1] : d \in c} \subseteq x THEN Swap(x, t, u) ELSE x
<1> DEFINE g == Fredkin(c, t, u)
<1>1. g.type = "fredkin" /\ g.controls = c /\ g.targets = <<t, u>>
    BY DEF Fredkin, Gate
<1> HIDE DEF g
<1>2. g.targets[1] = t /\ g.targets[2] = u /\ ControlLines(g) = {d[1] : d \in c}
    BY <1>1 DEF ControlLines
<1> QED
    BY <1>1, <1>2 DEF Simulate, g

LEMMA SimulatePeres ==
    ASSUME NEW c, NEW t, NEW u, NEW x
    PROVE  Simulate(Peres(c, t, u), x) =
             IF c \notin x THEN x ELSE IF t \in x THEN Flip(Flip(x, t), u) ELSE Flip(x, t)
<1> DEFINE g == Peres(c, t, u)
<1>1. g.type = "peres" /\ g.controls = Pos({c}) /\ g.targets = <<t, u>>
    BY DEF Peres, Gate
<1> HIDE DEF g
<1>2. g.targets[1] = t /\ g.targets[2] = u /\ ControlLines(g) = {d[1] : d \in Pos({c})}
    BY <1>1 DEF ControlLines
<1>3. ControlLines(g) = {c}
    <2>1. Pos({c}) = {<<c, TRUE>>}
        BY DEF Pos
    <2>2. <<c, TRUE>>[1] = c
        OBVIOUS
    <2> QED
        BY <1>2, <2>1, <2>2
<1>4. ControlLines(g) \subseteq x <=> c \in x
    BY <1>3
<1> QED
    BY <1>1, <1>2, <1>4 DEF Simulate, g

LEMMA FlipTypedIn ==
    ASSUME NEW K, NEW x \in SUBSET K, NEW t \in K, NEW u \in K
    PROVE  Flip(x, t) \in SUBSET K /\ Swap(x, t, u) \in SUBSET K
BY DEF Flip, Swap, SymDiff

LEMMA SimulateTypedIn ==
    ASSUME NEW K, NEW g \in GatesIn(K), NEW x \in SUBSET K
    PROVE  Simulate(g, x) \in SUBSET K
<1>1. ASSUME NEW c, NEW t \in K, g = Toffoli(c, t)
      PROVE  Simulate(g, x) \in SUBSET K
    <2>1. Flip(x, t) \in SUBSET K
        BY FlipTypedIn
    <2> QED
        BY <1>1, <2>1, SimulateToffoli
<1>2. ASSUME NEW c, NEW t \in K, NEW u \in K, g = Fredkin(c, t, u)
      PROVE  Simulate(g, x) \in SUBSET K
    <2>1. Swap(x, t, u) \in SUBSET K
        BY FlipTypedIn
    <2> QED
        BY <1>2, <2>1, SimulateFredkin
<1>3. ASSUME NEW c \in K, NEW t \in K, NEW u \in K, g = Peres(c, t, u)
      PROVE  Simulate(g, x) \in SUBSET K
    <2>1. Flip(x, t) \in SUBSET K /\ Flip(Flip(x, t), u) \in SUBSET K
        BY FlipTypedIn
    <2> QED
        BY <1>3, <2>1, SimulatePeres
<1> QED
    BY <1>1, <1>2, <1>3 DEF GatesIn

(* The assignments between the gates. *)
Trace(K, h, c, x) ==
    /\ h \in [0..Len(c) -> SUBSET K]
    /\ h[0] = x
    /\ \A k \in 1..Len(c) : h[k] = Simulate(c[k], h[k - 1])

LEMMA SimulateFoldsIn ==
    ASSUME NEW K, NEW c \in Seq(GatesIn(K)), NEW x \in SUBSET K
    PROVE  \E h : Trace(K, h, c, x) /\ SimulateCircuit(c, x) = h[Len(c)]
<1> DEFINE n == Len(c)
           F == [p \in (1..n) \X SUBSET K |-> Simulate(c[p[1]], p[2])]
           Is(it) == it = [s \in SUBSET (DOMAIN c) |->
                            IF s = {} THEN x
                            ELSE UNION {Simulate(c[SeqExt!Max(s)], z) :
                                            z \in {it[s \ {SeqExt!Max(s)}]}}]
           r == CHOOSE r : Is(r)
<1>1. n \in Nat /\ DOMAIN c = 1..n /\ \A k \in 1..n : c[k] \in GatesIn(K)
    OBVIOUS
<1>2. F \in [(1..n) \X SUBSET K -> SUBSET K]
    BY <1>1, SimulateTypedIn
<1>3. SimulateCircuit(c, x) = r[DOMAIN c]
    BY Zenon DEF SimulateCircuit, SeqExt!FoldLeft, SeqExt!MapThenFoldSet
<1>4. PICK it \in [SUBSET (1..n) -> SUBSET K] : IsFold(it, F, x, n)
    <2> HIDE DEF F, n
    <2> QED
        BY <1>1, <1>2, FoldExists
<1>5. Is(it)
    <2>1. ASSUME NEW s \in SUBSET (1..n), s # {}
          PROVE  F[<<SeqExt!Max(s), it[s \ {SeqExt!Max(s)}]>>]
                 = UNION {Simulate(c[SeqExt!Max(s)], z) : z \in {it[s \ {SeqExt!Max(s)}]}}
        <3>1. SeqExt!Max(s) \in 1..n /\ it[s \ {SeqExt!Max(s)}] \in SUBSET K
            BY <1>1, <2>1, MaxOf
        <3>2. F[<<SeqExt!Max(s), it[s \ {SeqExt!Max(s)}]>>]
              = Simulate(c[SeqExt!Max(s)], it[s \ {SeqExt!Max(s)}])
            BY <3>1
        <3> QED
            BY <3>2, ZenonT(60)
    <2> HIDE DEF F
    <2> QED
        BY <1>1, <1>4, <2>1 DEF IsFold
<1>6. Is(r)
    <2> HIDE DEF Is
    <2> QED
        BY <1>5, Zenon
<1> HIDE DEF r
<1>7. r[{}] = x
    BY <1>6
<1>8. ASSUME NEW k \in 1..n, r[1..k - 1] \in SUBSET K
      PROVE  r[1..k] = F[<<k, r[1..k - 1]>>]
    <2>1. 1..k \in SUBSET (1..n) /\ 1..k # {} /\ SeqExt!Max(1..k) = k /\ (1..k) \ {k} = 1..k - 1
        BY <1>1, MaxOfPrefix
    <2>2. 1..k \in SUBSET (DOMAIN c)
        BY <1>1, <2>1
    <2>3. r[1..k] = UNION {Simulate(c[SeqExt!Max(1..k)], z) :
                                z \in {r[(1..k) \ {SeqExt!Max(1..k)}]}}
        BY <1>6, <2>1, <2>2, Zenon
    <2>4. r[1..k] = UNION {Simulate(c[k], z) : z \in {r[1..k - 1]}}
        BY <2>1, <2>3, Zenon
    <2>5. r[1..k] = Simulate(c[k], r[1..k - 1])
        BY <2>4
    <2> QED
        BY <1>8, <2>5
<1>9. PICK h : Walk(h, F, x, n, SUBSET K) /\ r[1..n] = h[n]
    <2>1. FoldsPrefixes(r, F, x, n, SUBSET K)
        BY <1>7, <1>8, Zenon DEF FoldsPrefixes
    <2> HIDE DEF F, n
    <2> QED
        <3>1. n \in Nat
            BY <1>1
        <3>2. WalksTo(r[1..n], F, x, n, SUBSET K)
            BY <1>2, <2>1, <3>1, WalkOfFold, Zenon
        <3> QED
            BY <3>2 DEF WalksTo
<1>10. ASSUME NEW k \in 1..n
       PROVE  h[k] = Simulate(c[k], h[k - 1])
    <2>1. k - 1 \in 0..n /\ h[k - 1] \in SUBSET K
        BY <1>9 DEF Walk
    <2>2. F[<<k, h[k - 1]>>] = Simulate(c[k], h[k - 1])
        BY <2>1
    <2> HIDE DEF F
    <2> QED
        BY <1>9, <2>2 DEF Walk
<1> HIDE DEF F
<1>11. Trace(K, h, c, x)
    BY <1>9, <1>10 DEF Walk, Trace
<1> QED
    BY <1>1, <1>3, <1>9, <1>11

LEMMA TraceEndsIn ==
    ASSUME NEW K, NEW c \in Seq(GatesIn(K)), NEW x \in SUBSET K, NEW h, Trace(K, h, c, x)
    PROVE  SimulateCircuit(c, x) = h[Len(c)]
<1>1. PICK g : Trace(K, g, c, x) /\ SimulateCircuit(c, x) = g[Len(c)]
    BY SimulateFoldsIn
<1> DEFINE n == Len(c)
           T == {k \in 0..n : h[k] # g[k]}
<1>2. n \in Nat
    OBVIOUS
<1> HIDE DEF n
<1>3. h[0] = g[0] /\ \A k \in 1..n : h[k] = Simulate(c[k], h[k - 1]) /\ g[k] = Simulate(c[k], g[k - 1])
    BY <1>1 DEF Trace, n
<1>4. T = {}
    <2> SUFFICES ASSUME T # {} PROVE FALSE
        OBVIOUS
    <2>0. T \subseteq Nat
        OBVIOUS
    <2>1. PICK k \in T : \A j \in T : k <= j
        BY <2>0, Least, Zenon
    <2>2. k \in 1..n /\ k - 1 \in 0..n /\ ~ k <= k - 1
        BY <1>2, <1>3, <2>1
    <2>3. h[k - 1] = g[k - 1]
        BY <2>1, <2>2
    <2>4. h[k] = Simulate(c[k], h[k - 1]) /\ g[k] = Simulate(c[k], g[k - 1])
        BY <1>3, <2>2
    <2> QED
        BY <2>1, <2>3, <2>4
<1>5. n \in 0..n /\ n \notin T
    BY <1>2, <1>4
<1> QED
    BY <1>1, <1>5 DEF n

LEMMA CircuitTypedIn ==
    ASSUME NEW K, NEW c \in Seq(GatesIn(K)), NEW x \in SUBSET K
    PROVE  SimulateCircuit(c, x) \in SUBSET K
<1>1. PICK h : Trace(K, h, c, x) /\ SimulateCircuit(c, x) = h[Len(c)]
    BY SimulateFoldsIn
<1>2. h \in [0..Len(c) -> SUBSET K] /\ Len(c) \in 0..Len(c)
    BY <1>1 DEF Trace
<1> QED
    BY <1>1, <1>2

LEMMA SimulateNoneIn ==
    ASSUME NEW K, NEW x \in SUBSET K
    PROVE  SimulateCircuit(<<>>, x) = x
<1> DEFINE c == <<>>
<1>1. c \in Seq(GatesIn(K)) /\ Len(c) = 0
    OBVIOUS
<1>2. PICK h : Trace(K, h, c, x) /\ SimulateCircuit(c, x) = h[Len(c)]
    <2> HIDE DEF c
    <2> QED
        BY <1>1, SimulateFoldsIn
<1> QED
    BY <1>1, <1>2 DEF Trace

LEMMA SimulateOneIn ==
    ASSUME NEW K, NEW g \in GatesIn(K), NEW x \in SUBSET K
    PROVE  SimulateCircuit(<<g>>, x) = Simulate(g, x)
<1> DEFINE c == <<g>>
<1>1. c \in Seq(GatesIn(K)) /\ Len(c) = 1 /\ c[1] = g /\ 1 \in 1..1 /\ 1 - 1 = 0
    OBVIOUS
<1> HIDE DEF c
<1>2. PICK h : Trace(K, h, c, x) /\ SimulateCircuit(c, x) = h[Len(c)]
    BY <1>1, SimulateFoldsIn
<1>3. h[0] = x /\ h[1] = Simulate(c[1], h[1 - 1])
    BY <1>1, <1>2 DEF Trace
<1>4. SimulateCircuit(c, x) = Simulate(g, x)
    BY <1>1, <1>2, <1>3
<1> QED
    BY <1>4 DEF c

LEMMA SimulateBothIn ==
    ASSUME NEW K, NEW a \in Seq(GatesIn(K)), NEW b \in Seq(GatesIn(K)), NEW x \in SUBSET K
    PROVE  SimulateCircuit(a \o b, x) = SimulateCircuit(b, SimulateCircuit(a, x))
<1> DEFINE c == a \o b
           m == Len(a)
           n == Len(b)
<1>1. /\ c \in Seq(GatesIn(K)) /\ Len(c) = m + n /\ m \in Nat /\ n \in Nat
      /\ \A k \in 1..m : c[k] = a[k]
      /\ \A k \in m + 1..m + n : c[k] = b[k - m]
    BY ConcatProperties
<1>2. PICK f : Trace(K, f, a, x) /\ SimulateCircuit(a, x) = f[m]
    BY SimulateFoldsIn
<1>3. SimulateCircuit(a, x) \in SUBSET K
    BY CircuitTypedIn
<1>4. PICK g : Trace(K, g, b, SimulateCircuit(a, x))
               /\ SimulateCircuit(b, SimulateCircuit(a, x)) = g[n]
    BY <1>3, SimulateFoldsIn
<1> DEFINE h == [k \in 0..m + n |-> IF k <= m THEN f[k] ELSE g[k - m]]
<1> HIDE DEF c, m, n
<1>5. /\ f \in [0..m -> SUBSET K] /\ f[0] = x /\ g \in [0..n -> SUBSET K] /\ g[0] = f[m]
      /\ \A k \in 1..m : f[k] = Simulate(a[k], f[k - 1])
      /\ \A k \in 1..n : g[k] = Simulate(b[k], g[k - 1])
    BY <1>2, <1>4 DEF Trace, m, n
<1>6. h \in [0..m + n -> SUBSET K]
    <2> SUFFICES ASSUME NEW k \in 0..m + n PROVE h[k] \in SUBSET K
        BY Zenon
    <2>1. CASE k <= m
        <3>1. k \in 0..m
            BY <1>1, <2>1
        <3> QED
            BY <1>5, <2>1, <3>1
    <2>2. CASE ~(k <= m)
        <3>1. k - m \in 0..n
            BY <1>1, <2>2
        <3> QED
            BY <1>5, <2>2, <3>1
    <2> QED
        BY <2>1, <2>2
<1>7. ASSUME NEW k \in 1..m + n
      PROVE  h[k] = Simulate(c[k], h[k - 1])
    <2>0. k \in 0..m + n /\ k - 1 \in 0..m + n
        BY <1>1
    <2>1. CASE k <= m
        <3>1. k \in 1..m /\ k - 1 <= m
            BY <1>1, <2>1
        <3>2. h[k] = f[k] /\ h[k - 1] = f[k - 1]
            BY <2>0, <2>1, <3>1
        <3> HIDE DEF h
        <3> QED
            BY <1>1, <1>5, <3>1, <3>2
    <2>2. CASE k = m + 1
        <3>1. 1 \in 1..n /\ k \in m + 1..m + n /\ k - m = 1 /\ k - 1 = m /\ 1 - 1 = 0 /\ ~(k <= m)
            BY <1>1, <2>2
        <3>2. h[k] = g[1] /\ h[k - 1] = f[m]
            BY <1>1, <2>0, <2>2, <3>1
        <3>3. c[k] = b[1] /\ g[1] = Simulate(b[1], g[1 - 1])
            BY <1>1, <1>5, <3>1
        <3> HIDE DEF h
        <3> QED
            BY <1>5, <3>1, <3>2, <3>3
    <2>3. CASE k > m + 1
        <3>1. k - m \in 1..n /\ k \in m + 1..m + n /\ (k - m) - 1 = (k - 1) - m
              /\ ~(k <= m) /\ ~(k - 1 <= m)
            BY <1>1, <2>3
        <3>2. h[k] = g[k - m] /\ h[k - 1] = g[(k - 1) - m]
            BY <2>0, <3>1
        <3>3. c[k] = b[k - m] /\ g[k - m] = Simulate(b[k - m], g[(k - m) - 1])
            BY <1>1, <1>5, <3>1
        <3> HIDE DEF h
        <3> QED
            BY <3>1, <3>2, <3>3
    <2> QED
        BY <1>1, <2>1, <2>2, <2>3
<1>8. h[0] = x /\ h[m + n] = g[n]
    <2>1. 0 \in 0..m + n /\ m + n \in 0..m + n /\ 0 <= m
        BY <1>1
    <2>2. CASE n = 0
        BY <1>1, <1>5, <2>1, <2>2
    <2>3. CASE n > 0
        <3>1. ~(m + n <= m) /\ (m + n) - m = n
            BY <1>1, <2>3
        <3> QED
            BY <1>5, <2>1, <3>1
    <2> QED
        BY <1>1, <2>2, <2>3
<1> HIDE DEF h
<1>9. Trace(K, h, c, x)
    BY <1>1, <1>6, <1>7, <1>8 DEF Trace
<1>10. SimulateCircuit(c, x) = h[m + n]
    BY <1>1, <1>9, TraceEndsIn
<1> QED
    BY <1>4, <1>8, <1>10 DEF c, n

(* The same for all lines. *)
LEMMA FlipTyped ==
    ASSUME NEW x \in Assignments, NEW t \in Lines, NEW u \in Lines
    PROVE  Flip(x, t) \in Assignments /\ Swap(x, t, u) \in Assignments
BY FlipTypedIn DEF Assignments

LEMMA SimulateTyped ==
    ASSUME NEW g \in GateSet, NEW x \in Assignments
    PROVE  Simulate(g, x) \in Assignments
BY SimulateTypedIn DEF GateSet, Assignments

LEMMA CircuitTyped ==
    ASSUME NEW c \in Seq(GateSet), NEW x \in Assignments
    PROVE  SimulateCircuit(c, x) \in Assignments
BY CircuitTypedIn DEF GateSet, Assignments

LEMMA SimulateNone ==
    ASSUME NEW x \in Assignments
    PROVE  SimulateCircuit(<<>>, x) = x
BY SimulateNoneIn DEF Assignments

LEMMA SimulateOne ==
    ASSUME NEW g \in GateSet, NEW x \in Assignments
    PROVE  SimulateCircuit(<<g>>, x) = Simulate(g, x)
BY SimulateOneIn DEF GateSet, Assignments

LEMMA SimulateBoth ==
    ASSUME NEW a \in Seq(GateSet), NEW b \in Seq(GateSet), NEW x \in Assignments
    PROVE  SimulateCircuit(a \o b, x) = SimulateCircuit(b, SimulateCircuit(a, x))
BY SimulateBothIn DEF GateSet, Assignments

(* Gates whose controls are not their targets are their own inverses.        *)
Proper(g) ==
    \/ \E C \in SUBSET Lines : \E t \in Lines \ C : g = Toffoli(Pos(C), t)
    \/ \E C \in SUBSET Lines : \E t, u \in Lines \ C : t # u /\ g = Fredkin(Pos(C), t, u)

LEMMA PosIs ==
    ASSUME NEW C
    PROVE  /\ \A l \in C : <<l, TRUE>> \in Pos(C)
           /\ \A c \in Pos(C) : c[1] \in C /\ c[2] = TRUE /\ c = <<c[1], TRUE>>
           /\ {d[1] : d \in Pos(C)} = C
<1>1. \A l \in C : <<l, TRUE>> \in Pos(C)
    BY DEF Pos
<1>2. \A c \in Pos(C) : c[1] \in C /\ c[2] = TRUE /\ c = <<c[1], TRUE>>
    <2> TAKE c \in Pos(C)
    <2>1. PICK l \in C : c = <<l, TRUE>>
        BY DEF Pos
    <2> QED
        BY <2>1
<1>3. ASSUME NEW l \in C
      PROVE  l \in {d[1] : d \in Pos(C)}
    <2>1. <<l, TRUE>>[1] = l
        OBVIOUS
    <2> QED
        BY <1>1, <2>1, Zenon
<1> QED
    BY <1>1, <1>2, <1>3

LEMMA FlipPositive ==
    ASSUME NEW C, NEW t, NEW x
    PROVE  Simulate(Toffoli(Pos(C), t), x) = IF C \subseteq x THEN Flip(x, t) ELSE x
<1>1. Controlled(Pos(C), x) <=> C \subseteq x
    <2>1. \A l \in C : <<l, TRUE>> \in Pos(C)
        BY PosIs
    <2>3. ASSUME Controlled(Pos(C), x), NEW l \in C
          PROVE  l \in x
        <3>1. <<l, TRUE>>[1] = l /\ <<l, TRUE>>[2] = TRUE
            OBVIOUS
        <3>2. (<<l, TRUE>>[1] \in x) = <<l, TRUE>>[2]
            BY <2>1, <2>3, Zenon DEF Controlled
        <3> QED
            BY <3>1, <3>2
    <2>4. ASSUME C \subseteq x, NEW c \in Pos(C)
          PROVE  (c[1] \in x) = c[2]
        <3>1. c[1] \in C /\ c[2] = TRUE
            BY PosIs
        <3>2. c[1] \in x
            BY <2>4, <3>1
        <3>3. (c[1] \in x) = TRUE
            BY <3>2
        <3> QED
            BY <3>1, <3>3, Zenon
    <2> QED
        BY <2>3, <2>4 DEF Controlled
<1> QED
    BY <1>1, SimulateToffoli

LEMMA SwapPositive ==
    ASSUME NEW C, NEW t, NEW u, NEW x
    PROVE  Simulate(Fredkin(Pos(C), t, u), x) = IF C \subseteq x THEN Swap(x, t, u) ELSE x
<1>1. {d[1] : d \in Pos(C)} = C
    BY PosIs
<1> QED
    BY <1>1, SimulateFredkin

LEMMA Involution ==
    ASSUME NEW g, Proper(g), NEW x \in Assignments
    PROVE  /\ g \in GateSet /\ Simulate(g, x) \in Assignments
           /\ Simulate(g, Simulate(g, x)) = x
<1>0. ASSUME NEW C \in SUBSET Lines
      PROVE  Pos(C) \in SUBSET (Lines \X BOOLEAN)
    <2> SUFFICES ASSUME NEW c \in Pos(C) PROVE c \in Lines \X BOOLEAN
        OBVIOUS
    <2>1. PICK l \in Lines : c = <<l, TRUE>>
        BY PosIs
    <2> QED
        BY <2>1
<1>1. ASSUME NEW C \in SUBSET Lines, NEW t \in Lines \ C, g = Toffoli(Pos(C), t)
      PROVE  g \in GateSet /\ Simulate(g, Simulate(g, x)) = x
    <2>1. g \in GateSet
        BY <1>0, <1>1 DEF GateSet, GatesIn
    <2>2. C \subseteq Flip(x, t) <=> C \subseteq x
        BY DEF Flip, SymDiff
    <2>3. Flip(Flip(x, t), t) = x
        BY DEF Flip, SymDiff
    <2>4. \A y : Simulate(g, y) = IF C \subseteq y THEN Flip(y, t) ELSE y
        BY <1>1, FlipPositive
    <2> QED
        BY <2>1, <2>2, <2>3, <2>4
<1>2. ASSUME NEW C \in SUBSET Lines, NEW t \in Lines \ C, NEW u \in Lines \ C, t # u,
             g = Fredkin(Pos(C), t, u)
      PROVE  g \in GateSet /\ Simulate(g, Simulate(g, x)) = x
    <2>1. g \in GateSet
        BY <1>0, <1>2 DEF GateSet, GatesIn
    <2>2. C \subseteq Swap(x, t, u) <=> C \subseteq x
        BY DEF Swap, SymDiff
    <2>3. Swap(Swap(x, t, u), t, u) = x
        BY DEF Swap, SymDiff
    <2>4. \A y : Simulate(g, y) = IF C \subseteq y THEN Swap(y, t, u) ELSE y
        <3>1. ASSUME NEW y
              PROVE  Simulate(Fredkin(Pos(C), t, u), y) = IF C \subseteq y THEN Swap(y, t, u) ELSE y
            BY SwapPositive
        <3> QED
            BY <1>2, <3>1
    <2> QED
        BY <2>1, <2>2, <2>3, <2>4
<1>3. g \in GateSet /\ Simulate(g, Simulate(g, x)) = x
    BY <1>1, <1>2 DEF Proper
<1> QED
    BY <1>3, SimulateTyped

-------------------------------------------------------------------------------
(* What is left to synthesise, between the gates in front and behind.        *)
Sums ==
    {s \in [circ : Seq(GateSet), pos : Nat, tt : [Assignments -> Assignments]] :
        s.pos <= Len(s.circ)}

Front(s) == SubSeq(s.circ, 1, s.pos)
Back(s) == SubSeq(s.circ, s.pos + 1, Len(s.circ))

Rest(f, s) ==
    \A x \in Assignments : f[x] = SimulateCircuit(Back(s), s.tt[SimulateCircuit(Front(s), x)])

OneToOne(f) == \A x, y \in Assignments : f[x] = f[y] => x = y

LEMMA CutConcat ==
    ASSUME NEW S, NEW a \in Seq(S), NEW b \in Seq(S)
    PROVE  /\ a \o b \in Seq(S) /\ Len(a \o b) = Len(a) + Len(b)
           /\ SubSeq(a \o b, 1, Len(a)) = a
           /\ SubSeq(a \o b, Len(a) + 1, Len(a \o b)) = b
<1> DEFINE c == a \o b
           m == Len(a)
           n == Len(b)
<1>1. /\ c \in Seq(S) /\ Len(c) = m + n /\ m \in Nat /\ n \in Nat
      /\ \A k \in 1..m : c[k] = a[k]
      /\ \A k \in m + 1..m + n : c[k] = b[k - m]
    BY ConcatProperties
<1> DEFINE u == SubSeq(c, 1, m)
           v == SubSeq(c, m + 1, m + n)
<1>2. u \in Seq(S) /\ Len(u) = m /\ \A k \in 1..m : u[k] = c[k]
    <2> HIDE DEF c, m, n
    <2> QED
        BY <1>1
<1>3. v \in Seq(S) /\ Len(v) = n /\ \A k \in 1..n : v[k] = c[m + k]
    <2> HIDE DEF c, m, n
    <2> QED
        BY <1>1
<1> HIDE DEF c, u, v
<1>4. u = a
    BY <1>1, <1>2
<1>5. v = b
    <2>1. \A k \in 1..n : v[k] = b[k]
        <3> TAKE k \in 1..n
        <3>1. m + k \in m + 1..m + n /\ (m + k) - m = k
            BY <1>1
        <3> QED
            BY <1>1, <1>3, <3>1
    <2> QED
        BY <1>1, <1>3, <2>1
<1> QED
    BY <1>1, <1>4, <1>5 DEF c, u, v

LEMMA CutsTyped ==
    ASSUME NEW s \in Sums
    PROVE  /\ Front(s) \in Seq(GateSet) /\ Len(Front(s)) = s.pos
           /\ Back(s) \in Seq(GateSet) /\ Front(s) \o Back(s) = s.circ
<1> DEFINE c == s.circ
           m == s.pos
<1>1. c \in Seq(GateSet) /\ m \in Nat /\ m <= Len(c) /\ Len(c) \in Nat
    BY DEF Sums
<1> HIDE DEF c, m
<1> DEFINE u == SubSeq(c, 1, m)
           v == SubSeq(c, m + 1, Len(c))
<1>2. u \in Seq(GateSet) /\ Len(u) = m /\ \A k \in 1..m : u[k] = c[k]
    BY <1>1
<1>3. v \in Seq(GateSet) /\ Len(v) = Len(c) - m /\ \A k \in 1..Len(c) - m : v[k] = c[m + k]
    BY <1>1
<1> HIDE DEF u, v
<1> DEFINE w == u \o v
<1>4. /\ w \in Seq(GateSet) /\ Len(w) = Len(c)
      /\ \A k \in 1..m : w[k] = u[k]
      /\ \A k \in m + 1..Len(c) : w[k] = v[k - m]
    <2>1. Len(u) + Len(v) = Len(c)
        BY <1>1, <1>2, <1>3
    <2> QED
        BY <1>2, <1>3, <2>1, ConcatProperties, SMTT(40)
<1> HIDE DEF w
<1>5. \A k \in 1..Len(c) : w[k] = c[k]
    <2> TAKE k \in 1..Len(c)
    <2>1. CASE k <= m
        <3>1. k \in 1..m
            BY <1>1, <2>1
        <3> QED
            BY <1>2, <1>4, <3>1
    <2>2. CASE k > m
        <3>1. k \in m + 1..Len(c) /\ k - m \in 1..Len(c) - m /\ m + (k - m) = k
            BY <1>1, <2>2
        <3> QED
            BY <1>3, <1>4, <3>1
    <2> QED
        BY <1>1, <2>1, <2>2
<1>6. w = c
    BY <1>1, <1>4, <1>5
<1> QED
    BY <1>2, <1>3, <1>6 DEF Front, Back, c, m, u, v, w

LEMMA CutGates ==
    \A a, b \in Seq(GateSet) :
        /\ a \o b \in Seq(GateSet) /\ Len(a \o b) = Len(a) + Len(b)
        /\ SubSeq(a \o b, 1, Len(a)) = a
        /\ SubSeq(a \o b, Len(a) + 1, Len(a \o b)) = b
<1> TAKE a, b \in Seq(GateSet)
<1> QED
    BY CutConcat

LEMMA TieGates == \A a, b, c \in Seq(GateSet) : (a \o b) \o c = a \o (b \o c)
<1> TAKE a, b, c \in Seq(GateSet)
<1> HIDE DEF GateSet
<1> QED
    BY ConcatAssociative

(* A gate at the output side comes first of the gates behind, one at the      *)
(* input side last of the gates in front.                                   *)
LEMMA InsertSplits ==
    ASSUME NEW s \in Sums, NEW g \in GateSet, NEW dir
    PROVE  LET t == Insert(s, g, dir) IN
           /\ t \in Sums
           /\ dir = "back" =>
                /\ Front(t) = Front(s) /\ Back(t) = <<g>> \o Back(s)
                /\ \A x \in Assignments : t.tt[x] = Simulate(g, s.tt[x])
           /\ dir # "back" =>
                /\ Front(t) = Front(s) \o <<g>> /\ Back(t) = Back(s)
                /\ \A x \in Assignments : t.tt[x] = s.tt[Simulate(g, x)]
<1> DEFINE t == Insert(s, g, dir)
           p == Front(s)
           q == Back(s)
           o == <<g>>
           new == [x \in Assignments |-> IF dir = "back" THEN Simulate(g, s.tt[x])
                                         ELSE s.tt[Simulate(g, x)]]
<1>1. p \in Seq(GateSet) /\ q \in Seq(GateSet) /\ Len(p) = s.pos /\ s.pos \in Nat
    BY CutsTyped DEF Sums
<1>2. o \in Seq(GateSet) /\ Len(o) = 1
    OBVIOUS
<1>3. /\ t.circ = (p \o o) \o q
      /\ t.pos = IF dir = "back" THEN s.pos ELSE s.pos + 1
      /\ t.tt = new
      /\ t = [circ |-> t.circ, pos |-> t.pos, tt |-> t.tt]
    BY DEF Insert, InsertGate, InsertCircuit, Front, Back
<1>4. new \in [Assignments -> Assignments]
    <2>1. s.tt \in [Assignments -> Assignments]
        BY DEF Sums
    <2>2. \A x \in Assignments : s.tt[x] \in Assignments
        BY <2>1
    <2>3. \A x \in Assignments : Simulate(g, x) \in Assignments
        BY SimulateTyped
    <2>4. \A x \in Assignments : (IF dir = "back" THEN Simulate(g, s.tt[x])
                                  ELSE s.tt[Simulate(g, x)]) \in Assignments
        BY <2>2, <2>3
    <2> QED
        BY <2>4
<1>5. \A x \in Assignments : t.tt[x] = IF dir = "back" THEN Simulate(g, s.tt[x])
                                       ELSE s.tt[Simulate(g, x)]
    BY <1>3
<1> HIDE DEF t, p, q, o, new
<1>6. /\ p \o o \in Seq(GateSet) /\ Len(p \o o) = s.pos + 1
      /\ (p \o o) \o q \in Seq(GateSet) /\ Len((p \o o) \o q) = s.pos + 1 + Len(q)
      /\ SubSeq((p \o o) \o q, 1, s.pos + 1) = p \o o
      /\ SubSeq((p \o o) \o q, s.pos + 1 + 1, Len((p \o o) \o q)) = q
    <2>1. p \o o \in Seq(GateSet) /\ Len(p \o o) = Len(p) + Len(o)
        BY <1>1, <1>2, CutGates, Zenon
    <2>2. /\ (p \o o) \o q \in Seq(GateSet) /\ Len((p \o o) \o q) = Len(p \o o) + Len(q)
          /\ SubSeq((p \o o) \o q, 1, Len(p \o o)) = p \o o
          /\ SubSeq((p \o o) \o q, Len(p \o o) + 1, Len((p \o o) \o q)) = q
        BY <1>1, <2>1, CutGates, Zenon
    <2>3. Len(p \o o) = s.pos + 1
        BY <1>1, <1>2, <2>1
    <2> QED
        BY <2>1, <2>2, <2>3, Zenon
<1>7. /\ o \o q \in Seq(GateSet) /\ (p \o o) \o q = p \o (o \o q)
      /\ SubSeq((p \o o) \o q, 1, s.pos) = p
      /\ SubSeq((p \o o) \o q, s.pos + 1, Len((p \o o) \o q)) = o \o q
    <2>1. o \o q \in Seq(GateSet)
        BY <1>1, <1>2, CutGates, Zenon
    <2>2. (p \o o) \o q = p \o (o \o q)
        BY <1>1, <1>2, TieGates, Zenon
    <2>3. /\ SubSeq(p \o (o \o q), 1, Len(p)) = p
          /\ SubSeq(p \o (o \o q), Len(p) + 1, Len(p \o (o \o q))) = o \o q
        BY <1>1, <2>1, CutGates, Zenon
    <2>4. Len(p) = s.pos
        BY <1>1
    <2> QED
        BY <2>1, <2>2, <2>3, <2>4, Zenon
<1>8. Len(q) \in Nat
    BY <1>1
<1>9. t \in Sums
    <2>1. t.circ \in Seq(GateSet) /\ Len(t.circ) = s.pos + 1 + Len(q)
        BY <1>3, <1>6
    <2>2. t.pos \in Nat /\ t.pos <= Len(t.circ)
        BY <1>1, <1>3, <1>8, <2>1
    <2>3. t.tt \in [Assignments -> Assignments]
        BY <1>3, <1>4
    <2>4. t \in [circ : Seq(GateSet), pos : Nat, tt : [Assignments -> Assignments]]
        BY <1>3, <2>1, <2>2, <2>3
    <2> QED
        BY <2>2, <2>4 DEF Sums
<1>10. ASSUME dir = "back"
       PROVE  /\ Front(t) = p /\ Back(t) = o \o q
              /\ \A x \in Assignments : t.tt[x] = Simulate(g, s.tt[x])
    <2>1. t.pos = s.pos /\ \A x \in Assignments : t.tt[x] = Simulate(g, s.tt[x])
        BY <1>3, <1>5, <1>10
    <2> QED
        BY <1>3, <1>7, <2>1 DEF Front, Back
<1>11. ASSUME dir # "back"
       PROVE  /\ Front(t) = p \o o /\ Back(t) = q
              /\ \A x \in Assignments : t.tt[x] = s.tt[Simulate(g, x)]
    <2>1. t.pos = s.pos + 1 /\ \A x \in Assignments : t.tt[x] = s.tt[Simulate(g, x)]
        BY <1>3, <1>5, <1>11
    <2> QED
        BY <1>3, <1>6, <2>1 DEF Front, Back
<1> QED
    BY <1>9, <1>10, <1>11 DEF t, p, q, o

(* The gates and the truth table that is left go on making up the function.  *)
LEMMA InsertKeepsRest ==
    ASSUME NEW f, NEW s \in Sums, NEW g, Proper(g), NEW dir
    PROVE  LET t == Insert(s, g, dir) IN
           /\ t \in Sums
           /\ Rest(f, s) => Rest(f, t)
           /\ OneToOne(s.tt) => OneToOne(t.tt)
<1> DEFINE t == Insert(s, g, dir)
           p == Front(s)
           q == Back(s)
           o == <<g>>
<1>0. g \in GateSet
    BY Involution, LinesAre DEF Assignments
<1>1. /\ t \in Sums
      /\ dir = "back" => /\ Front(t) = p /\ Back(t) = o \o q
                         /\ \A x \in Assignments : t.tt[x] = Simulate(g, s.tt[x])
      /\ dir # "back" => /\ Front(t) = p \o o /\ Back(t) = q
                         /\ \A x \in Assignments : t.tt[x] = s.tt[Simulate(g, x)]
    BY <1>0, InsertSplits
<1>2. /\ p \in Seq(GateSet) /\ q \in Seq(GateSet) /\ o \in Seq(GateSet)
    BY <1>0, CutsTyped
<1>3. \A x \in Assignments : /\ s.tt[x] \in Assignments /\ Simulate(g, x) \in Assignments
                             /\ SimulateCircuit(p, x) \in Assignments
                             /\ Simulate(g, Simulate(g, x)) = x
                             /\ SimulateCircuit(o, x) = Simulate(g, x)
    <2> SUFFICES ASSUME NEW x \in Assignments
                 PROVE  /\ s.tt[x] \in Assignments /\ Simulate(g, x) \in Assignments
                        /\ SimulateCircuit(p, x) \in Assignments
                        /\ Simulate(g, Simulate(g, x)) = x
                        /\ SimulateCircuit(o, x) = Simulate(g, x)
        OBVIOUS
    <2>1. s.tt \in [Assignments -> Assignments]
        BY DEF Sums
    <2>2. SimulateCircuit(p, x) \in Assignments
        BY <1>2, CircuitTyped
    <2>3. SimulateCircuit(o, x) = Simulate(g, x)
        BY <1>0, SimulateOne
    <2>4. Simulate(g, x) \in Assignments /\ Simulate(g, Simulate(g, x)) = x
        BY Involution
    <2> QED
        BY <2>1, <2>2, <2>3, <2>4
<1> HIDE DEF t, p, q, o
<1>4. ASSUME Rest(f, s), NEW x \in Assignments
      PROVE  f[x] = SimulateCircuit(Back(t), t.tt[SimulateCircuit(Front(t), x)])
    <2>1. f[x] = SimulateCircuit(q, s.tt[SimulateCircuit(p, x)])
        BY <1>4 DEF Rest, p, q
    <2> DEFINE y == SimulateCircuit(p, x)
    <2>2. y \in Assignments /\ s.tt[y] \in Assignments
        BY <1>3
    <2> HIDE DEF y
    <2>3. CASE dir = "back"
        <3>1. Front(t) = p /\ Back(t) = o \o q /\ t.tt[y] = Simulate(g, s.tt[y])
            BY <1>1, <2>2, <2>3
        <3>2. Simulate(g, s.tt[y]) \in Assignments
            BY <1>3, <2>2
        <3>3. SimulateCircuit(o \o q, Simulate(g, s.tt[y]))
              = SimulateCircuit(q, SimulateCircuit(o, Simulate(g, s.tt[y])))
            BY <1>2, <3>2, SimulateBoth
        <3>4. SimulateCircuit(o, Simulate(g, s.tt[y])) = s.tt[y]
            BY <1>3, <2>2, <3>2
        <3> QED
            BY <2>1, <3>1, <3>3, <3>4 DEF y
    <2>4. CASE dir # "back"
        <3>1. Front(t) = p \o o /\ Back(t) = q
            BY <1>1, <2>4
        <3>2. SimulateCircuit(p \o o, x) = SimulateCircuit(o, y)
            BY <1>2, SimulateBoth DEF y
        <3>3. SimulateCircuit(o, y) = Simulate(g, y) /\ Simulate(g, y) \in Assignments
            BY <1>3, <2>2
        <3>4. t.tt[Simulate(g, y)] = s.tt[Simulate(g, Simulate(g, y))]
            BY <1>1, <2>4, <3>3
        <3>5. t.tt[Simulate(g, y)] = s.tt[y]
            BY <1>3, <2>2, <3>4
        <3> QED
            BY <2>1, <3>1, <3>2, <3>3, <3>5 DEF y
    <2> QED
        BY <2>3, <2>4
<1>5. ASSUME OneToOne(s.tt), NEW x \in Assignments, NEW y \in Assignments, t.tt[x] = t.tt[y]
      PROVE  x = y
    <2>1. s.tt[x] \in Assignments /\ s.tt[y] \in Assignments
        BY <1>3
    <2>2. CASE dir = "back"
        <3>1. Simulate(g, s.tt[x]) = Simulate(g, s.tt[y])
            BY <1>1, <1>5, <2>2
        <3>2. s.tt[x] = s.tt[y]
            BY <1>3, <2>1, <3>1
        <3> QED
            BY <1>5, <3>2 DEF OneToOne
    <2>3. CASE dir # "back"
        <3>1. s.tt[Simulate(g, x)] = s.tt[Simulate(g, y)]
            BY <1>1, <1>5, <2>3
        <3>2. Simulate(g, x) = Simulate(g, y)
            BY <1>3, <1>5, <3>1 DEF OneToOne
        <3> QED
            BY <1>3, <3>2
    <2> QED
        BY <2>2, <2>3
<1>6. Rest(f, s) => Rest(f, t)
    BY <1>4 DEF Rest
<1>7. OneToOne(s.tt) => OneToOne(t.tt)
    BY <1>5 DEF OneToOne
<1> QED
    BY <1>1, <1>6, <1>7 DEF t
-------------------------------------------------------------------------------
(* adjust_line: while row x is adjusted, mask is its output, or the input     *)
(* whose output it is, and the rows before x stay.                          *)
Fixed(tt, x) == \A y \in Assignments : Smaller(y, x) => tt[y] = y

Anchor(s, mask, x, dir) == IF dir = "back" THEN s.tt[x] = mask ELSE s.tt[mask] = x

Aligned(s, mask, x, dir, f) ==
    /\ s \in Sums /\ mask \in Assignments
    /\ Rest(f, s) /\ OneToOne(s.tt) /\ Fixed(s.tt, x)
    /\ Anchor(s, mask, x, dir)

Silent(g, x) == \A y \in Assignments : Smaller(y, x) => Simulate(g, y) = y

LEMMA GateStep ==
    ASSUME NEW f, NEW s, NEW mask, NEW x \in Assignments, NEW dir, NEW g,
           Aligned(s, mask, x, dir, f), Proper(g), Silent(g, x)
    PROVE  Aligned(Insert(s, g, dir), Simulate(g, mask), x, dir, f)
<1> DEFINE t == Insert(s, g, dir)
           next == Simulate(g, mask)
<1>1. /\ s \in Sums /\ mask \in Assignments /\ s.tt \in [Assignments -> Assignments]
      /\ Rest(f, s) /\ OneToOne(s.tt) /\ Fixed(s.tt, x)
      /\ Anchor(s, mask, x, dir)
    BY DEF Aligned, Sums
<1>2. g \in GateSet /\ next \in Assignments /\ Simulate(g, next) = mask
    BY <1>1, Involution
<1>3. t \in Sums /\ Rest(f, t) /\ OneToOne(t.tt)
    BY <1>1, InsertKeepsRest
<1>4. /\ dir = "back" => \A y \in Assignments : t.tt[y] = Simulate(g, s.tt[y])
      /\ dir # "back" => \A y \in Assignments : t.tt[y] = s.tt[Simulate(g, y)]
    <2>1. s \in Sums /\ g \in GateSet
        BY <1>1, <1>2
    <2>2. dir = "back" => \A y \in Assignments : t.tt[y] = Simulate(g, s.tt[y])
        BY <2>1, InsertSplits, ZenonT(60)
    <2>3. dir # "back" => \A y \in Assignments : t.tt[y] = s.tt[Simulate(g, y)]
        BY <2>1, InsertSplits, ZenonT(60)
    <2> QED
        BY <2>2, <2>3
<1> HIDE DEF t, next
<1>5. Fixed(t.tt, x)
    <2> SUFFICES ASSUME NEW y \in Assignments, Smaller(y, x) PROVE t.tt[y] = y
        BY DEF Fixed
    <2>1. s.tt[y] = y /\ Simulate(g, y) = y
        BY <1>1 DEF Fixed, Silent
    <2> QED
        BY <1>4, <2>1
<1>6. Anchor(t, next, x, dir)
    <2>1. CASE dir = "back"
        <3>1. s.tt[x] = mask
            BY <1>1, <2>1 DEF Anchor
        <3>2. t.tt[x] = next
            BY <1>4, <2>1, <3>1 DEF next
        <3> QED
            BY <2>1, <3>2 DEF Anchor
    <2>2. CASE dir # "back"
        <3>1. s.tt[mask] = x
            BY <1>1, <2>2 DEF Anchor
        <3>2. t.tt[next] = x
            BY <1>2, <1>4, <2>2, <3>1
        <3> QED
            BY <2>2, <3>2 DEF Anchor
    <2> QED
        BY <2>1, <2>2
<1> QED
    BY <1>2, <1>3, <1>5, <1>6 DEF Aligned, t, next

(* No row before x is taken: each is the output of itself.                   *)
LEMMA MaskIsNotBefore ==
    ASSUME NEW f, NEW s, NEW mask, NEW x \in Assignments, NEW dir,
           Aligned(s, mask, x, dir, f)
    PROVE  ~Smaller(mask, x)
<1> SUFFICES ASSUME Smaller(mask, x) PROVE FALSE
    OBVIOUS
<1>1. /\ s.tt[mask] = mask /\ mask \in Assignments /\ OneToOne(s.tt)
      /\ Anchor(s, mask, x, dir)
    BY DEF Aligned, Fixed
<1>2. CASE dir = "back"
    <2>1. s.tt[x] = s.tt[mask]
        BY <1>1, <1>2 DEF Anchor
    <2>2. x = mask
        BY <1>1, <2>1 DEF OneToOne
    <2> QED
        BY <2>2, SmallerIrreflexive
<1>3. CASE dir # "back"
    <2>1. x = mask
        BY <1>1, <1>3 DEF Anchor
    <2> QED
        BY <2>1, SmallerIrreflexive
<1> QED
    BY <1>2, <1>3

LEMMA FlipIs ==
    ASSUME NEW x, NEW l
    PROVE  /\ l \notin x => Flip(x, l) = x \cup {l}
           /\ l \in x => Flip(x, l) = x \ {l}
BY DEF Flip, SymDiff

LEMMA RaiseStep ==
    ASSUME NEW f, NEW s, NEW mask, NEW x \in Assignments, NEW dir,
           Aligned(s, mask, x, dir, f), NEW l \in Lines, l \notin mask
    PROVE  Aligned(Insert(s, Toffoli(Pos(mask), l), dir), mask \cup {l}, x, dir, f)
<1> DEFINE g == Toffoli(Pos(mask), l)
<1>1. mask \in Assignments /\ ~Smaller(mask, x)
    BY MaskIsNotBefore DEF Aligned
<1>2. Proper(g)
    BY <1>1 DEF Proper, Assignments
<1>3. \A y : Simulate(g, y) = IF mask \subseteq y THEN Flip(y, l) ELSE y
    BY FlipPositive
<1> HIDE DEF g
<1>4. Silent(g, x)
    <2> SUFFICES ASSUME NEW y \in Assignments, Smaller(y, x) PROVE Simulate(g, y) = y
        BY DEF Silent
    <2>1. ~(mask \subseteq y)
        BY <1>1, NoPartOfSmaller
    <2> QED
        BY <1>3, <2>1
<1>5. Simulate(g, mask) = mask \cup {l}
    BY <1>3, FlipIs
<1>6. Aligned(Insert(s, g, dir), Simulate(g, mask), x, dir, f)
    BY <1>2, <1>4, GateStep
<1> QED
    BY <1>5, <1>6 DEF g

LEMMA LowerStep ==
    ASSUME NEW f, NEW s, NEW mask, NEW x \in Assignments, NEW dir,
           Aligned(s, mask, x, dir, f), NEW l \in mask, x \subseteq mask \ {l}
    PROVE  Aligned(Insert(s, Toffoli(Pos(mask \ {l}), l), dir), mask \ {l}, x, dir, f)
<1> DEFINE C == mask \ {l}
           g == Toffoli(Pos(C), l)
<1>1. mask \in Assignments /\ l \in Lines /\ C \in SUBSET Lines /\ l \notin C
    BY DEF Aligned, Assignments
<1>2. Proper(g)
    BY <1>1 DEF Proper
<1>3. \A y : Simulate(g, y) = IF C \subseteq y THEN Flip(y, l) ELSE y
    <2> HIDE DEF C
    <2> QED
        BY FlipPositive
<1> HIDE DEF g
<1>4. Silent(g, x)
    <2> SUFFICES ASSUME NEW y \in Assignments, Smaller(y, x) PROVE Simulate(g, y) = y
        BY DEF Silent
    <2>1. ~(x \subseteq y)
        BY PartsAreNotLarger
    <2>2. ~(C \subseteq y)
        BY <2>1
    <2> QED
        BY <1>3, <2>2
<1>5. Simulate(g, mask) = mask \ {l}
    BY <1>3, FlipIs
<1>6. Aligned(Insert(s, g, dir), Simulate(g, mask), x, dir, f)
    BY <1>2, <1>4, GateStep
<1> QED
    BY <1>5, <1>6 DEF g

LEMMA SwapStep ==
    ASSUME NEW f, NEW s, NEW mask, NEW x \in Assignments, NEW dir,
           Aligned(s, mask, x, dir, f), NEW lookback, NEW p, NEW q,
           NEW l1 \in Lines, NEW l2 \in Lines, l1 \notin mask, l2 \in mask,
           MayExchange([s |-> s, p |-> p, q |-> q, mask |-> mask], l1, l2, x, lookback)
    PROVE  Aligned(Insert(s, Fredkin(Pos(mask \ {l1, l2}), l1, l2), dir),
                   (mask \cup {l1}) \ {l2}, x, dir, f)
<1> DEFINE C == mask \ {l1, l2}
           g == Fredkin(Pos(C), l1, l2)
<1>1. mask \in Assignments /\ C \in SUBSET Lines /\ l1 \in Lines \ C /\ l2 \in Lines \ C
      /\ l1 # l2
    BY DEF Aligned, Assignments
<1>2. Proper(g)
    BY <1>1 DEF Proper
<1>3. \A y : Simulate(g, y) = IF C \subseteq y THEN Swap(y, l1, l2) ELSE y
    <2> HIDE DEF C
    <2> QED
        BY SwapPositive
<1>4. \/ Smaller(x, C)
      \/ \A y \in Below(x) : C \subseteq y => ((l1 \in y) = (l2 \in y))
    BY DEF MayExchange
<1> HIDE DEF g
<1>5. Silent(g, x)
    <2> SUFFICES ASSUME NEW y \in Assignments, Smaller(y, x) PROVE Simulate(g, y) = y
        BY DEF Silent
    <2>1. CASE Smaller(x, C)
        <3>1. C \in Assignments /\ Smaller(y, C)
            BY <1>1, <2>1, SmallerTransitive DEF Assignments
        <3>2. ~Smaller(C, x)
            BY <2>1, <3>1, SmallerTransitive, SmallerIrreflexive
        <3>3. ~(C \subseteq y)
            <4> HIDE DEF C
            <4> QED
                BY <3>1, <3>2, NoPartOfSmaller
        <3> QED
            BY <1>3, <3>3
    <2>2. CASE \A z \in Below(x) : C \subseteq z => ((l1 \in z) = (l2 \in z))
        <3>1. C \subseteq y => ((l1 \in y) = (l2 \in y))
            BY <2>2 DEF Below
        <3> QED
            BY <1>3, <3>1 DEF Swap
    <2> QED
        BY <1>4, <2>1, <2>2
<1>6. Simulate(g, mask) = (mask \cup {l1}) \ {l2}
    <2>1. Simulate(g, mask) = Swap(mask, l1, l2)
        BY <1>3
    <2> QED
        BY <2>1 DEF Swap, SymDiff
<1>7. Aligned(Insert(s, g, dir), Simulate(g, mask), x, dir, f)
    BY <1>2, <1>5, GateStep
<1> QED
    BY <1>6, <1>7 DEF g
-------------------------------------------------------------------------------
(* The loops of adjust_line. *)
LEMMA Ladder ==
    ASSUME NEW n \in Nat, NEW T, 0 \in T, \A k \in 1..n : k - 1 \in T => k \in T
    PROVE  \A k \in 0..n : k \in T
<1> DEFINE D == {k \in 0..n : k \notin T}
<1> SUFFICES ASSUME D # {} PROVE FALSE
    OBVIOUS
<1>0. D \subseteq Nat
    OBVIOUS
<1>1. PICK k \in D : \A j \in D : k <= j
    BY <1>0, Least, Zenon
<1>2. k \in 1..n /\ k - 1 \in 0..n /\ ~ k <= k - 1
    BY <1>1
<1> QED
    BY <1>1, <1>2

Works == [s : Sums, p : SUBSET Lines, q : SUBSET Lines, mask : SUBSET Lines]

Raised(v, l, dir) ==
    [v EXCEPT !.s = Insert(@, Toffoli(Pos(v.mask), l), dir), !.mask = @ \cup {l}]

Lowered(v, l, dir) ==
    [v EXCEPT !.s = Insert(@, Toffoli(Pos(v.mask \ {l}), l), dir), !.mask = @ \ {l}]

LEMMA ToffoliTyped ==
    ASSUME NEW C \in SUBSET Lines, NEW l \in Lines
    PROVE  Toffoli(Pos(C), l) \in GateSet
<1>1. Pos(C) \in SUBSET (Lines \X BOOLEAN)
    <2> SUFFICES ASSUME NEW c \in Pos(C) PROVE c \in Lines \X BOOLEAN
        OBVIOUS
    <2>1. PICK k \in Lines : c = <<k, TRUE>>
        BY PosIs
    <2> QED
        BY <2>1
<1> QED
    BY <1>1 DEF GateSet, GatesIn

LEMMA RaisedIs ==
    ASSUME NEW v \in Works, NEW l \in Lines, NEW dir
    PROVE  /\ Raised(v, l, dir) \in Works
           /\ Raised(v, l, dir).s = Insert(v.s, Toffoli(Pos(v.mask), l), dir)
           /\ Raised(v, l, dir).mask = v.mask \cup {l}
           /\ Raised(v, l, dir).p = v.p /\ Raised(v, l, dir).q = v.q
<1> DEFINE t == Insert(v.s, Toffoli(Pos(v.mask), l), dir)
<1>1. v.s \in Sums /\ v.mask \in SUBSET Lines /\ v.p \in SUBSET Lines /\ v.q \in SUBSET Lines
    BY DEF Works
<1>2. t \in Sums
    BY <1>1, ToffoliTyped, InsertSplits
<1> HIDE DEF t
<1>3. Raised(v, l, dir) = [s |-> t, p |-> v.p, q |-> v.q, mask |-> v.mask \cup {l}]
    <2>1. v = [s |-> v.s, p |-> v.p, q |-> v.q, mask |-> v.mask]
        BY DEF Works
    <2>2. Raised(v, l, dir) = [[v EXCEPT !.s = t] EXCEPT !.mask = v.mask \cup {l}]
        BY <2>1 DEF Raised, t
    <2> DEFINE u == [v EXCEPT !.s = t]
    <2>3. u = [s |-> t, p |-> v.p, q |-> v.q, mask |-> v.mask]
        BY <2>1
    <2>4. [u EXCEPT !.mask = v.mask \cup {l}] = [s |-> t, p |-> v.p, q |-> v.q, mask |-> v.mask \cup {l}]
        <3> HIDE DEF u
        <3> QED
            BY <2>3
    <2> QED
        BY <2>2, <2>4
<1> QED
    BY <1>1, <1>2, <1>3 DEF Works, t

LEMMA LoweredIs ==
    ASSUME NEW v \in Works, NEW l \in Lines, NEW dir
    PROVE  /\ Lowered(v, l, dir) \in Works
           /\ Lowered(v, l, dir).s = Insert(v.s, Toffoli(Pos(v.mask \ {l}), l), dir)
           /\ Lowered(v, l, dir).mask = v.mask \ {l}
           /\ Lowered(v, l, dir).p = v.p /\ Lowered(v, l, dir).q = v.q
<1> DEFINE t == Insert(v.s, Toffoli(Pos(v.mask \ {l}), l), dir)
<1>1. v.s \in Sums /\ v.mask \in SUBSET Lines /\ v.p \in SUBSET Lines /\ v.q \in SUBSET Lines
      /\ v.mask \ {l} \in SUBSET Lines
    BY DEF Works
<1>2. t \in Sums
    BY <1>1, ToffoliTyped, InsertSplits
<1> HIDE DEF t
<1>3. Lowered(v, l, dir) = [s |-> t, p |-> v.p, q |-> v.q, mask |-> v.mask \ {l}]
    <2>1. v = [s |-> v.s, p |-> v.p, q |-> v.q, mask |-> v.mask]
        BY DEF Works
    <2>2. Lowered(v, l, dir) = [[v EXCEPT !.s = t] EXCEPT !.mask = v.mask \ {l}]
        BY <2>1 DEF Lowered, t
    <2> DEFINE u == [v EXCEPT !.s = t]
    <2>3. u = [s |-> t, p |-> v.p, q |-> v.q, mask |-> v.mask]
        BY <2>1
    <2>4. [u EXCEPT !.mask = v.mask \ {l}] = [s |-> t, p |-> v.p, q |-> v.q, mask |-> v.mask \ {l}]
        <3> HIDE DEF u
        <3> QED
            BY <2>3
    <2> QED
        BY <2>2, <2>4
<1> QED
    BY <1>1, <1>2, <1>3 DEF Works, t

RaiseWalk(h, w, dir) ==
    /\ h \in [0..Cardinality(w.p) -> Works] /\ h[0] = w
    /\ \A k \in 1..Cardinality(w.p) : h[k] = Raised(h[k - 1], Downwards(w.p)[k], dir)

LowerWalk(h, w, dir) ==
    /\ h \in [0..Cardinality(w.q) -> Works] /\ h[0] = w
    /\ \A k \in 1..Cardinality(w.q) : h[k] = Lowered(h[k - 1], Downwards(w.q)[k], dir)

LEMMA RaiseFolds ==
    ASSUME NEW w \in Works, NEW dir
    PROVE  \E h : RaiseWalk(h, w, dir) /\ Raise(w, dir) = h[Cardinality(w.p)]
<1> DEFINE n == Cardinality(w.p)
           order == Downwards(w.p)
           F == [e \in (1..n) \X Works |-> Raised(e[2], order[e[1]], dir)]
           Is(it) == it = [s \in SUBSET (DOMAIN order) |->
                            IF s = {} THEN w
                            ELSE Raised(it[s \ {SeqExt!Max(s)}], order[SeqExt!Max(s)], dir)]
           r == CHOOSE r : Is(r)
<1>0. w.p \in SUBSET Lines /\ w \in Works
    BY DEF Works
<1>1. n \in Nat /\ DOMAIN order = 1..n /\ \A k \in 1..n : order[k] \in Lines
    <2>1. n \in Nat /\ order \in [1..n -> w.p]
        BY <1>0, DownwardsLists
    <2> HIDE DEF n, order
    <2> QED
        BY <1>0, <2>1
<1>2. Raise(w, dir) = r[DOMAIN order]
    BY Zenon DEF Raise, Raised, SeqExt!FoldLeft, SeqExt!MapThenFoldSet
<1> HIDE DEF n, order
<1>3. F \in [(1..n) \X Works -> Works]
    <2>1. \A e \in (1..n) \X Works : Raised(e[2], order[e[1]], dir) \in Works
        BY <1>1, RaisedIs
    <2> QED
        BY <2>1
<1>4. PICK it \in [SUBSET (1..n) -> Works] : IsFold(it, F, w, n)
    <2> HIDE DEF F
    <2> QED
        BY <1>0, <1>1, <1>3, FoldExists
<1>5. Is(it)
    <2>1. ASSUME NEW s \in SUBSET (1..n), s # {}
          PROVE  F[<<SeqExt!Max(s), it[s \ {SeqExt!Max(s)}]>>]
                 = Raised(it[s \ {SeqExt!Max(s)}], order[SeqExt!Max(s)], dir)
        <3>1. SeqExt!Max(s) \in 1..n /\ it[s \ {SeqExt!Max(s)}] \in Works
            BY <1>1, <2>1, MaxOf
        <3> QED
            BY <3>1
    <2> HIDE DEF F
    <2> QED
        BY <1>1, <1>4, <2>1 DEF IsFold
<1>6. Is(r)
    <2> HIDE DEF Is
    <2> QED
        BY <1>5, Zenon
<1> HIDE DEF r
<1>7. r[{}] = w
    BY <1>6
<1>8. ASSUME NEW k \in 1..n, r[1..k - 1] \in Works
      PROVE  r[1..k] = F[<<k, r[1..k - 1]>>]
    <2>1. 1..k \in SUBSET (1..n) /\ 1..k # {} /\ SeqExt!Max(1..k) = k /\ (1..k) \ {k} = 1..k - 1
        BY <1>1, MaxOfPrefix
    <2>2. 1..k \in SUBSET (DOMAIN order)
        BY <1>1, <2>1
    <2>3. r[1..k] = Raised(r[(1..k) \ {SeqExt!Max(1..k)}], order[SeqExt!Max(1..k)], dir)
        BY <1>6, <2>1, <2>2, Zenon
    <2>4. r[1..k] = Raised(r[1..k - 1], order[k], dir)
        BY <2>1, <2>3, Zenon
    <2> QED
        BY <1>8, <2>4
<1>9. PICK h : Walk(h, F, w, n, Works) /\ r[1..n] = h[n]
    <2>1. FoldsPrefixes(r, F, w, n, Works)
        BY <1>7, <1>8, Zenon DEF FoldsPrefixes
    <2> HIDE DEF F
    <2>2. n \in Nat
        BY <1>1
    <2>3. WalksTo(r[1..n], F, w, n, Works)
        BY <1>0, <1>3, <2>1, <2>2, WalkOfFold, Zenon
    <2> QED
        BY <2>3 DEF WalksTo
<1>10. ASSUME NEW k \in 1..n
       PROVE  h[k] = Raised(h[k - 1], order[k], dir)
    <2>1. k - 1 \in 0..n /\ h[k - 1] \in Works
        BY <1>1, <1>9 DEF Walk
    <2>2. F[<<k, h[k - 1]>>] = Raised(h[k - 1], order[k], dir)
        BY <2>1
    <2> HIDE DEF F
    <2> QED
        BY <1>9, <2>2 DEF Walk
<1> HIDE DEF F
<1>11. RaiseWalk(h, w, dir)
    BY <1>9, <1>10 DEF Walk, RaiseWalk, n, order
<1> QED
    BY <1>1, <1>2, <1>9, <1>11 DEF n

LEMMA LowerFolds ==
    ASSUME NEW w \in Works, NEW dir
    PROVE  \E h : LowerWalk(h, w, dir) /\ Lower(w, dir) = h[Cardinality(w.q)]
<1> DEFINE n == Cardinality(w.q)
           order == Downwards(w.q)
           F == [e \in (1..n) \X Works |-> Lowered(e[2], order[e[1]], dir)]
           Is(it) == it = [s \in SUBSET (DOMAIN order) |->
                            IF s = {} THEN w
                            ELSE Lowered(it[s \ {SeqExt!Max(s)}], order[SeqExt!Max(s)], dir)]
           r == CHOOSE r : Is(r)
<1>0. w.q \in SUBSET Lines /\ w \in Works
    BY DEF Works
<1>1. n \in Nat /\ DOMAIN order = 1..n /\ \A k \in 1..n : order[k] \in Lines
    <2>1. n \in Nat /\ order \in [1..n -> w.q]
        BY <1>0, DownwardsLists
    <2> HIDE DEF n, order
    <2> QED
        BY <1>0, <2>1
<1>2. Lower(w, dir) = r[DOMAIN order]
    BY Zenon DEF Lower, Lowered, SeqExt!FoldLeft, SeqExt!MapThenFoldSet
<1> HIDE DEF n, order
<1>3. F \in [(1..n) \X Works -> Works]
    <2>1. \A e \in (1..n) \X Works : Lowered(e[2], order[e[1]], dir) \in Works
        BY <1>1, LoweredIs
    <2> QED
        BY <2>1
<1>4. PICK it \in [SUBSET (1..n) -> Works] : IsFold(it, F, w, n)
    <2> HIDE DEF F
    <2> QED
        BY <1>0, <1>1, <1>3, FoldExists
<1>5. Is(it)
    <2>1. ASSUME NEW s \in SUBSET (1..n), s # {}
          PROVE  F[<<SeqExt!Max(s), it[s \ {SeqExt!Max(s)}]>>]
                 = Lowered(it[s \ {SeqExt!Max(s)}], order[SeqExt!Max(s)], dir)
        <3>1. SeqExt!Max(s) \in 1..n /\ it[s \ {SeqExt!Max(s)}] \in Works
            BY <1>1, <2>1, MaxOf
        <3> QED
            BY <3>1
    <2> HIDE DEF F
    <2> QED
        BY <1>1, <1>4, <2>1 DEF IsFold
<1>6. Is(r)
    <2> HIDE DEF Is
    <2> QED
        BY <1>5, Zenon
<1> HIDE DEF r
<1>7. r[{}] = w
    BY <1>6
<1>8. ASSUME NEW k \in 1..n, r[1..k - 1] \in Works
      PROVE  r[1..k] = F[<<k, r[1..k - 1]>>]
    <2>1. 1..k \in SUBSET (1..n) /\ 1..k # {} /\ SeqExt!Max(1..k) = k /\ (1..k) \ {k} = 1..k - 1
        BY <1>1, MaxOfPrefix
    <2>2. 1..k \in SUBSET (DOMAIN order)
        BY <1>1, <2>1
    <2>3. r[1..k] = Lowered(r[(1..k) \ {SeqExt!Max(1..k)}], order[SeqExt!Max(1..k)], dir)
        BY <1>6, <2>1, <2>2, Zenon
    <2>4. r[1..k] = Lowered(r[1..k - 1], order[k], dir)
        BY <2>1, <2>3, Zenon
    <2> QED
        BY <1>8, <2>4
<1>9. PICK h : Walk(h, F, w, n, Works) /\ r[1..n] = h[n]
    <2>1. FoldsPrefixes(r, F, w, n, Works)
        BY <1>7, <1>8, Zenon DEF FoldsPrefixes
    <2> HIDE DEF F
    <2>2. n \in Nat
        BY <1>1
    <2>3. WalksTo(r[1..n], F, w, n, Works)
        BY <1>0, <1>3, <2>1, <2>2, WalkOfFold, Zenon
    <2> QED
        BY <2>3 DEF WalksTo
<1>10. ASSUME NEW k \in 1..n
       PROVE  h[k] = Lowered(h[k - 1], order[k], dir)
    <2>1. k - 1 \in 0..n /\ h[k - 1] \in Works
        BY <1>1, <1>9 DEF Walk
    <2>2. F[<<k, h[k - 1]>>] = Lowered(h[k - 1], order[k], dir)
        BY <2>1
    <2> HIDE DEF F
    <2> QED
        BY <1>9, <2>2 DEF Walk
<1> HIDE DEF F
<1>11. LowerWalk(h, w, dir)
    BY <1>9, <1>10 DEF Walk, LowerWalk, n, order
<1> QED
    BY <1>1, <1>2, <1>9, <1>11 DEF n

LEMMA MaxOfLines ==
    ASSUME NEW S \in SUBSET Lines, S # {}
    PROVE  Max(S) \in S
<1> DEFINE T == {num_lines - l : l \in S}
<1>0. \A l \in S : l \in Nat /\ num_lines - l \in Nat
    BY LinesAre DEF Lines
<1>1. T \subseteq Nat /\ T # {}
    BY <1>0
<1>2. PICK m \in T : \A k \in T : m <= k
    BY <1>1, Least, Zenon
<1>3. PICK j \in S : m = num_lines - j
    BY <1>2
<1>4. \A l \in S : num_lines - l \in T
    OBVIOUS
<1>5. \A l \in S : j >= l
    <2> TAKE l \in S
    <2>1. num_lines - l \in T
        BY <1>4
    <2> HIDE DEF T
    <2>2. num_lines - j <= num_lines - l
        BY <1>2, <1>3, <2>1
    <2>3. l \in Int /\ j \in Int /\ num_lines \in Int
        BY <1>0, LinesAre
    <2> QED
        BY <2>2, <2>3
<1>6. \E k \in S : \A l \in S : k >= l
    BY <1>5
<1> QED
    BY <1>6, Zenon DEF Max

Exchanged(v, l1, l2, dir) ==
    [s |-> Insert(v.s, Fredkin(Pos(v.mask \ {l1, l2}), l1, l2), dir),
     p |-> v.p \ {l1}, q |-> v.q \ {l2}, mask |-> (v.mask \cup {l1}) \ {l2}]

LEMMA ExchangeIs ==
    ASSUME NEW v \in Works, NEW goal, NEW dir, NEW lookback
    PROVE  \/ Exchange(v, goal, dir, lookback) = v
           \/ \E l1 \in v.p, l2 \in v.q :
                /\ MayExchange(v, l1, l2, goal, lookback)
                /\ Exchange(v, goal, dir, lookback) = Exchanged(v, l1, l2, dir)
<1> DEFINE pairs == {e \in v.p \X v.q : MayExchange(v, e[1], e[2], goal, lookback)}
           firsts == {e[1] : e \in pairs}
           l1 == Max(firsts)
           seconds == {e[2] : e \in {d \in pairs : d[1] = l1}}
           l2 == Max(seconds)
<1>0. v.p \in SUBSET Lines /\ v.q \in SUBSET Lines
    BY DEF Works
<1>1. CASE pairs = {}
    BY <1>1, Zenon DEF Exchange
<1>2. CASE pairs # {}
    <2>1. firsts \in SUBSET Lines /\ firsts # {}
        BY <1>0, <1>2
    <2>2. l1 \in firsts
        <3> HIDE DEF firsts
        <3> QED
            BY <2>1, MaxOfLines
    <2> HIDE DEF l1
    <2>3. seconds \in SUBSET Lines /\ seconds # {}
        BY <1>0, <2>2
    <2>4. l2 \in seconds
        <3> HIDE DEF seconds
        <3> QED
            BY <2>3, MaxOfLines
    <2>5. Exchange(v, goal, dir, lookback) = Exchanged(v, l1, l2, dir)
        BY <1>2, Zenon DEF Exchange, Exchanged, l1
    <2> HIDE DEF l2
    <2>6. PICK e \in pairs : e[1] = l1 /\ e[2] = l2
        BY <2>4
    <2>7. l1 \in v.p /\ l2 \in v.q /\ MayExchange(v, l1, l2, goal, lookback)
        BY <2>6
    <2> QED
        BY <2>5, <2>7
<1> QED
    BY <1>1, <1>2

LEMMA ExchangeTyped ==
    ASSUME NEW v \in Works, NEW goal, NEW dir, NEW lookback
    PROVE  Exchange(v, goal, dir, lookback) \in Works
<1>1. ASSUME NEW l1 \in v.p, NEW l2 \in v.q
      PROVE  Exchanged(v, l1, l2, dir) \in Works
    <2> DEFINE C == v.mask \ {l1, l2}
               t == Insert(v.s, Fredkin(Pos(C), l1, l2), dir)
    <2>1. /\ v.s \in Sums /\ v.mask \in SUBSET Lines /\ v.p \in SUBSET Lines
          /\ v.q \in SUBSET Lines /\ l1 \in Lines /\ l2 \in Lines /\ C \in SUBSET Lines
        BY DEF Works
    <2>2. Pos(C) \in SUBSET (Lines \X BOOLEAN)
        <3> SUFFICES ASSUME NEW c \in Pos(C) PROVE c \in Lines \X BOOLEAN
            OBVIOUS
        <3>1. PICK k \in Lines : c = <<k, TRUE>>
            BY <2>1, PosIs
        <3> QED
            BY <3>1
    <2>3. Fredkin(Pos(C), l1, l2) \in GateSet
        <3> HIDE DEF C
        <3> QED
            BY <2>1, <2>2 DEF GateSet, GatesIn
    <2>4. t \in Sums
        BY <2>1, <2>3, InsertSplits
    <2>5. Exchanged(v, l1, l2, dir)
          = [s |-> t, p |-> v.p \ {l1}, q |-> v.q \ {l2}, mask |-> (v.mask \cup {l1}) \ {l2}]
        BY DEF Exchanged
    <2> HIDE DEF t
    <2> QED
        BY <2>1, <2>4, <2>5 DEF Works
<1> QED
    BY <1>1, ExchangeIs

ExchangeWalk(h, w, goal, dir, lookback) ==
    /\ h \in [0..Cardinality(w.p) -> Works] /\ h[0] = w
    /\ \A k \in 1..Cardinality(w.p) : h[k] = Exchange(h[k - 1], goal, dir, lookback)

LEMMA ExchangesFolds ==
    ASSUME NEW w \in Works, NEW goal, NEW dir, NEW lookback
    PROVE  \E h : ExchangeWalk(h, w, goal, dir, lookback) /\ Exchanges(w, goal, dir, lookback) = h[Cardinality(w.p)]
<1> DEFINE n == Cardinality(w.p)
           order == [i \in 1..n |-> i]
           F == [e \in (1..n) \X Works |-> Exchange(e[2], goal, dir, lookback)]
           Is(it) == it = [s \in SUBSET (DOMAIN order) |->
                            IF s = {} THEN w
                            ELSE Exchange(it[s \ {SeqExt!Max(s)}], goal, dir, lookback)]
           r == CHOOSE r : Is(r)
<1>0. w.p \in SUBSET Lines /\ w \in Works
    BY DEF Works
<1>1. n \in Nat /\ DOMAIN order = 1..n 
    <2>1. IsFiniteSet(w.p)
        BY <1>0, AreFinite
    <2>2. n \in Nat
        BY <2>1, FS_CardinalityType
    <2> QED
        BY <2>2
<1>2. Exchanges(w, goal, dir, lookback) = r[DOMAIN order]
    BY Zenon DEF Exchanges, SeqExt!FoldLeft, SeqExt!MapThenFoldSet
<1> HIDE DEF n, order
<1>3. F \in [(1..n) \X Works -> Works]
    <2>1. \A e \in (1..n) \X Works : Exchange(e[2], goal, dir, lookback) \in Works
        BY <1>1, ExchangeTyped
    <2> QED
        BY <2>1
<1>4. PICK it \in [SUBSET (1..n) -> Works] : IsFold(it, F, w, n)
    <2> HIDE DEF F
    <2> QED
        BY <1>0, <1>1, <1>3, FoldExists
<1>5. Is(it)
    <2>1. ASSUME NEW s \in SUBSET (1..n), s # {}
          PROVE  F[<<SeqExt!Max(s), it[s \ {SeqExt!Max(s)}]>>]
                 = Exchange(it[s \ {SeqExt!Max(s)}], goal, dir, lookback)
        <3>1. SeqExt!Max(s) \in 1..n /\ it[s \ {SeqExt!Max(s)}] \in Works
            BY <1>1, <2>1, MaxOf
        <3> QED
            BY <3>1
    <2> HIDE DEF F
    <2> QED
        BY <1>1, <1>4, <2>1 DEF IsFold
<1>6. Is(r)
    <2> HIDE DEF Is
    <2> QED
        BY <1>5, Zenon
<1> HIDE DEF r
<1>7. r[{}] = w
    BY <1>6
<1>8. ASSUME NEW k \in 1..n, r[1..k - 1] \in Works
      PROVE  r[1..k] = F[<<k, r[1..k - 1]>>]
    <2>1. 1..k \in SUBSET (1..n) /\ 1..k # {} /\ SeqExt!Max(1..k) = k /\ (1..k) \ {k} = 1..k - 1
        BY <1>1, MaxOfPrefix
    <2>2. 1..k \in SUBSET (DOMAIN order)
        BY <1>1, <2>1
    <2>3. r[1..k] = Exchange(r[(1..k) \ {SeqExt!Max(1..k)}], goal, dir, lookback)
        BY <1>6, <2>1, <2>2, Zenon
    <2>4. r[1..k] = Exchange(r[1..k - 1], goal, dir, lookback)
        BY <2>1, <2>3, Zenon
    <2> QED
        BY <1>8, <2>4
<1>9. PICK h : Walk(h, F, w, n, Works) /\ r[1..n] = h[n]
    <2>1. FoldsPrefixes(r, F, w, n, Works)
        BY <1>7, <1>8, Zenon DEF FoldsPrefixes
    <2> HIDE DEF F
    <2>2. n \in Nat
        BY <1>1
    <2>3. WalksTo(r[1..n], F, w, n, Works)
        BY <1>0, <1>3, <2>1, <2>2, WalkOfFold, Zenon
    <2> QED
        BY <2>3 DEF WalksTo
<1>10. ASSUME NEW k \in 1..n
       PROVE  h[k] = Exchange(h[k - 1], goal, dir, lookback)
    <2>1. k - 1 \in 0..n /\ h[k - 1] \in Works
        BY <1>1, <1>9 DEF Walk
    <2>2. F[<<k, h[k - 1]>>] = Exchange(h[k - 1], goal, dir, lookback)
        BY <2>1
    <2> HIDE DEF F
    <2> QED
        BY <1>9, <2>2 DEF Walk
<1> HIDE DEF F
<1>11. ExchangeWalk(h, w, goal, dir, lookback)
    BY <1>9, <1>10 DEF Walk, ExchangeWalk, n, order
<1> QED
    BY <1>1, <1>2, <1>9, <1>11 DEF n
(* What the loops find and what they leave. *)
Ready(w, x, dir, f) ==
    /\ w \in Works
    /\ Aligned(w.s, w.mask, x, dir, f)
    /\ w.p = x \ w.mask /\ w.q = w.mask \ x

LEMMA ExchangeKeeps ==
    ASSUME NEW f, NEW w, NEW x \in Assignments, NEW dir, NEW lookback, Ready(w, x, dir, f)
    PROVE  Ready(Exchange(w, x, dir, lookback), x, dir, f)
<1> DEFINE u == Exchange(w, x, dir, lookback)
<1>1. w \in Works /\ Aligned(w.s, w.mask, x, dir, f) /\ w.p = x \ w.mask /\ w.q = w.mask \ x
    BY DEF Ready
<1>2. u \in Works
    BY <1>1, ExchangeTyped
<1>3. CASE u = w
    BY <1>3
<1>4. ASSUME NEW l1 \in w.p, NEW l2 \in w.q, MayExchange(w, l1, l2, x, lookback),
             u = Exchanged(w, l1, l2, dir)
      PROVE  Ready(u, x, dir, f)
    <2> DEFINE t == Insert(w.s, Fredkin(Pos(w.mask \ {l1, l2}), l1, l2), dir)
    <2>1. l1 \in Lines /\ l2 \in Lines /\ l1 \notin w.mask /\ l2 \in w.mask
        BY <1>1 DEF Works
    <2>2. w = [s |-> w.s, p |-> w.p, q |-> w.q, mask |-> w.mask]
        BY <1>1 DEF Works
    <2>3. MayExchange([s |-> w.s, p |-> w.p, q |-> w.q, mask |-> w.mask], l1, l2, x, lookback)
        BY <1>4, <2>2, Zenon
    <2>4. Aligned(t, (w.mask \cup {l1}) \ {l2}, x, dir, f)
        BY <1>1, <2>1, <2>3, SwapStep
    <2>5. /\ u.s = t /\ u.mask = (w.mask \cup {l1}) \ {l2}
          /\ u.p = w.p \ {l1} /\ u.q = w.q \ {l2}
        BY <1>4 DEF Exchanged
    <2> HIDE DEF t, u
    <2>6. l1 \in x /\ l2 \notin x /\ l1 # l2
        BY <1>1, <2>1
    <2>7. u.p = x \ u.mask /\ u.q = u.mask \ x
        BY <1>1, <2>5, <2>6
    <2> QED
        BY <1>2, <2>4, <2>5, <2>7 DEF Ready
<1>5. \/ u = w
      \/ \E l1 \in w.p, l2 \in w.q :
            MayExchange(w, l1, l2, x, lookback) /\ u = Exchanged(w, l1, l2, dir)
    BY <1>1, ExchangeIs
<1> HIDE DEF u
<1>6. Ready(u, x, dir, f)
    BY <1>3, <1>4, <1>5
<1> QED
    BY <1>6 DEF u

LEMMA ExchangesKeep ==
    ASSUME NEW f, NEW w, NEW x \in Assignments, NEW dir, NEW lookback, Ready(w, x, dir, f)
    PROVE  Ready(Exchanges(w, x, dir, lookback), x, dir, f)
<1>1. w \in Works
    BY DEF Ready
<1> DEFINE n == Cardinality(w.p)
<1>2. n \in Nat
    <2>1. IsFiniteSet(w.p)
        BY <1>1, AreFinite DEF Works
    <2> QED
        BY <2>1, FS_CardinalityType
<1>3. PICK h : ExchangeWalk(h, w, x, dir, lookback) /\ Exchanges(w, x, dir, lookback) = h[n]
    BY <1>1, ExchangesFolds
<1> DEFINE T == {k \in 0..n : Ready(h[k], x, dir, f)}
<1>4. h[0] = w /\ \A k \in 1..n : h[k] = Exchange(h[k - 1], x, dir, lookback)
    BY <1>3 DEF ExchangeWalk
<1> HIDE DEF n
<1>5. 0 \in T
    BY <1>2, <1>4
<1>6. ASSUME NEW k \in 1..n, k - 1 \in T
      PROVE  k \in T
    <2>1. Ready(h[k - 1], x, dir, f) /\ k \in 0..n
        BY <1>6
    <2>2. Ready(Exchange(h[k - 1], x, dir, lookback), x, dir, f)
        BY <2>1, ExchangeKeeps
    <2> QED
        BY <1>4, <2>1, <2>2
<1>7. \A k \in 0..n : k \in T
    <2> HIDE DEF T
    <2> QED
        BY <1>2, <1>5, <1>6, Ladder
<1>8. n \in 0..n
    BY <1>2
<1> QED
    BY <1>3, <1>7, <1>8

(* 0 -> 1: afterwards the row has all lines of x. *)
LEMMA RaiseAligns ==
    ASSUME NEW f, NEW w, NEW x \in Assignments, NEW dir, Ready(w, x, dir, f)
    PROVE  LET v == Raise(w, dir) IN
           /\ v \in Works /\ Aligned(v.s, v.mask, x, dir, f)
           /\ x \subseteq v.mask /\ v.q = v.mask \ x
<1>1. w \in Works /\ Aligned(w.s, w.mask, x, dir, f) /\ w.p = x \ w.mask /\ w.q = w.mask \ x
      /\ w.p \in SUBSET Lines
    BY DEF Ready, Works
<1> DEFINE n == Cardinality(w.p)
           order == Downwards(w.p)
<1>2. /\ n \in Nat /\ order \in [1..n -> w.p]
      /\ \A l \in w.p : \E i \in 1..n : order[i] = l
      /\ \A i, j \in 1..n : i < j => order[i] # order[j]
    BY <1>1, DownwardsLists
<1>3. PICK h : RaiseWalk(h, w, dir) /\ Raise(w, dir) = h[n]
    BY <1>1, RaiseFolds
<1>4. /\ h \in [0..n -> Works] /\ h[0] = w
      /\ \A k \in 1..n : h[k] = Raised(h[k - 1], order[k], dir)
    BY <1>3 DEF RaiseWalk
<1> DEFINE T == {k \in 0..n : /\ Aligned(h[k].s, h[k].mask, x, dir, f)
                              /\ h[k].mask = w.mask \cup {order[i] : i \in 1..k}
                              /\ h[k].q = w.q}
<1> HIDE DEF n, order
<1>5. 0 \in T
    <2>1. {order[i] : i \in 1..0} = {}
        OBVIOUS
    <2> QED
        BY <1>1, <1>2, <1>4, <2>1
<1>6. ASSUME NEW k \in 1..n, k - 1 \in T
      PROVE  k \in T
    <2> DEFINE v == h[k - 1]
               l == order[k]
    <2>1. /\ k \in 0..n /\ k - 1 \in 0..n
          /\ v \in Works /\ Aligned(v.s, v.mask, x, dir, f)
          /\ v.mask = w.mask \cup {order[i] : i \in 1..k - 1} /\ v.q = w.q
        BY <1>4, <1>6
    <2>2. l \in Lines /\ l \notin w.mask
        BY <1>1, <1>2
    <2>3. l \notin {order[i] : i \in 1..k - 1}
        <3>1. \A i \in 1..k - 1 : i \in 1..n /\ i < k
            BY <1>2
        <3>2. \A i \in 1..k - 1 : order[i] # order[k]
            BY <1>2, <3>1
        <3> QED
            BY <3>2
    <2>4. h[k] = Raised(v, l, dir)
        BY <1>4
    <2> HIDE DEF v, l
    <2>5. l \notin v.mask
        BY <2>1, <2>2, <2>3
    <2>6. /\ h[k].s = Insert(v.s, Toffoli(Pos(v.mask), l), dir)
          /\ h[k].mask = v.mask \cup {l} /\ h[k].q = v.q
        <3>1. v \in Works /\ l \in Lines
            BY <2>1, <2>2
        <3>2. /\ Raised(v, l, dir).s = Insert(v.s, Toffoli(Pos(v.mask), l), dir)
              /\ Raised(v, l, dir).mask = v.mask \cup {l}
              /\ Raised(v, l, dir).q = v.q
            BY <3>1, RaisedIs
        <3> QED
            BY <2>4, <3>2
    <2>7. Aligned(Insert(v.s, Toffoli(Pos(v.mask), l), dir), v.mask \cup {l}, x, dir, f)
        BY <2>1, <2>2, <2>5, RaiseStep
    <2>8. {order[i] : i \in 1..k} = {order[i] : i \in 1..k - 1} \cup {l}
        <3>1. \A i : i \in 1..k <=> i \in 1..k - 1 \/ i = k
            BY <1>2
        <3> QED
            BY <3>1 DEF l
    <2>9. h[k].mask = w.mask \cup {order[i] : i \in 1..k}
        BY <2>1, <2>6, <2>8
    <2>10. Aligned(h[k].s, h[k].mask, x, dir, f) /\ h[k].q = w.q
        BY <2>1, <2>6, <2>7
    <2> QED
        BY <2>1, <2>9, <2>10
<1>7. \A k \in 0..n : k \in T
    <2> HIDE DEF T
    <2> QED
        BY <1>2, <1>5, <1>6, Ladder
<1>8. /\ h[n] \in Works /\ Aligned(h[n].s, h[n].mask, x, dir, f)
      /\ h[n].mask = w.mask \cup {order[i] : i \in 1..n} /\ h[n].q = w.q
    <2>1. n \in 0..n
        BY <1>2
    <2> QED
        BY <1>4, <1>7, <2>1
<1>9. {order[i] : i \in 1..n} = w.p
    BY <1>2
<1>10. x \subseteq h[n].mask /\ h[n].q = h[n].mask \ x
    BY <1>1, <1>8, <1>9
<1> QED
    BY <1>3, <1>8, <1>10

(* 1 -> 0: afterwards it has no others. *)
LEMMA LowerAligns ==
    ASSUME NEW f, NEW w \in Works, NEW x \in Assignments, NEW dir,
           Aligned(w.s, w.mask, x, dir, f), x \subseteq w.mask, w.q = w.mask \ x
    PROVE  LET v == Lower(w, dir) IN
           v \in Works /\ Aligned(v.s, v.mask, x, dir, f) /\ v.mask = x
<1>1. w.q \in SUBSET Lines
    BY DEF Works
<1> DEFINE n == Cardinality(w.q)
           order == Downwards(w.q)
<1>2. /\ n \in Nat /\ order \in [1..n -> w.q]
      /\ \A l \in w.q : \E i \in 1..n : order[i] = l
      /\ \A i, j \in 1..n : i < j => order[i] # order[j]
    BY <1>1, DownwardsLists
<1>3. PICK h : LowerWalk(h, w, dir) /\ Lower(w, dir) = h[n]
    BY <1>1, LowerFolds
<1>4. /\ h \in [0..n -> Works] /\ h[0] = w
      /\ \A k \in 1..n : h[k] = Lowered(h[k - 1], order[k], dir)
    BY <1>3 DEF LowerWalk
<1> DEFINE T == {k \in 0..n : /\ Aligned(h[k].s, h[k].mask, x, dir, f)
                              /\ h[k].mask = w.mask \ {order[i] : i \in 1..k}}
<1> HIDE DEF n, order
<1>5. 0 \in T
    <2>1. {order[i] : i \in 1..0} = {}
        OBVIOUS
    <2> QED
        BY <1>1, <1>2, <1>4, <2>1
<1>6. ASSUME NEW k \in 1..n, k - 1 \in T
      PROVE  k \in T
    <2> DEFINE v == h[k - 1]
               l == order[k]
    <2>1. /\ k \in 0..n /\ k - 1 \in 0..n
          /\ v \in Works /\ Aligned(v.s, v.mask, x, dir, f)
          /\ v.mask = w.mask \ {order[i] : i \in 1..k - 1}
        BY <1>4, <1>6
    <2>2. l \in Lines /\ l \in w.mask /\ l \notin x
        BY <1>1, <1>2
    <2>3. l \notin {order[i] : i \in 1..k - 1}
        <3>1. \A i \in 1..k - 1 : i \in 1..n /\ i < k
            BY <1>2
        <3>2. \A i \in 1..k - 1 : order[i] # order[k]
            BY <1>2, <3>1
        <3> QED
            BY <3>2
    <2>4. h[k] = Lowered(v, l, dir)
        BY <1>4
    <2>5. \A i \in 1..k - 1 : order[i] \notin x
        BY <1>2
    <2> HIDE DEF v, l
    <2>6. l \in v.mask /\ x \subseteq v.mask \ {l}
        BY <2>1, <2>2, <2>3, <2>5
    <2>7. /\ h[k].s = Insert(v.s, Toffoli(Pos(v.mask \ {l}), l), dir)
          /\ h[k].mask = v.mask \ {l}
        <3>1. v \in Works /\ l \in Lines
            BY <2>1, <2>2
        <3>2. /\ Lowered(v, l, dir).s = Insert(v.s, Toffoli(Pos(v.mask \ {l}), l), dir)
              /\ Lowered(v, l, dir).mask = v.mask \ {l}
            BY <3>1, LoweredIs
        <3> QED
            BY <2>4, <3>2
    <2>8. Aligned(Insert(v.s, Toffoli(Pos(v.mask \ {l}), l), dir), v.mask \ {l}, x, dir, f)
        BY <2>1, <2>6, LowerStep
    <2>9. {order[i] : i \in 1..k} = {order[i] : i \in 1..k - 1} \cup {l}
        <3>1. \A i : i \in 1..k <=> i \in 1..k - 1 \/ i = k
            BY <1>2
        <3> QED
            BY <3>1 DEF l
    <2>10. h[k].mask = w.mask \ {order[i] : i \in 1..k}
        BY <2>1, <2>7, <2>9
    <2>11. Aligned(h[k].s, h[k].mask, x, dir, f)
        BY <2>7, <2>8
    <2> QED
        BY <2>1, <2>10, <2>11
<1>7. \A k \in 0..n : k \in T
    <2> HIDE DEF T
    <2> QED
        BY <1>2, <1>5, <1>6, Ladder
<1>8. /\ h[n] \in Works /\ Aligned(h[n].s, h[n].mask, x, dir, f)
      /\ h[n].mask = w.mask \ {order[i] : i \in 1..n}
    <2>1. n \in 0..n
        BY <1>2
    <2> QED
        BY <1>4, <1>7, <2>1
<1>9. {order[i] : i \in 1..n} = w.q
    BY <1>2
<1>10. h[n].mask = x
    BY <1>8, <1>9
<1> QED
    BY <1>3, <1>8, <1>10
-------------------------------------------------------------------------------
(* What is true before a row is adjusted and, of the next row, afterwards.    *)
Kept(s, f) == s \in Sums /\ Rest(f, s) /\ OneToOne(s.tt)

(* adjust_line leaves the rows before x alone and makes x its own output.    *)
LEMMA AdjustLineAligns ==
    ASSUME NEW f, NEW s, Kept(s, f), NEW x \in Assignments, Fixed(s.tt, x),
           NEW in \in Assignments, NEW dir, NEW options,
           IF dir = "back" THEN in = x ELSE s.tt[in] = x
    PROVE  LET t == AdjustLine(s, in, dir, options) IN
           Kept(t, f) /\ Fixed(t.tt, x) /\ t.tt[x] = x
<1> DEFINE mask == IF dir = "back" THEN s.tt[in] ELSE in
           start == [s |-> s, p |-> x \ mask, q |-> mask \ x, mask |-> mask]
           swapped == IF options.fredkin THEN Exchanges(start, x, dir, options.lookback)
                      ELSE start
           raised == Raise(swapped, dir)
           lowered == Lower(raised, dir)
<1>1. s \in Sums /\ s.tt[in] \in Assignments /\ mask \in Assignments
    <2>1. s \in Sums /\ s.tt \in [Assignments -> Assignments]
        BY DEF Kept, Sums
    <2> QED
        BY <2>1
<1>2. AdjustLine(s, in, dir, options) = lowered.s
    <2>1. CASE dir = "back"
        <3>1. (IF dir = "back" THEN in ELSE s.tt[in]) = x
              /\ (IF dir = "back" THEN s.tt[in] ELSE in) = mask
            BY <2>1
        <3> HIDE DEF mask
        <3> QED
            BY <3>1, Zenon DEF AdjustLine
    <2>2. CASE dir # "back"
        <3>1. (IF dir = "back" THEN in ELSE s.tt[in]) = x
              /\ (IF dir = "back" THEN s.tt[in] ELSE in) = mask
            BY <2>2
        <3> HIDE DEF mask
        <3> QED
            BY <3>1, Zenon DEF AdjustLine
    <2> QED
        BY <2>1, <2>2
<1>3. Anchor(s, mask, x, dir)
    BY DEF Anchor
<1> HIDE DEF mask
<1>4. Ready(start, x, dir, f)
    <2>1. Aligned(s, mask, x, dir, f)
        BY <1>1, <1>3 DEF Aligned, Kept
    <2>2. start.s = s /\ start.mask = mask /\ start.p = x \ mask /\ start.q = mask \ x
        OBVIOUS
    <2>3. start \in Works
        BY <1>1 DEF Works, Assignments
    <2> HIDE DEF start
    <2> QED
        BY <2>1, <2>2, <2>3 DEF Ready
<1> HIDE DEF start
<1>5. Ready(swapped, x, dir, f)
    <2>1. Ready(Exchanges(start, x, dir, options.lookback), x, dir, f)
        BY <1>4, ExchangesKeep
    <2> QED
        BY <1>4, <2>1
<1> HIDE DEF swapped
<1>6. /\ raised \in Works /\ Aligned(raised.s, raised.mask, x, dir, f)
      /\ x \subseteq raised.mask /\ raised.q = raised.mask \ x
    BY <1>5, RaiseAligns
<1> HIDE DEF raised
<1>7. Aligned(lowered.s, lowered.mask, x, dir, f) /\ lowered.mask = x
    BY <1>6, LowerAligns
<1> HIDE DEF lowered
<1>8. Aligned(lowered.s, x, x, dir, f)
    BY <1>7
<1>9. Kept(lowered.s, f) /\ Fixed(lowered.s.tt, x) /\ lowered.s.tt[x] = x
    BY <1>8 DEF Aligned, Anchor, Kept
<1> QED
    BY <1>2, <1>9

LEMMA EveryRowIsAnOutput ==
    ASSUME NEW tt \in [Assignments -> Assignments], OneToOne(tt), NEW x \in Assignments
    PROVE  \E y \in Assignments : tt[y] = x
<1>1. tt \in Injection(Assignments, Assignments)
    BY DEF OneToOne, Injection, IsInjective
<1>2. tt \in Surjection(Assignments, Assignments)
    <2> HIDE DEF Assignments
    <2> QED
        BY <1>1, AreFinite, FS_Injection
<1> QED
    BY <1>2 DEF Surjection

LEMMA AdjustRowAligns ==
    ASSUME NEW f, NEW s, Kept(s, f), NEW x \in Assignments, Fixed(s.tt, x), NEW options
    PROVE  LET t == AdjustRow(s, x, options) IN
           Kept(t, f) /\ Fixed(t.tt, x) /\ t.tt[x] = x
<1> DEFINE other == CHOOSE y \in Assignments : s.tt[y] = x
           t == AdjustRow(s, x, options)
<1>1. other \in Assignments /\ s.tt[other] = x
    <2>1. s.tt \in [Assignments -> Assignments] /\ OneToOne(s.tt)
        BY DEF Kept, Sums
    <2>2. \E y \in Assignments : s.tt[y] = x
        BY <2>1, EveryRowIsAnOutput
    <2> QED
        BY <2>2, Zenon
<1>2. \/ s.tt[x] = x /\ t = s
      \/ t = AdjustLine(s, other, "front", options)
      \/ t = AdjustLine(s, x, "back", options)
    <2>1. CASE s.tt[x] = x
        BY <2>1, Zenon DEF AdjustRow
    <2>2. CASE s.tt[x] # x
        <3>1. \/ AdjustRow(s, x, options) = AdjustLine(s, other, "front", options)
              \/ AdjustRow(s, x, options) = AdjustLine(s, x, "back", options)
            BY <2>2, Zenon DEF AdjustRow
        <3> QED
            BY <3>1
    <2> QED
        BY <2>1, <2>2
<1> HIDE DEF t, other
<1>3. LET u == AdjustLine(s, other, "front", options) IN
      Kept(u, f) /\ Fixed(u.tt, x) /\ u.tt[x] = x
    <2>1. IF "front" = "back" THEN other = x ELSE s.tt[other] = x
        BY <1>1
    <2> QED
        BY <1>1, <2>1, AdjustLineAligns
<1>4. LET u == AdjustLine(s, x, "back", options) IN
      Kept(u, f) /\ Fixed(u.tt, x) /\ u.tt[x] = x
    <2>1. IF "back" = "back" THEN x = x ELSE s.tt[x] = x
        OBVIOUS
    <2> QED
        BY <2>1, AdjustLineAligns
<1>5. Kept(t, f) /\ Fixed(t.tt, x) /\ t.tt[x] = x
    BY <1>2, <1>3, <1>4
<1> QED
    BY <1>5 DEF t

-------------------------------------------------------------------------------
(* Row 0 by inverters. *)
Inverted(v, l, dir) == Insert(v, Not(l), dir)

LEMMA InvertedIs ==
    ASSUME NEW v \in Sums, NEW l \in Lines, NEW dir
    PROVE  /\ Inverted(v, l, dir) \in Sums
           /\ \A f : Kept(v, f) => Kept(Inverted(v, l, dir), f)
           /\ dir = "back" => \A x \in Assignments : Inverted(v, l, dir).tt[x] = Flip(v.tt[x], l)
<1> DEFINE g == Not(l)
           t == Insert(v, g, dir)
<1>1. g = Toffoli(Pos({}), l)
    BY DEF Not, Pos
<1>2. Proper(g)
    BY <1>1 DEF Proper
<1>3. g \in GateSet
    BY <1>1, ToffoliTyped
<1>4. \A x : Simulate(g, x) = Flip(x, l)
    <2> TAKE x
    <2>1. Simulate(Toffoli(Pos({}), l), x) = IF {} \subseteq x THEN Flip(x, l) ELSE x
        BY FlipPositive
    <2> QED
        BY <1>1, <2>1
<1> HIDE DEF g
<1>5. t \in Sums
    BY <1>3, InsertSplits
<1>6. dir = "back" => \A x \in Assignments : t.tt[x] = Simulate(g, v.tt[x])
    BY <1>3, InsertSplits
<1>7. ASSUME NEW f, Kept(v, f)
      PROVE  Kept(t, f)
    <2>1. Rest(f, t) /\ OneToOne(t.tt)
        BY <1>2, <1>7, InsertKeepsRest DEF Kept
    <2> QED
        BY <1>5, <2>1 DEF Kept
<1> HIDE DEF t
<1>8. Inverted(v, l, dir) = t
    BY DEF Inverted, t, g
<1> QED
    BY <1>4, <1>5, <1>6, <1>7, <1>8

FirstWalk(h, w, dir) ==
    /\ h \in [0..Cardinality(w.tt[{}]) -> Sums] /\ h[0] = w
    /\ \A k \in 1..Cardinality(w.tt[{}]) : h[k] = Inverted(h[k - 1], Downwards(w.tt[{}])[k], dir)

LEMMA FirstStepFolds ==
    ASSUME NEW w \in Sums
    PROVE  \E h : FirstWalk(h, w, "back") /\ FirstStep(w) = h[Cardinality(w.tt[{}])]
<1> DEFINE n == Cardinality(w.tt[{}])
           order == Downwards(w.tt[{}])
           F == [e \in (1..n) \X Sums |-> Inverted(e[2], order[e[1]], "back")]
           Is(it) == it = [s \in SUBSET (DOMAIN order) |->
                            IF s = {} THEN w
                            ELSE Inverted(it[s \ {SeqExt!Max(s)}], order[SeqExt!Max(s)], "back")]
           r == CHOOSE r : Is(r)
<1>0. w.tt[{}] \in SUBSET Lines /\ w \in Sums
    <2>1. {} \in Assignments /\ w.tt \in [Assignments -> Assignments]
        BY DEF Sums, Assignments
    <2> QED
        BY <2>1 DEF Assignments
<1>1. n \in Nat /\ DOMAIN order = 1..n /\ \A k \in 1..n : order[k] \in Lines
    <2>1. n \in Nat /\ order \in [1..n -> w.tt[{}]]
        BY <1>0, DownwardsLists
    <2> HIDE DEF n, order
    <2> QED
        BY <1>0, <2>1
<1>2. FirstStep(w) = r[DOMAIN order]
    BY Zenon DEF FirstStep, Inverted, SeqExt!FoldLeft, SeqExt!MapThenFoldSet
<1> HIDE DEF n, order
<1>3. F \in [(1..n) \X Sums -> Sums]
    <2>1. \A e \in (1..n) \X Sums : Inverted(e[2], order[e[1]], "back") \in Sums
        BY <1>1, InvertedIs
    <2> QED
        BY <2>1
<1>4. PICK it \in [SUBSET (1..n) -> Sums] : IsFold(it, F, w, n)
    <2> HIDE DEF F
    <2> QED
        BY <1>0, <1>1, <1>3, FoldExists
<1>5. Is(it)
    <2>1. ASSUME NEW s \in SUBSET (1..n), s # {}
          PROVE  F[<<SeqExt!Max(s), it[s \ {SeqExt!Max(s)}]>>]
                 = Inverted(it[s \ {SeqExt!Max(s)}], order[SeqExt!Max(s)], "back")
        <3>1. SeqExt!Max(s) \in 1..n /\ it[s \ {SeqExt!Max(s)}] \in Sums
            BY <1>1, <2>1, MaxOf
        <3> QED
            BY <3>1
    <2> HIDE DEF F
    <2> QED
        BY <1>1, <1>4, <2>1 DEF IsFold
<1>6. Is(r)
    <2> HIDE DEF Is
    <2> QED
        BY <1>5, Zenon
<1> HIDE DEF r
<1>7. r[{}] = w
    BY <1>6
<1>8. ASSUME NEW k \in 1..n, r[1..k - 1] \in Sums
      PROVE  r[1..k] = F[<<k, r[1..k - 1]>>]
    <2>1. 1..k \in SUBSET (1..n) /\ 1..k # {} /\ SeqExt!Max(1..k) = k /\ (1..k) \ {k} = 1..k - 1
        BY <1>1, MaxOfPrefix
    <2>2. 1..k \in SUBSET (DOMAIN order)
        BY <1>1, <2>1
    <2>3. r[1..k] = Inverted(r[(1..k) \ {SeqExt!Max(1..k)}], order[SeqExt!Max(1..k)], "back")
        BY <1>6, <2>1, <2>2, Zenon
    <2>4. r[1..k] = Inverted(r[1..k - 1], order[k], "back")
        BY <2>1, <2>3, Zenon
    <2> QED
        BY <1>8, <2>4
<1>9. PICK h : Walk(h, F, w, n, Sums) /\ r[1..n] = h[n]
    <2>1. FoldsPrefixes(r, F, w, n, Sums)
        BY <1>7, <1>8, Zenon DEF FoldsPrefixes
    <2> HIDE DEF F
    <2>2. n \in Nat
        BY <1>1
    <2>3. WalksTo(r[1..n], F, w, n, Sums)
        BY <1>0, <1>3, <2>1, <2>2, WalkOfFold, Zenon
    <2> QED
        BY <2>3 DEF WalksTo
<1>10. ASSUME NEW k \in 1..n
       PROVE  h[k] = Inverted(h[k - 1], order[k], "back")
    <2>1. k - 1 \in 0..n /\ h[k - 1] \in Sums
        BY <1>1, <1>9 DEF Walk
    <2>2. F[<<k, h[k - 1]>>] = Inverted(h[k - 1], order[k], "back")
        BY <2>1
    <2> HIDE DEF F
    <2> QED
        BY <1>9, <2>2 DEF Walk
<1> HIDE DEF F
<1>11. FirstWalk(h, w, "back")
    BY <1>9, <1>10 DEF Walk, FirstWalk, n, order
<1> QED
    BY <1>1, <1>2, <1>9, <1>11 DEF n

LEMMA FirstStepAligns ==
    ASSUME NEW f, NEW s, Kept(s, f)
    PROVE  LET t == FirstStep(s) IN Kept(t, f) /\ t.tt[{}] = {}
<1>1. s \in Sums /\ {} \in Assignments /\ s.tt[{}] \in SUBSET Lines
    <2>1. s \in Sums /\ {} \in Assignments /\ s.tt \in [Assignments -> Assignments]
        BY DEF Kept, Sums, Assignments
    <2> QED
        BY <2>1 DEF Assignments
<1> DEFINE first == s.tt[{}]
           n == Cardinality(first)
           order == Downwards(first)
<1>2. /\ n \in Nat /\ order \in [1..n -> first]
      /\ \A l \in first : \E i \in 1..n : order[i] = l
      /\ \A i, j \in 1..n : i < j => order[i] # order[j]
    BY <1>1, DownwardsLists
<1>3. PICK h : FirstWalk(h, s, "back") /\ FirstStep(s) = h[n]
    BY <1>1, FirstStepFolds
<1>4. /\ h \in [0..n -> Sums] /\ h[0] = s
      /\ \A k \in 1..n : h[k] = Inverted(h[k - 1], order[k], "back")
    BY <1>3 DEF FirstWalk
<1> HIDE DEF n, order
<1> DEFINE T == {k \in 0..n : /\ Kept(h[k], f)
                              /\ h[k].tt[{}] = first \ {order[i] : i \in 1..k}}
<1>5. 0 \in T
    <2>1. {order[i] : i \in 1..0} = {}
        OBVIOUS
    <2> QED
        BY <1>1, <1>2, <1>4, <2>1
<1>6. ASSUME NEW k \in 1..n, k - 1 \in T
      PROVE  k \in T
    <2> DEFINE v == h[k - 1]
               l == order[k]
    <2>1. /\ k \in 0..n /\ k - 1 \in 0..n
          /\ v \in Sums /\ Kept(v, f)
          /\ v.tt[{}] = first \ {order[i] : i \in 1..k - 1}
        BY <1>4, <1>6
    <2>2. l \in Lines /\ l \in first
        BY <1>1, <1>2
    <2>3. l \notin {order[i] : i \in 1..k - 1}
        <3>1. \A i \in 1..k - 1 : i \in 1..n /\ i < k
            BY <1>2
        <3>2. \A i \in 1..k - 1 : order[i] # order[k]
            BY <1>2, <3>1
        <3> QED
            BY <3>2
    <2>4. h[k] = Inverted(v, l, "back")
        BY <1>4
    <2> HIDE DEF v, l
    <2>5. Kept(h[k], f) /\ h[k].tt[{}] = Flip(v.tt[{}], l)
        <3>1. v \in Sums /\ l \in Lines
            BY <2>1, <2>2
        <3>2. /\ Kept(v, f) => Kept(Inverted(v, l, "back"), f)
              /\ Inverted(v, l, "back").tt[{}] = Flip(v.tt[{}], l)
            BY <1>1, <3>1, InvertedIs
        <3> QED
            BY <2>1, <2>4, <3>2
    <2>6. h[k].tt[{}] = v.tt[{}] \ {l}
        BY <2>1, <2>2, <2>3, <2>5, FlipIs
    <2>7. {order[i] : i \in 1..k} = {order[i] : i \in 1..k - 1} \cup {l}
        <3>1. \A i : i \in 1..k <=> i \in 1..k - 1 \/ i = k
            BY <1>2
        <3> QED
            BY <3>1 DEF l
    <2> QED
        BY <2>1, <2>5, <2>6, <2>7
<1>7. \A k \in 0..n : k \in T
    <2> HIDE DEF T
    <2> QED
        BY <1>2, <1>5, <1>6, Ladder
<1>8. Kept(h[n], f) /\ h[n].tt[{}] = first \ {order[i] : i \in 1..n}
    <2>1. n \in 0..n
        BY <1>2
    <2> QED
        BY <1>7, <2>1
<1>9. {order[i] : i \in 1..n} = first
    BY <1>2
<1>10. h[n].tt[{}] = {}
    BY <1>8, <1>9
<1> QED
    BY <1>3, <1>8, <1>10
-------------------------------------------------------------------------------
(* The inductive invariant: the sum is right, and the rows before the next    *)
(* one, in ascending order, are outputs of themselves.                      *)
Left == [circ |-> circ, pos |-> work.pos, tt |-> work.tt]

RowsStay == \A i \in 1..work.index - 1 : work.tt[Rows[i]] = Rows[i]

SInv ==
    /\ algorithm = "transformation"
    /\ spec \in Permutations
    /\ Kept(Left, spec)
    /\ work.index \in 1..N + 1
    /\ work.done = (work.index > N)
    /\ RowsStay

LEMMA RowsAreMany == N >= 2 /\ Rows[1] = {}
<1>1. {} \in Assignments /\ {0} \in Assignments /\ {} # {0}
    BY LinesAre DEF Assignments
<1>2. PICK i \in 1..N, j \in 1..N : Rows[i] = {} /\ Rows[j] = {0}
    BY <1>1, RowsAscend
<1>3. i # j /\ N \in Nat
    BY <1>1, <1>2, RowsAscend
<1>4. N >= 2
    BY <1>2, <1>3
<1>5. i = 1
    <2> SUFFICES ASSUME i # 1 PROVE FALSE
        OBVIOUS
    <2>1. 1 \in 1..N /\ 1 < i
        BY <1>2, <1>3
    <2>2. Smaller(Rows[1], Rows[i])
        BY <1>2, <2>1, RowsAscend
    <2>3. Smaller(Rows[1], {})
        BY <1>2, <2>2
    <2> QED
        BY <2>3, PartsAreNotLarger
<1> QED
    BY <1>2, <1>4, <1>5

LEMMA RowsBefore ==
    ASSUME NEW tt, NEW i \in 1..N, \A j \in 1..i - 1 : tt[Rows[j]] = Rows[j]
    PROVE  Fixed(tt, Rows[i])
<1> SUFFICES ASSUME NEW y \in Assignments, Smaller(y, Rows[i]) PROVE tt[y] = y
    BY DEF Fixed
<1>1. PICK j \in 1..N : Rows[j] = y
    BY RowsAscend
<1>2. N \in Nat /\ Rows[i] \in Assignments
    BY RowsAscend
<1>3. j # i
    BY <1>1, SmallerIrreflexive
<1>4. ~(i < j)
    <2> SUFFICES ASSUME i < j PROVE FALSE
        OBVIOUS
    <2>1. Smaller(Rows[i], y)
        BY <1>1, RowsAscend
    <2>2. Smaller(y, y)
        BY <1>2, <2>1, SmallerTransitive
    <2> QED
        BY <2>2, SmallerIrreflexive
<1>5. j \in 1..i - 1
    BY <1>2, <1>3, <1>4
<1> QED
    BY <1>1, <1>5

LEMMA FixedRows ==
    ASSUME NEW tt, NEW i \in 1..N, Fixed(tt, Rows[i]), tt[Rows[i]] = Rows[i]
    PROVE  \A j \in 1..i : tt[Rows[j]] = Rows[j]
<1> SUFFICES ASSUME NEW j \in 1..i PROVE tt[Rows[j]] = Rows[j]
    OBVIOUS
<1>1. N \in Nat /\ j \in 1..N
    BY RowsAscend
<1>2. CASE j = i
    BY <1>2
<1>3. CASE j # i
    <2>1. Rows[j] \in Assignments /\ Smaller(Rows[j], Rows[i])
        BY <1>1, <1>3, RowsAscend
    <2> QED
        BY <2>1 DEF Fixed
<1> QED
    BY <1>2, <1>3

LEMMA EmptyIsKept ==
    ASSUME NEW f \in Permutations
    PROVE  Kept(Empty(f), f)
<1> DEFINE s == Empty(f)
<1>1. s.circ = <<>> /\ s.pos = 0 /\ s.tt = f
      /\ s \in [circ : Seq(GateSet), pos : Nat, tt : [Assignments -> Assignments]]
    BY DEF Empty, Permutations
<1>2. s \in Sums
    BY <1>1 DEF Sums
<1>3. Front(s) = <<>> /\ Back(s) = <<>>
    <2>1. Len(<<>>) = 0 /\ SubSeq(<<>>, 1, 0) = <<>>
        OBVIOUS
    <2> QED
        BY <1>1, <2>1 DEF Front, Back
<1> HIDE DEF s
<1>4. Rest(f, s)
    <2> SUFFICES ASSUME NEW x \in Assignments
                 PROVE  f[x] = SimulateCircuit(<<>>, f[SimulateCircuit(<<>>, x)])
        BY <1>1, <1>3 DEF Rest
    <2>1. f[x] \in Assignments
        BY DEF Permutations
    <2> QED
        BY <2>1, SimulateNone
<1>5. OneToOne(s.tt)
    BY <1>1 DEF OneToOne, Permutations
<1> QED
    BY <1>2, <1>4, <1>5 DEF Kept, s

LEMMA InitInv == Init => SInv
<1> SUFFICES ASSUME NEW f \in Permutations, NEW options \in Options, Start(f, options)
             PROVE  SInv
    BY DEF Init
<1> DEFINE s == Begin(f, options)
           index == FirstRow(options)
<1>1. algorithm = "transformation" /\ spec = f /\ circ = s.circ /\ work = Enter(s, index, options)
    BY DEF Start
<1>2. Kept(Empty(f), f)
    BY EmptyIsKept
<1>3. LET t == FirstStep(Empty(f)) IN Kept(t, f) /\ t.tt[{}] = {}
    BY <1>2, FirstStepAligns
<1>4. \/ s = Empty(f) /\ index = 1
      \/ s = FirstStep(Empty(f)) /\ index = 2
    BY DEF Begin, FirstRow
<1> HIDE DEF s, index
<1>5. Kept(s, f) /\ index \in {1, 2} /\ (index = 2 => s.tt[{}] = {})
    BY <1>2, <1>3, <1>4
<1>6. /\ work.pos = s.pos /\ work.tt = s.tt /\ work.index = index
      /\ work.done = (index > Len(Rows))
    BY <1>1 DEF Enter
<1>7. Left = s
    <2>1. s \in [circ : Seq(GateSet), pos : Nat, tt : [Assignments -> Assignments]]
        BY <1>5 DEF Kept, Sums
    <2>2. s = [circ |-> s.circ, pos |-> s.pos, tt |-> s.tt]
        BY <2>1
    <2> QED
        BY <1>1, <1>6, <2>2 DEF Left
<1>8. N \in Nat /\ N >= 2 /\ Rows[1] = {} /\ Len(Rows) = N
    BY RowsAscend, RowsAreMany
<1>9. RowsStay
    <2> SUFFICES ASSUME NEW i \in 1..index - 1 PROVE s.tt[Rows[i]] = Rows[i]
        BY <1>6 DEF RowsStay
    <2>1. i = 1 /\ index = 2
        BY <1>5
    <2> QED
        BY <1>5, <1>8, <2>1
<1>10. work.index \in 1..N + 1 /\ work.done = (work.index > N)
    BY <1>5, <1>6, <1>8
<1> QED
    BY <1>1, <1>5, <1>7, <1>9, <1>10 DEF SInv

LEMMA NextInv == SInv /\ [Adjust]_vars => SInv'
<1> SUFFICES ASSUME SInv, [Adjust]_vars PROVE SInv'
    OBVIOUS
<1>1. CASE UNCHANGED vars
    BY <1>1 DEF vars, SInv, Left, RowsStay, Kept
<1>2. CASE Adjust
    <2> DEFINE i == work.index
               x == Rows[i]
               t == AdjustRow(Left, x, work.options)
    <2>1. /\ algorithm = "transformation" /\ spec \in Permutations /\ Kept(Left, spec) /\ i \in 1..N + 1
          /\ work.done = (i > N) /\ \A j \in 1..i - 1 : work.tt[Rows[j]] = Rows[j]
        BY DEF SInv, RowsStay
    <2>2. /\ ~work.done /\ spec' = spec /\ algorithm' = algorithm /\ circ' = t.circ
          /\ work' = Enter(t, i + 1, work.options)
        BY <1>2 DEF Adjust, Left
    <2> HIDE DEF i
    <2>3. N \in Nat /\ Len(Rows) = N
        BY RowsAscend
    <2>4. i \in 1..N
        <3>1. ~(i > N)
            BY <2>1, <2>2, Zenon
        <3> QED
            BY <2>1, <2>3, <3>1
    <2>5. x \in Assignments
        BY <2>4, RowsAscend
    <2>6. Fixed(work.tt, x)
        BY <2>1, <2>4, RowsBefore
    <2>7. Left.tt = work.tt
        BY DEF Left
    <2>8. Fixed(Left.tt, x)
        BY <2>6, <2>7
    <2> HIDE DEF x
    <2>9. Kept(t, spec) /\ Fixed(t.tt, x) /\ t.tt[x] = x
        BY <2>1, <2>5, <2>8, AdjustRowAligns
    <2> HIDE DEF t
    <2>10. \A j \in 1..i : t.tt[Rows[j]] = Rows[j]
        BY <2>4, <2>9, FixedRows DEF x
    <2>11. /\ work'.pos = t.pos /\ work'.tt = t.tt /\ work'.index = i + 1
           /\ work'.done = (i + 1 > Len(Rows))
        BY <2>2 DEF Enter
    <2>12. Left' = t
        <3>1. t \in [circ : Seq(GateSet), pos : Nat, tt : [Assignments -> Assignments]]
            BY <2>9 DEF Kept, Sums
        <3>2. t = [circ |-> t.circ, pos |-> t.pos, tt |-> t.tt]
            BY <3>1
        <3>3. Left' = [circ |-> circ', pos |-> work'.pos, tt |-> work'.tt]
            BY DEF Left
        <3> QED
            BY <2>2, <2>11, <3>2, <3>3
    <2>13. (work.index)' = i + 1 /\ (work.tt)' = t.tt /\ (work.done)' = (i + 1 > Len(Rows))
        BY <2>11
    <2>14. RowsStay'
        <3>1. (i + 1) - 1 = i
            BY <2>4
        <3>2. \A j \in 1..(i + 1) - 1 : t.tt[Rows[j]] = Rows[j]
            BY <2>10, <3>1
        <3>3. RowsStay' = \A j \in 1..(work.index)' - 1 : (work.tt)'[Rows[j]] = Rows[j]
            BY DEF RowsStay
        <3> QED
            BY <2>13, <3>2, <3>3
    <2>15. (work.index)' \in 1..N + 1 /\ (work.done)' = ((work.index)' > N)
        BY <2>3, <2>4, <2>13
    <2>16. Kept(Left', spec')
        BY <2>2, <2>9, <2>12
    <2>17. spec' \in Permutations /\ algorithm' = "transformation"
        BY <2>1, <2>2
    <2>18. SInv' = (/\ algorithm' = "transformation" /\ spec' \in Permutations /\ Kept(Left', spec')
                    /\ (work.index)' \in 1..N + 1 /\ (work.done)' = ((work.index)' > N)
                    /\ RowsStay')
        BY DEF SInv, Kept
    <2> QED
        BY <2>14, <2>15, <2>16, <2>17, <2>18
<1> QED
    BY <1>1, <1>2

(* At every moment the gates in front, the rest and the gates behind realise  *)
(* the specification, and no gate disturbs a row that was adjusted.          *)
THEOREM Inductive == Spec => []SInv
<1> QED
    BY InitInv, NextInv, PTL DEF Spec

LEMMA InvMeansRest == SInv => MiddleIsLeft
<1> SUFFICES ASSUME SInv, NEW x \in Assignments
             PROVE  spec[x] = SimulateCircuit(Back(Left), work.tt[SimulateCircuit(Front(Left), x)])
    BY DEF MiddleIsLeft, Front, Back, Left
<1>1. Rest(spec, Left) /\ Left.tt = work.tt
    BY DEF SInv, Kept, Left
<1> QED
    BY <1>1 DEF Rest

(* MiddleIsLeft: at every moment the gates in front, the truth table that is   *)
(* left and the gates behind compute the specification.                     *)
THEOREM GatesAndTableAreRight == Spec => []MiddleIsLeft
<1> QED
    BY Inductive, InvMeansRest, PTL

(* AdjustedRowsStay: whatever gates later rows insert, at either end, Fredkin  *)
(* gates on the weaker condition of lookback included, the rows adjusted     *)
(* before are their own outputs.                                            *)
THEOREM RowsStayAdjusted == Spec => []AdjustedRowsStay
<1>1. SInv => AdjustedRowsStay
    BY DEF SInv, RowsStay, AdjustedRowsStay
<1> QED
    BY <1>1, Inductive, PTL

(* The sum after the rows in ascending order: the circuit is that of f.       *)
LEMMA AllRowsAlign ==
    ASSUME NEW s, NEW f \in Permutations, Kept(s, f), \A i \in 1..N : s.tt[Rows[i]] = Rows[i]
    PROVE  s.circ \in Seq(GateSet) /\ FunctionOf(s.circ) = f
<1>1. /\ s \in Sums /\ Rest(f, s) /\ f \in [Assignments -> Assignments]
    BY DEF Kept, Permutations
<1>2. \A x \in Assignments : s.tt[x] = x
    BY RowsAscend
<1>3. ASSUME NEW x \in Assignments
      PROVE  SimulateCircuit(s.circ, x) = f[x]
    <2> DEFINE p == Front(s)
               q == Back(s)
    <2>1. p \in Seq(GateSet) /\ q \in Seq(GateSet) /\ p \o q = s.circ
        BY <1>1, CutsTyped
    <2>2. f[x] = SimulateCircuit(q, s.tt[SimulateCircuit(p, x)])
        BY <1>1 DEF Rest
    <2> HIDE DEF p, q
    <2>3. SimulateCircuit(p, x) \in Assignments
        BY <2>1, CircuitTyped
    <2>4. SimulateCircuit(p \o q, x) = SimulateCircuit(q, SimulateCircuit(p, x))
        BY <2>1, SimulateBoth
    <2> QED
        BY <1>2, <2>1, <2>2, <2>3, <2>4
<1>4. s.circ \in Seq(GateSet)
    BY <1>1 DEF Sums
<1> QED
    BY <1>1, <1>3, <1>4 DEF FunctionOf

LEMMA InvMeansRight == SInv /\ work.done => FunctionOf(circ) = spec
<1> SUFFICES ASSUME SInv, work.done PROVE FunctionOf(circ) = spec
    OBVIOUS
<1>1. /\ spec \in Permutations /\ Kept(Left, spec) /\ Left.tt = work.tt /\ Left.circ = circ
      /\ work.index \in 1..N + 1 /\ work.done = (work.index > N)
      /\ \A i \in 1..work.index - 1 : work.tt[Rows[i]] = Rows[i]
    BY DEF SInv, Left, RowsStay
<1>2. work.index > N
    BY <1>1, Zenon
<1>3. \A i \in 1..N : i \in 1..work.index - 1
    BY <1>1, <1>2, RowsAscend
<1>4. \A i \in 1..N : Left.tt[Rows[i]] = Rows[i]
    BY <1>1, <1>3
<1> QED
    BY <1>1, <1>4, AllRowsAlign

(* When a call has returned with the right function it keeps the contract.    *)
LEMMA ReturnsRight ==
    ASSUME ~Returned, spec' = spec, Returned' \in BOOLEAN, Returned' => Result' = spec'
    PROVE  Contract!Work \/ Contract!Return
<1>1. CASE Returned' = FALSE
    BY <1>1 DEF Contract!Work
<1>2. CASE Returned' = TRUE
    BY <1>2 DEF Contract!Return
<1> QED
    BY <1>1, <1>2

LEMMA StandsStill == UNCHANGED vars => UNCHANGED Contract!vars
BY DEF vars, Contract!vars, Returned, Misnamed, Undone, Result, FunctionOf

(* KeepsContract: the algorithm ends with a circuit of the function it was     *)
(* asked for, for every permutation, direction and choice of gates, and      *)
(* leaves it alone.                                                         *)
THEOREM CircuitIsRight == Spec => KeepsContract
<1>1. Init => Contract!Init
    <2> SUFFICES ASSUME Init PROVE Returned = FALSE
        BY DEF Contract!Init
    <2>1. PICK f \in Permutations, options \in Options : Start(f, options)
        BY DEF Init
    <2>2. FirstRow(options) \in {1, 2}
        BY DEF FirstRow
    <2>3. work.done = (FirstRow(options) > Len(Rows))
        BY <2>1 DEF Start, Enter
    <2>4. N \in Nat /\ N >= 2 /\ Len(Rows) = N
        BY RowsAscend, RowsAreMany
    <2>5. ~(FirstRow(options) > Len(Rows))
        BY <2>2, <2>4
    <2> QED
        BY <2>3, <2>5 DEF Returned
<1>2. SInv /\ Returned => Result = spec
    <2> SUFFICES ASSUME SInv, Returned PROVE Result = spec
        OBVIOUS
    <2>1. FunctionOf(circ) = spec
        BY InvMeansRight DEF Returned
    <2>2. algorithm # "simplify" /\ algorithm # "lines"
        BY DEF SInv
    <2> QED
        BY <2>1, <2>2 DEF Result
<1>3. SInv /\ SInv' /\ [Adjust]_vars => [Contract!Work \/ Contract!Return]_(Contract!vars)
    <2> SUFFICES ASSUME SInv, SInv', [Adjust]_vars
                 PROVE  Contract!Work \/ Contract!Return \/ UNCHANGED Contract!vars
        OBVIOUS
    <2>1. CASE UNCHANGED vars
        BY <2>1, StandsStill
    <2>2. CASE Adjust
        <3>1. ~Returned /\ spec' = spec
            BY <2>2 DEF Adjust, Returned
        <3>2. (SInv /\ Returned => Result = spec)'
            BY <1>2, PTL
        <3>3. Returned' => Result' = spec'
            BY <3>2
        <3>4. Returned' \in BOOLEAN
            BY DEF Returned
        <3> QED
            BY <3>1, <3>3, <3>4, ReturnsRight
    <2> QED
        BY <2>1, <2>2
<1> QED
    BY <1>1, <1>3, Inductive, PTL DEF Spec, KeepsContract, Contract!Spec

-------------------------------------------------------------------------------
(* Inverters and circuits in reverse. *)
LEMMA ToffoliIsGate ==
    ASSUME NEW c \in SUBSET (Lines \X BOOLEAN), NEW t \in Lines
    PROVE  Toffoli(c, t) \in GateSet
BY DEF GateSet, GatesIn

LEMMA NotIsGate ==
    ASSUME NEW t \in Lines
    PROVE  Not(t) \in GateSet
BY ToffoliIsGate DEF Not

LEMMA ReverseKeepsLength ==
    ASSUME NEW c \in Seq(GateSet)
    PROVE  ReverseCircuit(c) \in Seq(GateSet) /\ Len(ReverseCircuit(c)) = Len(c)
<1> DEFINE n == Len(c)
<1>1. n \in Nat
    OBVIOUS
<1>2. ReverseCircuit(c) = [i \in 1..n |-> c[(n - i) + 1]]
    BY DEF ReverseCircuit, SeqExt!Reverse
<1>3. ASSUME NEW i \in 1..n
      PROVE  c[(n - i) + 1] \in GateSet
    <2>1. (n - i) + 1 \in 1..n
        BY <1>1
    <2> QED
        BY <2>1
<1> QED
    BY <1>1, <1>2, <1>3
-------------------------------------------------------------------------------
(* Synthesis by transpositions: a circuit of proper gates is undone by the    *)
(* circuit read backwards.                                                  *)
ProperGates == {g \in GateSet : Proper(g)}

LEMMA ReverseUndoes ==
    ASSUME NEW c \in Seq(ProperGates), NEW x \in Assignments
    PROVE  /\ ReverseCircuit(c) \in Seq(GateSet)
           /\ SimulateCircuit(ReverseCircuit(c), SimulateCircuit(c, x)) = x
<1> DEFINE n == Len(c)
           d == ReverseCircuit(c)
<1>1. n \in Nat /\ c \in Seq(GateSet) /\ \A i \in 1..n : c[i] \in GateSet /\ Proper(c[i])
    BY DEF ProperGates
<1>2. d = [i \in 1..n |-> c[(n - i) + 1]]
    BY DEF ReverseCircuit, SeqExt!Reverse
<1>3. \A i \in 1..n : (n - i) + 1 \in 1..n
    BY <1>1
<1>4. d \in Seq(GateSet) /\ Len(d) = n
    BY <1>1, ReverseKeepsLength
<1>5. PICK h : Trace(Lines, h, c, x) /\ SimulateCircuit(c, x) = h[n]
    BY <1>1, SimulateFoldsIn DEF GateSet, Assignments
<1> DEFINE g == [k \in 0..n |-> h[n - k]]
<1> HIDE DEF d
<1>6. /\ h \in [0..n -> SUBSET Lines] /\ h[0] = x
      /\ \A k \in 1..n : h[k] = Simulate(c[k], h[k - 1])
    BY <1>5 DEF Trace
<1>7. g \in [0..n -> SUBSET Lines] /\ g[0] = h[n] /\ g[n] = x
    <2>1. \A k \in 0..n : n - k \in 0..n
        BY <1>1
    <2> QED
        BY <1>1, <1>6, <2>1
<1>8. ASSUME NEW k \in 1..n
      PROVE  g[k] = Simulate(d[k], g[k - 1])
    <2> DEFINE m == (n - k) + 1
    <2>1. m \in 1..n /\ m - 1 \in 0..n /\ m - 1 = n - k /\ m = n - (k - 1) /\ k - 1 \in 0..n /\ k \in 0..n
        BY <1>1
    <2>2. d[k] = c[m]
        BY <1>2
    <2>3. g[k] = h[m - 1] /\ g[k - 1] = h[m]
        BY <2>1
    <2> HIDE DEF m
    <2>4. h[m] = Simulate(c[m], h[m - 1]) /\ h[m - 1] \in Assignments /\ Proper(c[m])
        BY <1>1, <1>6, <2>1 DEF Assignments
    <2>5. Simulate(c[m], Simulate(c[m], h[m - 1])) = h[m - 1]
        BY <2>4, Involution
    <2> QED
        BY <2>2, <2>3, <2>4, <2>5
<1> HIDE DEF g
<1>9. h[n] \in SUBSET Lines
    BY <1>1, <1>6
<1>10. Trace(Lines, g, d, h[n])
    BY <1>4, <1>7, <1>8 DEF Trace
<1>11. SimulateCircuit(d, h[n]) = g[n]
    BY <1>4, <1>9, <1>10, TraceEndsIn DEF GateSet
<1> QED
    BY <1>4, <1>5, <1>7, <1>11 DEF d

LEMMA NotIs ==
    ASSUME NEW l \in Lines, NEW x \in Assignments
    PROVE  Not(l) \in ProperGates /\ Simulate(Not(l), x) = Flip(x, l)
<1>1. Pos({}) = {}
    BY DEF Pos
<1>2. Not(l) = Toffoli(Pos({}), l)
    BY <1>1 DEF Not
<1>3. Proper(Not(l))
    BY <1>2 DEF Proper
<1>4. Simulate(Not(l), x) = Flip(x, l)
    BY <1>2, FlipPositive
<1> QED
    BY <1>3, <1>4, Involution DEF ProperGates

(* With all other lines as controls a gate exchanges two rows, the last one   *)
(* and that without the target.                                             *)
LEMMA AllOthersIs ==
    ASSUME NEW l \in Lines, NEW x \in Assignments
    PROVE  /\ AllOthers(l) \in ProperGates
           /\ Simulate(AllOthers(l), x) = IF x \cup {l} = Lines THEN Flip(x, l) ELSE x
<1> DEFINE C == Lines \ {l}
<1>1. AllOthers(l) = Toffoli(Pos(C), l) /\ C \in SUBSET Lines /\ l \in Lines \ C
    BY DEF AllOthers
<1>2. C \subseteq x <=> x \cup {l} = Lines
    BY DEF Assignments
<1> HIDE DEF C
<1>3. Proper(AllOthers(l))
    BY <1>1 DEF Proper
<1>4. Simulate(AllOthers(l), x) = IF C \subseteq x THEN Flip(x, l) ELSE x
    BY <1>1, FlipPositive
<1> QED
    BY <1>2, <1>3, <1>4, Involution DEF ProperGates

LEMMA InvertersFlip ==
    ASSUME NEW S \in SUBSET Lines, NEW x \in Assignments
    PROVE  /\ Inverters(S) \in Seq(GateSet)
           /\ SimulateCircuit(Inverters(S), x) = SymDiff(x, S)
<1> DEFINE n == Cardinality(S)
           o == Downwards(S)
           c == Inverters(S)
           h == [k \in 0..n |-> SymDiff(x, {o[i] : i \in 1..k})]
<1>1. /\ n \in Nat /\ o \in [1..n -> S] /\ \A l \in S : \E i \in 1..n : o[i] = l
      /\ \A i, j \in 1..n : i < j => o[i] # o[j]
    BY DownwardsLists
<1>2. c = [i \in DOMAIN o |-> Not(o[i])]
    BY DEF Inverters
<1> HIDE DEF n, o, c
<1>3. \A i \in 1..n : o[i] \in Lines /\ c[i] = Not(o[i]) /\ c[i] \in GateSet
    BY <1>1, <1>2, NotIsGate
<1>4. c \in Seq(GateSet) /\ Len(c) = n
    BY <1>1, <1>2, <1>3
<1>5. ASSUME NEW k \in 0..n
      PROVE  {o[i] : i \in 1..k} \subseteq Lines
    BY <1>1, <1>3
<1>6. h \in [0..n -> SUBSET Lines]
    BY <1>5 DEF SymDiff, Assignments
<1>7. h[0] = x
    <2>1. {o[i] : i \in 1..0} = {} /\ 0 \in 0..n
        BY <1>1
    <2> QED
        BY <2>1 DEF SymDiff
<1>8. ASSUME NEW k \in 1..n
      PROVE  h[k] = Simulate(c[k], h[k - 1])
    <2> DEFINE P == {o[i] : i \in 1..k - 1}
               Q == {o[i] : i \in 1..k}
    <2>1. k \in 0..n /\ k - 1 \in 0..n
        BY <1>1
    <2>2. o[k] \notin P /\ Q = P \cup {o[k]}
        <3>1. \A i \in 1..k - 1 : i \in 1..n /\ i < k
            BY <1>1
        <3>2. 1..k = (1..k - 1) \cup {k}
            BY <1>1
        <3> QED
            BY <1>1, <3>1, <3>2
    <2>3. h[k] = SymDiff(x, Q) /\ h[k - 1] = SymDiff(x, P)
        BY <2>1
    <2>4. h[k - 1] \in Assignments
        BY <1>6, <2>1 DEF Assignments
    <2>5. Simulate(c[k], h[k - 1]) = Flip(h[k - 1], o[k])
        BY <1>3, <2>4, NotIs
    <2> HIDE DEF P, Q, h
    <2>6. SymDiff(x, Q) = SymDiff(SymDiff(x, P), {o[k]})
        BY <2>2 DEF SymDiff
    <2> QED
        BY <2>3, <2>5, <2>6 DEF Flip
<1>9. h[n] = SymDiff(x, S)
    <2>1. {o[i] : i \in 1..n} = S
        BY <1>1
    <2>2. n \in 0..n
        BY <1>1
    <2> QED
        BY <2>1, <2>2
<1> HIDE DEF h
<1>10. Trace(Lines, h, c, x)
    BY <1>4, <1>6, <1>7, <1>8 DEF Trace
<1>11. SimulateCircuit(c, x) = h[n]
    BY <1>4, <1>10, TraceEndsIn DEF GateSet, Assignments
<1> QED
    BY <1>4, <1>9, <1>11 DEF c
(* What FlattenSeq has joined after the first parts.                        *)
Joins(s, f) ==
    f = [i \in 1..Len(s) |-> IF i = 1 THEN s[i] ELSE f[i - 1] \o s[i]]

LEMMA JoinsExist ==
    ASSUME NEW S, NEW s \in Seq(Seq(S))
    PROVE  \E f : Joins(s, f)
<1> DEFINE M == Len(s)
           E(n) == \E f : f = [i \in 1..n |-> IF i = 1 THEN s[i] ELSE f[i - 1] \o s[i]]
           T == {n \in Nat : ~E(n)}
<1>1. M \in Nat
    OBVIOUS
<1>2. E(0)
    <2> DEFINE f == [i \in 1..0 |-> s[i]]
    <2>1. f = [i \in 1..0 |-> IF i = 1 THEN s[i] ELSE f[i - 1] \o s[i]]
        OBVIOUS
    <2> QED
        BY <2>1
<1>3. ASSUME NEW n \in Nat, E(n)
      PROVE  E(n + 1)
    <2>1. PICK f : f = [i \in 1..n |-> IF i = 1 THEN s[i] ELSE f[i - 1] \o s[i]]
        BY <1>3
    <2> DEFINE g == [i \in 1..n + 1 |-> IF i \in 1..n THEN f[i]
                                        ELSE IF i = 1 THEN s[i] ELSE f[i - 1] \o s[i]]
    <2>2. ASSUME NEW i \in 1..n + 1
          PROVE  g[i] = IF i = 1 THEN s[i] ELSE g[i - 1] \o s[i]
        <3>1. CASE i \in 1..n
            <4>1. f[i] = IF i = 1 THEN s[i] ELSE f[i - 1] \o s[i]
                BY <2>1, <3>1
            <4>2. i # 1 => i - 1 \in 1..n /\ i - 1 \in 1..n + 1
                BY <3>1
            <4> QED
                BY <3>1, <4>1, <4>2
        <3>2. CASE i \notin 1..n
            <4>1. i = n + 1 /\ (i # 1 => i - 1 \in 1..n /\ i - 1 \in 1..n + 1)
                BY <3>2
            <4> QED
                BY <3>2, <4>1
        <3> QED
            BY <3>1, <3>2
    <2> HIDE DEF g
    <2>3. g = [i \in 1..n + 1 |-> g[i]]
        BY DEF g
    <2>4. g = [i \in 1..n + 1 |-> IF i = 1 THEN s[i] ELSE g[i - 1] \o s[i]]
        BY <2>2, <2>3
    <2> QED
        BY <2>4
<1> HIDE DEF E
<1>4. T = {}
    <2> SUFFICES ASSUME T # {} PROVE FALSE
        OBVIOUS
    <2>1. PICK n \in T : \A k \in T : n <= k
        BY Least
    <2>2. n \in Nat /\ ~E(n) /\ n # 0 /\ n - 1 \in Nat /\ (n - 1) + 1 = n
        BY <1>2
    <2>3. E(n - 1)
        BY <2>1, <2>2
    <2> QED
        BY <1>3, <2>2, <2>3
<1> QED
    BY <1>1, <1>4 DEF E, Joins

LEMMA JoinsHold ==
    ASSUME NEW S, NEW s \in Seq(Seq(S)), s # <<>>
    PROVE  \E f : /\ Joins(s, f)
                  /\ \A i \in 1..Len(s) : f[i] \in Seq(S)
                  /\ SeqExt!FlattenSeq(s) = f[Len(s)]
<1> DEFINE M == Len(s)
           f == CHOOSE f : f = [i \in 1..M |-> IF i = 1 THEN s[i] ELSE f[i - 1] \o s[i]]
<1>1. M \in Nat /\ M # 0 /\ \A i \in 1..M : s[i] \in Seq(S)
    OBVIOUS
<1>2. SeqExt!FlattenSeq(s) = f[M]
    BY <1>1, Zenon DEF SeqExt!FlattenSeq
<1>3. f = [i \in 1..M |-> IF i = 1 THEN s[i] ELSE f[i - 1] \o s[i]]
    <2>1. \E g : g = [i \in 1..M |-> IF i = 1 THEN s[i] ELSE g[i - 1] \o s[i]]
        BY JoinsExist DEF Joins
    <2> QED
        BY <2>1, Zenon
<1> HIDE DEF f
<1>4. \A i \in 1..M : f[i] = IF i = 1 THEN s[i] ELSE f[i - 1] \o s[i]
    BY <1>3
<1> DEFINE T == {i \in 1..M : f[i] \notin Seq(S)}
<1>5. T = {}
    <2> SUFFICES ASSUME T # {} PROVE FALSE
        OBVIOUS
    <2>0. T \subseteq Nat
        BY <1>1
    <2>1. PICK n \in T : \A k \in T : n <= k
        BY <2>0, Least, Zenon
    <2>2. n # 1
        BY <1>1, <1>4
    <2>3. n \in 1..M /\ n - 1 \in 1..M /\ ~ n <= n - 1
        BY <1>1, <2>2
    <2>4. f[n - 1] \in Seq(S)
        BY <2>1, <2>3
    <2>5. f[n] = f[n - 1] \o s[n]
        BY <1>4, <2>2, <2>3
    <2>6. f[n - 1] \o s[n] \in Seq(S)
        BY <1>1, <2>3, <2>4
    <2> QED
        BY <2>1, <2>5, <2>6
<1> QED
    BY <1>2, <1>3, <1>5 DEF Joins

LEMMA SimulateTwo ==
    ASSUME NEW g \in GateSet, NEW h \in GateSet, NEW x \in Assignments
    PROVE  SimulateCircuit(<<g, h>>, x) = Simulate(h, Simulate(g, x))
<1> HIDE DEF GateSet
<1>1. <<g>> \in Seq(GateSet) /\ <<h>> \in Seq(GateSet) /\ <<g, h>> = <<g>> \o <<h>>
    <2>1. <<g>> \in Seq(GateSet) /\ <<h>> \in Seq(GateSet)
        OBVIOUS
    <2>2. Append(<<g>>, h) = <<g>> \o <<h>>
        BY <2>1, AppendIsConcat
    <2>3. Append(<<g>>, h) = <<g, h>>
        <3> DEFINE a == Append(<<g>>, h)
                   b == <<g, h>>
        <3>1. a \in Seq(GateSet) /\ Len(a) = 2 /\ a[1] = g /\ a[2] = h
            BY <2>1, AppendProperties
        <3>2. b \in Seq(GateSet) /\ Len(b) = 2 /\ b[1] = g /\ b[2] = h
            OBVIOUS
        <3> HIDE DEF a, b
        <3>3. \A i \in 1..Len(a) : a[i] = b[i]
            BY <3>1, <3>2
        <3> QED
            BY <3>1, <3>2, <3>3, SeqEqual DEF a, b
    <2> QED
        BY <2>1, <2>2, <2>3
<1>2. SimulateCircuit(<<g>>, x) = Simulate(g, x) /\ Simulate(g, x) \in Assignments
    BY SimulateOne, SimulateTyped
<1>3. SimulateCircuit(<<h>>, Simulate(g, x)) = Simulate(h, Simulate(g, x))
    BY <1>2, SimulateOne
<1>4. SimulateCircuit(<<g>> \o <<h>>, x) = SimulateCircuit(<<h>>, SimulateCircuit(<<g>>, x))
    BY <1>1, SimulateBoth
<1> QED
    BY <1>1, <1>2, <1>3, <1>4

(* Two gates for a line leave the last row alone and raise the line in a row  *)
(* that lacks another one, too.                                             *)
LEMMA MoveRaises ==
    ASSUME NEW l \in Lines, NEW x \in Assignments, l \notin x, x \cup {l} # Lines
    PROVE  /\ SimulateCircuit(<<Not(l), AllOthers(l)>>, x) = x \cup {l}
           /\ SimulateCircuit(<<Not(l), AllOthers(l)>>, Lines) = Lines
<1>1. Lines \in Assignments /\ x \cup {l} \in Assignments /\ Lines \ {l} \in Assignments
    BY DEF Assignments
<1>2. Flip(x, l) = x \cup {l} /\ Flip(Lines, l) = Lines \ {l} /\ Flip(Lines \ {l}, l) = Lines
    BY DEF Flip, SymDiff
<1>3. Not(l) \in GateSet /\ AllOthers(l) \in GateSet
    BY NotIs, AllOthersIs DEF ProperGates
<1>4. Simulate(Not(l), x) = x \cup {l} /\ Simulate(Not(l), Lines) = Lines \ {l}
    BY <1>1, <1>2, NotIs
<1>5. Simulate(AllOthers(l), x \cup {l}) = x \cup {l}
    <2>1. (x \cup {l}) \cup {l} # Lines
        OBVIOUS
    <2> QED
        BY <1>1, <2>1, AllOthersIs
<1>6. Simulate(AllOthers(l), Lines \ {l}) = Lines
    <2>1. (Lines \ {l}) \cup {l} = Lines
        OBVIOUS
    <2> QED
        BY <1>1, <1>2, <2>1, AllOthersIs
<1> QED
    BY <1>1, <1>3, <1>4, <1>5, <1>6, SimulateTwo

HalfMoves(S) == SubSeq(Moves(S), 1, Len(Moves(S)) - 2)

LEMMA HalfIs ==
    ASSUME NEW S \in SUBSET Lines, S # {}
    PROVE  /\ Min(S) \in S /\ HalfMoves(S) \in Seq(ProperGates)
           /\ SimulateCircuit(HalfMoves(S), Lines \ S) = Lines \ {Min(S)}
           /\ SimulateCircuit(HalfMoves(S), Lines) = Lines
<1> DEFINE n == Cardinality(S)
           o == Downwards(S)
           s == [i \in DOMAIN o |-> <<Not(o[i]), AllOthers(o[i])>>]
           R(k) == {o[i] : i \in k + 1..n}
           G == ProperGates
<1>1. /\ n \in Nat /\ o \in [1..n -> S] /\ \A l \in S : \E i \in 1..n : o[i] = l
      /\ \A i, j \in 1..n : i < j => o[i] > o[j]
    BY DownwardsDescend
<1>2. Moves(S) = SeqExt!FlattenSeq(s)
    BY DEF Moves
<1> HIDE DEF n, o
<1>3. n >= 1 /\ n \in 1..n
    BY <1>1
<1>4. \A i \in 1..n : /\ o[i] \in Lines /\ o[i] \in Nat /\ s[i] = <<Not(o[i]), AllOthers(o[i])>>
                      /\ s[i] \in Seq(G) /\ Len(s[i]) = 2
    <2> TAKE i \in 1..n
    <2>1. o[i] \in Lines /\ o[i] \in Nat /\ s[i] = <<Not(o[i]), AllOthers(o[i])>>
        BY <1>1, LinesAre
    <2>2. Not(o[i]) \in G /\ AllOthers(o[i]) \in G
        <3>1. Lines \in Assignments
            BY DEF Assignments
        <3> QED
            BY <2>1, <3>1, NotIs, AllOthersIs
    <2> HIDE DEF s, G
    <2> QED
        BY <2>1, <2>2
<1>5. s \in Seq(Seq(G)) /\ Len(s) = n /\ s # <<>>
    <2>1. s = [i \in 1..n |-> s[i]]
        BY <1>1
    <2> HIDE DEF s, G
    <2>2. s \in [1..n -> Seq(G)]
        BY <1>4, <2>1
    <2>3. s \in Seq(Seq(G)) /\ Len(s) = n
        BY <1>1, <2>2
    <2> QED
        BY <1>3, <2>3
<1> HIDE DEF s, G
<1>6. PICK f : Joins(s, f) /\ (\A i \in 1..n : f[i] \in Seq(G)) /\ SeqExt!FlattenSeq(s) = f[n]
    BY <1>5, JoinsHold, Zenon
<1>7. \A i \in 1..n : f[i] = IF i = 1 THEN s[i] ELSE f[i - 1] \o s[i]
    BY <1>5, <1>6 DEF Joins
<1>8. \A g \in Seq(G) : g \in Seq(GateSet)
    BY DEF G, ProperGates
<1>9. \A k \in 1..n : Len(f[k]) = 2 * k
    <2> DEFINE T == {k \in 1..n : Len(f[k]) # 2 * k}
    <2> SUFFICES ASSUME T # {} PROVE FALSE
        OBVIOUS
    <2>0. T \subseteq Nat
        OBVIOUS
    <2>1. PICK k \in T : \A j \in T : k <= j
        BY <2>0, Least, Zenon
    <2>a. k \in 1..n /\ Len(f[k]) # 2 * k
        OBVIOUS
    <2>b. Len(f[1]) = 2 /\ 2 * 1 = 2
        <3>1. 1 \in 1..n
            BY <1>1, <1>3
        <3>2. f[1] = s[1] /\ Len(s[1]) = 2
            BY <1>4, <1>7, <3>1
        <3> QED
            BY <3>2
    <2>2. k \in 1..n /\ Len(f[k]) # 2 * k /\ k # 1
        BY <2>a, <2>b
    <2>3. k - 1 \in 1..n /\ ~ k <= k - 1 /\ k \in Int
        BY <1>1, <2>2
    <2>4. Len(f[k - 1]) = 2 * (k - 1)
        BY <2>1, <2>3
    <2>5. f[k] = f[k - 1] \o s[k] /\ f[k - 1] \in Seq(G) /\ s[k] \in Seq(G) /\ Len(s[k]) = 2
        BY <1>4, <1>6, <1>7, <2>2, <2>3
    <2>6. Len(f[k]) = Len(f[k - 1]) + 2
        <3>1. Len(f[k - 1] \o s[k]) = Len(f[k - 1]) + Len(s[k])
            BY <2>5, ConcatProperties
        <3> QED
            BY <2>5, <3>1
    <2> HIDE DEF T
    <2> QED
        BY <2>2, <2>3, <2>4, <2>6
<1>10. R(0) = S /\ R(n - 1) = {o[n]}
    <2>1. (n - 1) + 1..n = {n} /\ 0 + 1..n = 1..n
        BY <1>1
    <2> QED
        BY <1>1, <2>1
<1>11. ASSUME NEW k \in 1..n - 1
       PROVE  /\ o[k] \notin Lines \ R(k - 1) /\ (Lines \ R(k - 1)) \cup {o[k]} = Lines \ R(k)
              /\ Lines \ R(k) # Lines
    <2>1. k \in 1..n /\ (k - 1) + 1..n = {k} \cup (k + 1..n) /\ n \in k + 1..n
        BY <1>1
    <2>2. R(k - 1) = {o[k]} \cup R(k) /\ o[n] \in R(k) /\ o[n] \in Lines /\ o[k] \in Lines
        BY <1>3, <1>4, <2>1
    <2>3. o[k] \notin R(k)
        <3> SUFFICES ASSUME NEW i \in k + 1..n, o[k] = o[i] PROVE FALSE
            OBVIOUS
        <3>1. i \in 1..n /\ k < i /\ o[i] \in Nat /\ o[k] \in Nat
            BY <1>1, <1>4, <2>1
        <3> QED
            BY <1>1, <2>1, <3>1
    <2> HIDE DEF R
    <2> QED
        BY <2>2, <2>3
<1>12. \A k : Lines \ R(k) \in Assignments
    BY DEF Assignments
<1> HIDE DEF R
<1> DEFINE Q(k) == /\ SimulateCircuit(f[k], Lines \ S) = Lines \ R(k)
                   /\ SimulateCircuit(f[k], Lines) = Lines
<1>13. Lines \ S \in Assignments /\ Lines \in Assignments
    BY DEF Assignments
<1>14. ASSUME NEW k \in 1..n - 1
       PROVE  /\ SimulateCircuit(s[k], Lines \ R(k - 1)) = Lines \ R(k)
              /\ SimulateCircuit(s[k], Lines) = Lines
    <2>1. k \in 1..n
        BY <1>1
    <2>2. o[k] \in Lines /\ s[k] = <<Not(o[k]), AllOthers(o[k])>>
        BY <1>4, <2>1
    <2> DEFINE x == Lines \ R(k - 1)
    <2>3. o[k] \notin x /\ x \cup {o[k]} = Lines \ R(k) /\ Lines \ R(k) # Lines /\ x \in Assignments
        BY <1>11, <1>12
    <2> HIDE DEF x
    <2>4. /\ SimulateCircuit(s[k], x) = x \cup {o[k]}
          /\ SimulateCircuit(s[k], Lines) = Lines
        BY <2>2, <2>3, MoveRaises
    <2> QED
        BY <2>3, <2>4 DEF x
<1>15. \A k \in 1..n - 1 : Q(k)
    <2> DEFINE T == {k \in 1..n - 1 : ~Q(k)}
    <2> SUFFICES ASSUME T # {} PROVE FALSE
        OBVIOUS
    <2>0. T \subseteq Nat
        OBVIOUS
    <2>1. PICK k \in T : \A j \in T : k <= j
        BY <2>0, Least, Zenon
    <2>a. k \in 1..n - 1 /\ ~Q(k)
        OBVIOUS
    <2> HIDE DEF Q
    <2>2. k \in 1..n - 1 /\ ~Q(k) /\ k \in 1..n
        BY <1>1, <2>a
    <2> USE DEF Q
    <2>3. k # 1
        <3> SUFFICES ASSUME k = 1 PROVE FALSE
            OBVIOUS
        <3>1. f[1] = s[1] /\ 1 - 1 = 0
            BY <1>7, <2>2
        <3> QED
            BY <1>10, <1>14, <2>2, <3>1
    <2>4. k - 1 \in 1..n - 1 /\ k - 1 \in 1..n /\ ~ k <= k - 1
        BY <1>1, <2>2, <2>3
    <2>5. Q(k - 1)
        BY <2>1, <2>4
    <2>6. f[k] = f[k - 1] \o s[k] /\ f[k - 1] \in Seq(GateSet) /\ s[k] \in Seq(GateSet)
        BY <1>4, <1>6, <1>7, <1>8, <2>2, <2>3, <2>4
    <2>7. \A x \in Assignments :
            SimulateCircuit(f[k], x) = SimulateCircuit(s[k], SimulateCircuit(f[k - 1], x))
        BY <2>6, SimulateBoth
    <2>8. Q(k)
        BY <1>13, <1>14, <2>2, <2>5, <2>7
    <2> QED
        BY <2>2, <2>8
<1>16. Min(S) = o[n] /\ o[n] \in S
    <2>1. o[n] \in S /\ \A y \in S : o[n] <= y
        <3> SUFFICES ASSUME NEW y \in S PROVE o[n] \in S /\ o[n] <= y
            BY <1>1
        <3>1. PICK i \in 1..n : o[i] = y
            BY <1>1
        <3>2. o[n] \in S /\ o[n] \in Nat /\ o[i] \in Nat /\ (i # n => i < n)
            BY <1>1, <1>3, <1>4
        <3> QED
            BY <1>1, <1>3, <3>1, <3>2
    <2>2. \A x \in S : (\A y \in S : x <= y) => x = o[n]
        <3> SUFFICES ASSUME NEW x \in S, \A y \in S : x <= y PROVE x = o[n]
            OBVIOUS
        <3>1. x \in Nat /\ o[n] \in Nat /\ x <= o[n] /\ o[n] <= x
            BY <2>1, LinesAre
        <3> QED
            BY <3>1
    <2> DEFINE P(x) == \A y \in S : x <= y
    <2>3. P(o[n]) /\ \A x \in S : P(x) => x = o[n]
        BY <2>1, <2>2
    <2>4. Min(S) = CHOOSE x \in S : P(x)
        BY DEF Min
    <2> HIDE DEF P
    <2> QED
        BY <2>1, <2>3, <2>4
<1>17. Len(f[n]) = 2 * n /\ f[n] \in Seq(G)
    BY <1>3, <1>6, <1>9
<1>18. HalfMoves(S) = SubSeq(f[n], 1, 2 * n - 2)
    BY <1>2, <1>6, <1>17 DEF HalfMoves
<1>19. CASE n = 1
    <2>1. HalfMoves(S) = <<>>
        BY <1>17, <1>18, <1>19
    <2>2. S = {o[n]}
        BY <1>10, <1>19
    <2>3. <<>> \in Seq(G)
        OBVIOUS
    <2> QED
        BY <1>13, <1>16, <2>1, <2>2, <2>3, SimulateNone DEF G
<1>20. CASE n # 1
    <2>1. n - 1 \in 1..n - 1 /\ n - 1 \in 1..n
        BY <1>1, <1>3, <1>20
    <2>2. f[n] = f[n - 1] \o s[n] /\ f[n - 1] \in Seq(G) /\ s[n] \in Seq(G) /\ Len(f[n - 1]) = 2 * (n - 1)
        BY <1>3, <1>4, <1>6, <1>7, <1>9, <1>20, <2>1
    <2>3. 2 * n - 2 = 2 * (n - 1)
        BY <1>1
    <2>4. SubSeq(f[n - 1] \o s[n], 1, Len(f[n - 1])) = f[n - 1]
        <3> DEFINE u == f[n - 1]
        <3>1. u \in Seq(G) /\ s[n] \in Seq(G) /\ Len(u) \in Nat /\ Len(u) >= 1
            BY <1>1, <1>3, <1>20, <2>2
        <3> HIDE DEF u
        <3>2. 1 \in 1..Len(u) /\ Len(u) \in 1..Len(u)
            BY <3>1
        <3>3. SubSeq(u \o s[n], 1, Len(u)) = SubSeq(u, 1, Len(u))
            BY <3>1, <3>2, SubSeqOfConcat1
        <3>4. SubSeq(u, 1, Len(u)) = u
            BY <3>1, SubSeqFull
        <3> QED
            BY <3>3, <3>4 DEF u
    <2>5. HalfMoves(S) = f[n - 1]
        BY <1>18, <2>2, <2>3, <2>4
    <2>6. Q(n - 1)
        BY <1>15, <2>1
    <2> QED
        BY <1>10, <1>16, <2>2, <2>5, <2>6 DEF G
<1> QED
    BY <1>19, <1>20
(* Seven circuits in a row. *)
LEMMA SimulateSeven ==
    ASSUME NEW a \in Seq(GateSet), NEW b \in Seq(GateSet), NEW c \in Seq(GateSet),
           NEW e \in Seq(GateSet), NEW d \in Seq(GateSet), NEW x \in Assignments
    PROVE  /\ a \o b \o c \o e \o d \o b \o a \in Seq(GateSet)
           /\ SimulateCircuit(a \o b \o c \o e \o d \o b \o a, x)
              = SimulateCircuit(a, SimulateCircuit(b, SimulateCircuit(d, SimulateCircuit(e,
                    SimulateCircuit(c, SimulateCircuit(b, SimulateCircuit(a, x)))))))
<1> HIDE DEF GateSet
<1> DEFINE p2 == a \o b
           p3 == p2 \o c
           p4 == p3 \o e
           p5 == p4 \o d
           p6 == p5 \o b
           p7 == p6 \o a
<1>1. p2 \in Seq(GateSet) /\ SimulateCircuit(p2, x) = SimulateCircuit(b, SimulateCircuit(a, x))
    BY SimulateBoth, ConcatProperties
<1> HIDE DEF p2
<1>2. p3 \in Seq(GateSet) /\ SimulateCircuit(p3, x) = SimulateCircuit(c, SimulateCircuit(p2, x))
    BY <1>1, SimulateBoth, ConcatProperties
<1> HIDE DEF p3
<1>3. p4 \in Seq(GateSet) /\ SimulateCircuit(p4, x) = SimulateCircuit(e, SimulateCircuit(p3, x))
    BY <1>2, SimulateBoth, ConcatProperties
<1> HIDE DEF p4
<1>4. p5 \in Seq(GateSet) /\ SimulateCircuit(p5, x) = SimulateCircuit(d, SimulateCircuit(p4, x))
    BY <1>3, SimulateBoth, ConcatProperties
<1> HIDE DEF p5
<1>5. p6 \in Seq(GateSet) /\ SimulateCircuit(p6, x) = SimulateCircuit(b, SimulateCircuit(p5, x))
    BY <1>4, SimulateBoth, ConcatProperties
<1> HIDE DEF p6
<1>6. p7 \in Seq(GateSet) /\ SimulateCircuit(p7, x) = SimulateCircuit(a, SimulateCircuit(p6, x))
    BY <1>5, SimulateBoth, ConcatProperties
<1>7. p7 = a \o b \o c \o e \o d \o b \o a
    BY DEF p2, p3, p4, p5, p6
<1> HIDE DEF p7
<1> QED
    BY <1>1, <1>2, <1>3, <1>4, <1>5, <1>6, <1>7

(* Both rows of a transposition, inverted where both are 0 and where one of    *)
(* them is 1 alone, are the last row and that without the differing lines.   *)
Inverted2(x, N0, R) == SymDiff(SymDiff(x, N0), R)

LineSets(from, to, R, N0, D) ==
    R \in {from \ to, to \ from} /\ N0 = Lines \ (from \cup to) /\ D = SymDiff(from, to)

BecomesLast(from, to, x, R, N0, D) ==
    /\ R \in SUBSET Lines
    /\ Inverted2(x, N0, R) \in Assignments
    /\ SymDiff(SymDiff(Inverted2(x, N0, R), R), N0) = x
    /\ \/ Inverted2(from, N0, R) = Lines /\ Inverted2(to, N0, R) = Lines \ D
       \/ Inverted2(to, N0, R) = Lines /\ Inverted2(from, N0, R) = Lines \ D

LEMMA InvertedTwice ==
    ASSUME NEW from \in Assignments, NEW to \in Assignments, NEW x \in Assignments,
           NEW R, NEW N0, NEW D, LineSets(from, to, R, N0, D)
    PROVE  BecomesLast(from, to, x, R, N0, D)
<1> USE DEF LineSets
<1>1. R \in SUBSET Lines /\ N0 \in SUBSET Lines /\ D \in SUBSET Lines
    BY DEF SymDiff, Assignments
<1>2. Inverted2(x, N0, R) \in Assignments
    BY <1>1 DEF Inverted2, SymDiff, Assignments
<1>3. SymDiff(SymDiff(Inverted2(x, N0, R), R), N0) = x
    <2> QED
        BY ONLY DEF Inverted2, SymDiff
<1>4. CASE R = to \ from
    <2>1. Inverted2(from, N0, R) = Lines
        BY <1>4 DEF Inverted2, SymDiff, Assignments
    <2>2. Inverted2(to, N0, R) = Lines \ D
        BY <1>4 DEF Inverted2, SymDiff, Assignments
    <2> QED
        BY <1>1, <1>2, <1>3, <2>1, <2>2 DEF BecomesLast
<1>5. CASE R = from \ to
    <2>1. Inverted2(to, N0, R) = Lines
        BY <1>5 DEF Inverted2, SymDiff, Assignments
    <2>2. Inverted2(from, N0, R) = Lines \ D
        BY <1>5 DEF Inverted2, SymDiff, Assignments
    <2> QED
        BY <1>1, <1>2, <1>3, <2>1, <2>2 DEF BecomesLast
<1> QED
    BY <1>4, <1>5

SwappedRow(x, y, z) == IF x = y THEN z ELSE IF x = z THEN y ELSE x

(* The circuit of a transposition exchanges its two rows and leaves all       *)
(* others alone: its middle does so in the rows that its front makes of all. *)
LEMMA TranspositionExchanges ==
    ASSUME NEW from \in Assignments, NEW to \in Assignments, from # to
    PROVE  /\ TranspositionCircuit(from, to) \in Seq(GateSet)
           /\ \A x \in Assignments :
                SimulateCircuit(TranspositionCircuit(from, to), x) = SwappedRow(x, from, to)
<1> DEFINE N0 == Lines \ (from \cup to)
           D == SymDiff(from, to)
           F == Inverters(from \ to)
           T == Inverters(to \ from)
           m == Min(D)
           a == Inverters(N0)
           c == HalfMoves(D)
           d == ReverseCircuit(c)
           e == <<AllOthers(m)>>
<1>1. D # {} /\ D \in SUBSET Lines /\ N0 \in SUBSET Lines
    BY DEF SymDiff, Assignments
<1>2. PICK R \in {from \ to, to \ from} : (IF Len(F) < Len(T) THEN F ELSE T) = Inverters(R)
    <2> HIDE DEF F, T
    <2>1. CASE Len(F) < Len(T)
        BY <2>1 DEF F
    <2>2. CASE ~(Len(F) < Len(T))
        BY <2>2 DEF T
    <2> QED
        BY <2>1, <2>2
<1> DEFINE b == Inverters(R)
<1>3. TranspositionCircuit(from, to) = a \o b \o c \o e \o d \o b \o a
    <2>1. e = <<IF D = {} THEN Not(0) ELSE AllOthers(Min(D))>>
        BY <1>1, Zenon
    <2> QED
        BY <1>2, <2>1, Zenon DEF TranspositionCircuit, HalfMoves
<1> DEFINE I(x) == Inverted2(x, N0, R)
<1>4. /\ R \in SUBSET Lines
      /\ \A x \in Assignments : I(x) \in Assignments /\ SymDiff(SymDiff(I(x), R), N0) = x
      /\ \/ I(from) = Lines /\ I(to) = Lines \ D
         \/ I(to) = Lines /\ I(from) = Lines \ D
    <2>1. ASSUME NEW x \in Assignments
          PROVE  BecomesLast(from, to, x, R, N0, D)
        <3>1. LineSets(from, to, R, N0, D)
            BY DEF LineSets
        <3> HIDE DEF N0, D
        <3> QED
            BY <3>1, InvertedTwice, Zenon
    <2> HIDE DEF N0, D
    <2> QED
        BY <2>1 DEF BecomesLast
<1>5. /\ m \in D /\ c \in Seq(ProperGates)
      /\ SimulateCircuit(c, Lines \ D) = Lines \ {m} /\ SimulateCircuit(c, Lines) = Lines
    BY <1>1, HalfIs
<1> HIDE DEF D, m, c, I
<1>6. c \in Seq(GateSet)
    BY <1>5 DEF ProperGates
<1>7. /\ d \in Seq(GateSet)
      /\ \A x \in Assignments : SimulateCircuit(d, SimulateCircuit(c, x)) = x
    <2>1. {} \in Assignments
        BY DEF Assignments
    <2> QED
        BY <1>5, <2>1, ReverseUndoes
<1>8. /\ m \in Lines /\ Lines \in Assignments /\ Lines \ {m} \in Assignments /\ Lines \ D \in Assignments
      /\ Lines # Lines \ {m}
    BY <1>1, <1>5 DEF Assignments
<1>9. AllOthers(m) \in GateSet /\ e \in Seq(GateSet)
    <2>1. AllOthers(m) \in GateSet
        BY <1>8, AllOthersIs DEF ProperGates
    <2> HIDE DEF GateSet
    <2> QED
        BY <2>1
<1>10. ASSUME NEW x \in Assignments
       PROVE  SimulateCircuit(e, x) = SwappedRow(x, Lines, Lines \ {m})
    <2>1. SimulateCircuit(e, x) = IF x \cup {m} = Lines THEN Flip(x, m) ELSE x
        BY <1>8, <1>9, AllOthersIs, SimulateOne
    <2>2. x \cup {m} = Lines <=> x = Lines \/ x = Lines \ {m}
        BY <1>8 DEF Assignments
    <2>3. Flip(Lines, m) = Lines \ {m} /\ Flip(Lines \ {m}, m) = Lines
        BY <1>8 DEF Flip, SymDiff
    <2> QED
        BY <1>8, <2>1, <2>2, <2>3 DEF SwappedRow
<1>11. a \in Seq(GateSet) /\ b \in Seq(GateSet)
    <2>1. {} \in Assignments
        BY DEF Assignments
    <2> QED
        BY <1>1, <1>4, <2>1, InvertersFlip
<1>12. \A x \in Assignments : /\ SimulateCircuit(a, x) = SymDiff(x, N0)
                              /\ SimulateCircuit(b, x) = SymDiff(x, R)
    BY <1>1, <1>4, InvertersFlip
<1>13. ASSUME NEW x \in Assignments, NEW K \in SUBSET Lines
       PROVE  SymDiff(x, K) \in Assignments
    BY DEF SymDiff, Assignments
<1> HIDE DEF a, b, d, e, N0
<1>14. \A x \in Assignments : SimulateCircuit(b, SimulateCircuit(a, x)) = I(x)
    BY <1>1, <1>12, <1>13 DEF I, Inverted2
<1>15. \A y \in Assignments : /\ SimulateCircuit(b, y) \in Assignments
                              /\ SimulateCircuit(a, SimulateCircuit(b, y)) = SymDiff(SymDiff(y, R), N0)
    BY <1>4, <1>12, <1>13
<1> DEFINE W(x) == SimulateCircuit(c, I(x))
<1>16. ASSUME NEW x \in Assignments
       PROVE  /\ W(x) \in Assignments /\ SimulateCircuit(d, W(x)) = I(x)
    BY <1>4, <1>6, <1>7, CircuitTyped
<1>17. /\ SimulateCircuit(d, Lines) = Lines
       /\ SimulateCircuit(d, Lines \ {m}) = Lines \ D
    BY <1>5, <1>7, <1>8
<1> DEFINE Z(x) == SimulateCircuit(d, SimulateCircuit(e, W(x)))
<1>18. Z(from) = I(to) /\ Z(to) = I(from)
    <2>1. CASE I(from) = Lines /\ I(to) = Lines \ D
        <3>1. W(from) = Lines /\ W(to) = Lines \ {m}
            BY <1>5, <2>1
        <3>2. SimulateCircuit(e, W(from)) = Lines \ {m} /\ SimulateCircuit(e, W(to)) = Lines
            BY <1>8, <1>10, <3>1 DEF SwappedRow
        <3> QED
            BY <1>17, <2>1, <3>2
    <2>2. CASE I(to) = Lines /\ I(from) = Lines \ D
        <3>1. W(to) = Lines /\ W(from) = Lines \ {m}
            BY <1>5, <2>2
        <3>2. SimulateCircuit(e, W(to)) = Lines \ {m} /\ SimulateCircuit(e, W(from)) = Lines
            BY <1>8, <1>10, <3>1 DEF SwappedRow
        <3> QED
            BY <1>17, <2>2, <3>2
    <2> QED
        BY <1>4, <2>1, <2>2
<1>19. ASSUME NEW x \in Assignments, x # from, x # to
       PROVE  Z(x) = I(x)
    <2>1. I(x) # I(from) /\ I(x) # I(to)
        BY <1>4, <1>19
    <2>2. I(x) # Lines /\ I(x) # Lines \ D
        BY <1>4, <2>1
    <2>3. W(x) # Lines /\ W(x) # Lines \ {m}
        BY <1>16, <1>17, <2>2
    <2>4. SimulateCircuit(e, W(x)) = W(x)
        BY <1>10, <1>16, <2>3 DEF SwappedRow
    <2> QED
        BY <1>16, <2>4
<1>20. ASSUME NEW x \in Assignments
       PROVE  SimulateCircuit(a \o b \o c \o e \o d \o b \o a, x) = SymDiff(SymDiff(Z(x), R), N0)
    <2>1. SimulateCircuit(a \o b \o c \o e \o d \o b \o a, x)
              = SimulateCircuit(a, SimulateCircuit(b, SimulateCircuit(d, SimulateCircuit(e,
                    SimulateCircuit(c, SimulateCircuit(b, SimulateCircuit(a, x)))))))
        BY <1>6, <1>7, <1>9, <1>11, SimulateSeven
    <2>2. Z(x) \in Assignments
        BY <1>7, <1>9, <1>16, CircuitTyped
    <2> HIDE DEF GateSet
    <2> QED
        BY <1>14, <1>15, <2>1, <2>2
<1> HIDE DEF W, Z
<1>21. ASSUME NEW x \in Assignments
       PROVE  SimulateCircuit(TranspositionCircuit(from, to), x) = SwappedRow(x, from, to)
    <2>1. SimulateCircuit(TranspositionCircuit(from, to), x) = SymDiff(SymDiff(Z(x), R), N0)
        BY <1>3, <1>20
    <2>2. Z(x) = I(SwappedRow(x, from, to)) /\ SwappedRow(x, from, to) \in Assignments
        BY <1>18, <1>19 DEF SwappedRow
    <2> QED
        BY <1>4, <2>1, <2>2
<1>22. TranspositionCircuit(from, to) \in Seq(GateSet)
    <2>1. {} \in Assignments
        BY DEF Assignments
    <2> QED
        BY <1>3, <1>6, <1>7, <1>9, <1>11, <2>1, SimulateSeven
<1> QED
    BY <1>21, <1>22
-------------------------------------------------------------------------------
(* The sequences that follow a permutation from a row, none of them twice.    *)
Chains(f, start) ==
    {c \in Seq(Assignments) :
        /\ c # <<>> /\ c[1] = start
        /\ \A i \in 1..Len(c) - 1 : c[i + 1] = f[c[i]]
        /\ \A i, j \in 1..Len(c) : c[i] = c[j] => i = j}

LEMMA FollowIs ==
    ASSUME NEW f \in Permutations, NEW start \in Assignments, NEW c \in Chains(f, start)
    PROVE  /\ Follow(f, start, c) \in Chains(f, start)
           /\ f[c[Len(c)]] = start => Follow(f, start, c) = c
           /\ f[c[Len(c)]] # start => Len(Follow(f, start, c)) = Len(c) + 1
<1> DEFINE n == Len(c)
<1>1. /\ c \in Seq(Assignments) /\ n \in Nat /\ n >= 1 /\ c[1] = start
      /\ \A i \in 1..n - 1 : c[i + 1] = f[c[i]]
      /\ \A i, j \in 1..n : c[i] = c[j] => i = j
    <2>1. c \in Seq(Assignments) /\ c # <<>>
        BY DEF Chains
    <2>2. n \in Nat /\ n >= 1
        BY <2>1
    <2> QED
        BY <2>1, <2>2 DEF Chains
<1>2. f \in [Assignments -> Assignments] /\ \A x, y \in Assignments : f[x] = f[y] => x = y
    BY DEF Permutations
<1> DEFINE e == f[c[n]]
<1>3. CASE e = start
    BY <1>3 DEF Follow
<1>4. CASE e # start
    <2> DEFINE d == Append(c, e)
    <2>1. c[n] \in Assignments /\ e \in Assignments
        BY <1>1, <1>2
    <2> HIDE DEF n, e
    <2>2. d \in Seq(Assignments) /\ Len(d) = n + 1 /\ d[n + 1] = e /\ \A i \in 1..n : d[i] = c[i]
        BY <1>1, <2>1, AppendProperties DEF n
    <2> HIDE DEF d
    <2>3. d # <<>> /\ d[1] = start
        BY <1>1, <2>2
    <2>4. \A i \in 1..Len(d) - 1 : d[i + 1] = f[d[i]]
        <3> SUFFICES ASSUME NEW i \in 1..n PROVE d[i + 1] = f[c[i]]
            BY <1>1, <2>2
        <3>1. CASE i = n
            BY <2>2, <3>1 DEF e
        <3>2. CASE i # n
            <4>1. i \in 1..n - 1 /\ i + 1 \in 1..n
                BY <1>1, <3>2
            <4> QED
                BY <1>1, <2>2, <4>1
        <3> QED
            BY <3>1, <3>2
    <2>5. \A i \in 1..n : c[i] # e
        <3> SUFFICES ASSUME NEW i \in 1..n, c[i] = e PROVE FALSE
            OBVIOUS
        <3>1. i # 1
            BY <1>1, <1>4
        <3>2. i - 1 \in 1..n - 1 /\ i - 1 \in 1..n /\ (i - 1) + 1 = i /\ n \in 1..n /\ i - 1 # n
            BY <1>1, <3>1
        <3>3. f[c[i - 1]] = f[c[n]] /\ c[i - 1] \in Assignments
            BY <1>1, <3>2 DEF e, n
        <3>4. c[i - 1] = c[n]
            BY <1>2, <2>1, <3>3
        <3> QED
            BY <1>1, <3>2, <3>4
    <2>6. \A i, j \in 1..n + 1 : d[i] = d[j] => i = j
        <3>1. \A i \in 1..n + 1 : i \in 1..n \/ i = n + 1
            BY <1>1
        <3> QED
            BY <1>1, <2>2, <2>5, <3>1
    <2>7. d \in Chains(f, start)
        BY <2>2, <2>3, <2>4, <2>6 DEF Chains
    <2>8. Follow(f, start, c) = d
        BY <1>4 DEF Follow, e, n, d
    <2> QED
        BY <1>4, <2>2, <2>7, <2>8 DEF e, n
<1> QED
    BY <1>3, <1>4

CycleWalk(h, f, start) ==
    /\ h \in [0..N -> Chains(f, start)] /\ h[0] = <<start>>
    /\ \A k \in 1..N : h[k] = Follow(f, start, h[k - 1])

LEMMA CycleFolds ==
    ASSUME NEW f \in Permutations, NEW start \in Assignments
    PROVE  \E h : CycleWalk(h, f, start) /\ Cycle(f, start) = h[N]
<1> DEFINE n == N
           order == [i \in 1..Cardinality(Assignments) |-> i]
           V == Chains(f, start)
           F == [e \in (1..n) \X V |-> Follow(f, start, e[2])]
           Is(it) == it = [s \in SUBSET (DOMAIN order) |->
                            IF s = {} THEN <<start>>
                            ELSE Follow(f, start, it[s \ {SeqExt!Max(s)}])]
           r == CHOOSE r : Is(r)
<1>1. n \in Nat /\ DOMAIN order = 1..n
    BY RowsAscend DEF order, N
<1>2. Cycle(f, start) = r[DOMAIN order]
    BY Zenon DEF Cycle, order, SeqExt!FoldLeft, SeqExt!MapThenFoldSet
<1>3. \A i \in 1..n, v \in V : Follow(f, start, v) \in V
    BY FollowIs
<1>4. <<start>> \in V
    <2>1. /\ <<start>> \in Seq(Assignments) /\ Len(<<start>>) = 1
          /\ <<start>> # <<>> /\ <<start>>[1] = start
        OBVIOUS
    <2> QED
        BY <2>1 DEF Chains
<1> HIDE DEF n, V, order
<1>5. F \in [(1..n) \X V -> V]
    BY <1>3
<1>6. PICK it \in [SUBSET (1..n) -> V] : IsFold(it, F, <<start>>, n)
    <2> HIDE DEF F
    <2> QED
        BY <1>1, <1>4, <1>5, FoldExists
<1>7. Is(it)
    <2>1. ASSUME NEW s \in SUBSET (1..n), s # {}
          PROVE  F[<<SeqExt!Max(s), it[s \ {SeqExt!Max(s)}]>>]
                 = Follow(f, start, it[s \ {SeqExt!Max(s)}])
        <3>1. SeqExt!Max(s) \in 1..n /\ it[s \ {SeqExt!Max(s)}] \in V
            BY <1>1, <2>1, MaxOf
        <3> QED
            BY <3>1
    <2> HIDE DEF F
    <2> QED
        BY <1>1, <1>6, <2>1 DEF IsFold
<1>8. Is(r)
    <2> HIDE DEF Is
    <2> QED
        BY <1>7, Zenon
<1> HIDE DEF r
<1>9. Unfolds(r, F, <<start>>, n, V)
    <2>1. r[{}] = <<start>>
        BY <1>8
    <2>2. ASSUME NEW s \in SUBSET (1..n), s # {}, r[s \ {SeqExt!Max(s)}] \in V
          PROVE  r[s] = F[<<SeqExt!Max(s), r[s \ {SeqExt!Max(s)}]>>]
        <3>1. SeqExt!Max(s) \in 1..n
            BY <1>1, <2>2, MaxOf
        <3>2. r[s] = Follow(f, start, r[s \ {SeqExt!Max(s)}])
            BY <1>1, <1>8, <2>2, Zenon
        <3> QED
            BY <2>2, <3>1, <3>2
    <2> HIDE DEF F
    <2> QED
        BY <2>1, <2>2 DEF Unfolds
<1>10. PICK h : Walk(h, F, <<start>>, n, V) /\ r[1..n] = h[n]
    <2> HIDE DEF F
    <2>1. WalksTo(r[1..n], F, <<start>>, n, V)
        BY <1>1, <1>4, <1>5, <1>9, WalkOfUnfolds, Zenon
    <2> QED
        BY <2>1 DEF WalksTo
<1>11. \A k \in 1..n : h[k] = Follow(f, start, h[k - 1])
    <2> TAKE k \in 1..n
    <2>1. k - 1 \in 0..n /\ h[k - 1] \in V
        BY <1>1, <1>10 DEF Walk
    <2>2. F[<<k, h[k - 1]>>] = Follow(f, start, h[k - 1])
        BY <2>1
    <2> HIDE DEF F
    <2> QED
        BY <1>10, <2>2 DEF Walk
<1> HIDE DEF F
<1>12. CycleWalk(h, f, start)
    BY <1>10, <1>11 DEF Walk, CycleWalk, n, V, order
<1> QED
    BY <1>1, <1>2, <1>10, <1>12 DEF n

LEMMA CycleIs ==
    ASSUME NEW f \in Permutations, NEW start \in Assignments
    PROVE  /\ Cycle(f, start) \in Chains(f, start)
           /\ f[Cycle(f, start)[Len(Cycle(f, start))]] = start
<1>1. PICK h : CycleWalk(h, f, start) /\ Cycle(f, start) = h[N]
    BY CycleFolds
<1>2. N \in Nat
    BY RowsAscend
<1>3. /\ \A k \in 0..N : h[k] \in Chains(f, start)
      /\ h[0] = <<start>> /\ \A k \in 1..N : h[k] = Follow(f, start, h[k - 1])
    BY <1>1 DEF CycleWalk
<1>4. ASSUME NEW c \in Chains(f, start)
      PROVE  Len(c) \in Nat /\ Len(c) <= N
    <2>1. c \in Seq(Assignments) /\ \A i, j \in 1..Len(c) : c[i] = c[j] => i = j
        BY DEF Chains
    <2>2. c \in [1..Len(c) -> Assignments] /\ Len(c) \in Nat
        BY <2>1
    <2>3. IsFiniteSet(1..Len(c)) /\ Cardinality(1..Len(c)) = Len(c)
        <3> DEFINE m == Len(c)
        <3>1. m \in Int /\ 1 \in Int /\ m \in Nat
            BY <2>2
        <3> HIDE DEF m
        <3>2. IsFiniteSet(1..m) /\ Cardinality(1..m) = IF 1 > m THEN 0 ELSE m - 1 + 1
            BY <3>1, FS_Interval
        <3> QED
            BY <3>1, <3>2 DEF m
    <2>4. ~(N < Len(c))
        <3> SUFFICES ASSUME N < Len(c) PROVE FALSE
            OBVIOUS
        <3>1. \E x, y \in 1..Len(c) : x # y /\ c[x] = c[y]
            BY <2>2, <2>3, AreFinite, FS_PigeonHole DEF N
        <3> QED
            BY <2>1, <3>1
    <2> QED
        BY <1>2, <2>2, <2>4
<1> DEFINE Open(k) == f[h[k][Len(h[k])]] # start
<1>5. ASSUME NEW k \in 1..N, Open(k)
      PROVE  Open(k - 1) /\ Len(h[k]) = Len(h[k - 1]) + 1
    <2>1. k - 1 \in 0..N
        BY <1>2
    <2>2. h[k - 1] \in Chains(f, start) /\ h[k] = Follow(f, start, h[k - 1])
        BY <1>3, <2>1
    <2> QED
        BY <1>5, <2>2, FollowIs
<1> HIDE DEF Open
<1>6. ~Open(N)
    <2> SUFFICES ASSUME Open(N) PROVE FALSE
        OBVIOUS
    <2> DEFINE T == {d \in 0..N : ~(Open(N - d) /\ Len(h[N - d]) + d = Len(h[N]))}
    <2>0. T \subseteq Nat
        OBVIOUS
    <2>1. T = {}
        <3> SUFFICES ASSUME T # {} PROVE FALSE
            OBVIOUS
        <3>1. PICK d \in T : \A j \in T : d <= j
            BY <2>0, Least, Zenon
        <3>2. d \in 0..N /\ ~(Open(N - d) /\ Len(h[N - d]) + d = Len(h[N]))
            BY <3>1
        <3>3. d # 0
            <4> SUFFICES ASSUME d = 0 PROVE FALSE
                OBVIOUS
            <4>1. N - 0 = N /\ N \in 0..N
                BY <1>2
            <4>2. Len(h[N]) \in Nat
                BY <1>3, <1>4, <4>1
            <4> QED
                BY <3>2, <4>1, <4>2
        <3>4. d - 1 \in 0..N /\ ~ d <= d - 1 /\ N - (d - 1) \in 1..N /\ (N - (d - 1)) - 1 = N - d
            BY <1>2, <3>2, <3>3
        <3>5. Open(N - (d - 1)) /\ Len(h[N - (d - 1)]) + (d - 1) = Len(h[N])
            BY <3>1, <3>4
        <3>6. Open(N - d) /\ Len(h[N - (d - 1)]) = Len(h[N - d]) + 1
            BY <1>5, <3>4, <3>5
        <3>7. N - d \in 0..N
            BY <1>2, <3>2
        <3>8. Len(h[N - d]) \in Nat
            BY <1>3, <1>4, <3>7
        <3> HIDE DEF T
        <3> QED
            BY <3>2, <3>5, <3>6, <3>8, SMTT(40)
    <2>2. N \in 0..N /\ 0 \in 0..N /\ N - N = 0
        BY <1>2
    <2>3. Len(h[0]) + N = Len(h[N])
        BY <2>1, <2>2, SMTT(40)
    <2>4. Len(h[0]) = 1
        BY <1>3
    <2>5. Len(h[N]) <= N
        BY <1>3, <1>4, <2>2
    <2> QED
        BY <1>2, <2>3, <2>4, <2>5
<1>7. N \in 0..N
    BY <1>2
<1> QED
    BY <1>1, <1>3, <1>6, <1>7 DEF Open
LEMMA MostDistantIs ==
    ASSUME NEW c \in Seq(Assignments), c # <<>>
    PROVE  MostDistant(c) \in 1..Len(c)
<1> DEFINE n == Len(c)
           d(i) == Distance(c[i], Neighbour(c, i))
           M == Cardinality(Lines)
           P(i) == /\ \A j \in DOMAIN c : d(j) <= d(i)
                   /\ \A j \in 1..i - 1 : d(j) < d(i)
           T == {M - d(i) : i \in 1..n}
<1>1. n \in Nat /\ n >= 1 /\ DOMAIN c = 1..n
    OBVIOUS
<1>2. M \in Nat
    BY AreFinite, FS_CardinalityType
<1>3. \A i \in 1..n : d(i) \in Nat /\ d(i) <= M
    <2> TAKE i \in 1..n
    <2>1. (i % Len(c)) + 1 \in 1..n
        BY <1>1
    <2>2. c[i] \in Assignments /\ Neighbour(c, i) \in Assignments
        BY <1>1, <2>1 DEF Neighbour
    <2> DEFINE S == SymDiff(c[i], Neighbour(c, i))
    <2>3. S \in SUBSET Lines
        BY <2>2 DEF SymDiff, Assignments
    <2>4. Cardinality(S) \in Nat /\ Cardinality(S) <= Cardinality(Lines)
        <3> HIDE DEF S
        <3> QED
            BY <2>3, AreFinite, FS_Subset, FS_CardinalityType
    <2> QED
        BY <2>4 DEF Distance
<1>4. MostDistant(c) = CHOOSE i \in DOMAIN c : P(i)
    BY DEF MostDistant
<1> HIDE DEF n, d, M
<1>5. PICK m \in T : \A k \in T : m <= k
    <2>1. T \subseteq Nat
        BY <1>2, <1>3
    <2>2. T # {}
        BY <1>1
    <2> HIDE DEF T
    <2> QED
        BY <2>1, <2>2, Least
<1> DEFINE U == {i \in 1..n : M - d(i) = m}
<1>6. PICK i \in U : \A k \in U : i <= k
    <2>1. U \subseteq Nat /\ U # {}
        BY <1>1, <1>5
    <2> HIDE DEF U
    <2> QED
        BY <2>1, Least
<1>7. i \in 1..n /\ M - d(i) = m /\ \A j \in 1..n : M - d(i) <= M - d(j)
    BY <1>5, <1>6
<1>8. \A j \in 1..n : d(j) <= d(i)
    BY <1>2, <1>3, <1>7
<1>9. \A j \in 1..i - 1 : d(j) < d(i)
    <2> SUFFICES ASSUME NEW j \in 1..i - 1 PROVE d(j) < d(i)
        OBVIOUS
    <2>1. j \in 1..n /\ ~ i <= j
        BY <1>1, <1>7
    <2>2. j \notin U
        BY <1>6, <2>1
    <2>3. d(j) # d(i)
        BY <1>7, <2>1, <2>2
    <2> QED
        BY <1>3, <1>7, <1>8, <2>1, <2>3
<1>10. i \in DOMAIN c /\ P(i)
    BY <1>1, <1>7, <1>8, <1>9
<1> HIDE DEF P
<1>11. (CHOOSE j \in DOMAIN c : P(j)) \in DOMAIN c
    BY <1>10
<1> QED
    BY <1>1, <1>4, <1>11 DEF n

(* A cycle as it is left to do: f maps a row of it to the one before.         *)
BeforeIn(t, i) == IF i = 1 THEN t[Len(t)] ELSE t[i - 1]

Orbit(f, t) ==
    /\ t \in Seq(Assignments) /\ t # <<>>
    /\ \A i, j \in 1..Len(t) : t[i] = t[j] => i = j
    /\ \A i \in 1..Len(t) : f[t[i]] = BeforeIn(t, i)

(* t goes through the rows of the chain c against f. *)
TurnsAround(f, c, t) ==
    /\ Orbit(f, t) /\ Len(t) = Len(c)
    /\ \A i \in 1..Len(c) : \E j \in 1..Len(c) : t[j] = c[i]
    /\ \A j \in 1..Len(c) : \E i \in 1..Len(c) : t[j] = c[i]

LEMMA TurnedIs ==
    ASSUME NEW f, NEW start, NEW c \in Chains(f, start), f[c[Len(c)]] = start
    PROVE  TurnsAround(f, c, Turned(c))
<1> DEFINE n == Len(c)
           k == MostDistant(c)
           a == SubSeq(c, k + 1, n)
           b == SubSeq(c, 1, k)
           r == a \o b
           t == Turned(c)
<1>1. /\ c \in Seq(Assignments) /\ c # <<>> /\ c[1] = start
      /\ \A i \in 1..n - 1 : c[i + 1] = f[c[i]]
      /\ \A i, j \in 1..n : c[i] = c[j] => i = j
    BY DEF Chains
<1>2. n \in Nat /\ n >= 1
    BY <1>1
<1>3. k \in 1..n
    BY <1>1, MostDistantIs
<1>4. t = SeqExt!Reverse(r)
    BY DEF Turned
<1> HIDE DEF k
<1>5. /\ a \in Seq(Assignments) /\ b \in Seq(Assignments) /\ Len(a) = n - k /\ Len(b) = k
      /\ \A i \in 1..n - k : a[i] = c[i + k]
      /\ \A i \in 1..k : b[i] = c[i]
    BY <1>1, <1>2, <1>3
<1> HIDE DEF n, a, b
<1>6. /\ r \in Seq(Assignments) /\ Len(r) = n
      /\ \A i \in 1..n : r[i] = IF i <= n - k THEN c[i + k] ELSE c[i - (n - k)]
    <2>1. r \in Seq(Assignments) /\ Len(r) = Len(a) + Len(b)
        BY <1>5, ConcatProperties
    <2>2. Len(r) = n
        BY <1>2, <1>3, <1>5, <2>1
    <2>3. ASSUME NEW i \in 1..n
          PROVE  r[i] = IF i <= n - k THEN c[i + k] ELSE c[i - (n - k)]
        <3>1. r[i] = IF i <= Len(a) THEN a[i] ELSE b[i - Len(a)]
            <4>1. i \in 1..Len(a) + Len(b)
                BY <2>1, <2>2
            <4>2. \A j \in 1..Len(a) + Len(b) : (a \o b)[j] = IF j <= Len(a) THEN a[j] ELSE b[j - Len(a)]
                BY <1>5, ConcatProperties
            <4> QED
                BY <4>1, <4>2
        <3>2. i <= n - k => i \in 1..n - k
            BY <1>2, <1>3
        <3>3. ~(i <= n - k) => i - (n - k) \in 1..k
            BY <1>2, <1>3
        <3> QED
            BY <1>5, <3>1, <3>2, <3>3
    <2> QED
        BY <2>1, <2>2, <2>3
<1> HIDE DEF r
<1>7. t = [i \in 1..n |-> r[(n - i) + 1]]
    BY <1>4, <1>6 DEF SeqExt!Reverse
<1> HIDE DEF t
<1> DEFINE q(i) == IF i <= k THEN (k - i) + 1 ELSE (n - i) + 1 + k
<1>8. ASSUME NEW i \in 1..n
      PROVE  q(i) \in 1..n /\ t[i] = c[q(i)]
    <2>1. (n - i) + 1 \in 1..n
        BY <1>2
    <2>2. t[i] = r[(n - i) + 1]
        BY <1>7
    <2>3. CASE i <= k
        <3>1. ~((n - i) + 1 <= n - k) /\ ((n - i) + 1) - (n - k) = (k - i) + 1
            BY <1>2, <1>3, <2>3
        <3> QED
            BY <1>2, <1>3, <1>6, <2>1, <2>2, <2>3, <3>1, SMTT(40)
    <2>4. CASE ~(i <= k)
        <3>1. (n - i) + 1 <= n - k /\ ((n - i) + 1) + k = (n - i) + 1 + k
            BY <1>2, <1>3, <2>4
        <3> QED
            BY <1>2, <1>3, <1>6, <2>1, <2>2, <2>4, <3>1
    <2> QED
        BY <2>3, <2>4
<1>9. \A i, j \in 1..n : q(i) = q(j) => i = j
    BY <1>2, <1>3
<1>10. \A i \in 1..n : q(i) \in 1..n /\ q(q(i)) \in 1..n
    BY <1>8
<1>11. \A i \in 1..n : \E j \in 1..n : q(j) = i
    <2> SUFFICES ASSUME NEW i \in 1..n PROVE \E j \in 1..n : q(j) = i
        OBVIOUS
    <2>1. CASE i <= k
        <3>1. (k - i) + 1 \in 1..n /\ (k - i) + 1 <= k /\ (k - ((k - i) + 1)) + 1 = i
            BY <1>2, <1>3, <2>1
        <3> QED
            BY <3>1
    <2>2. CASE ~(i <= k)
        <3>1. /\ (n - i) + 1 + k \in 1..n /\ ~((n - i) + 1 + k <= k)
              /\ (n - ((n - i) + 1 + k)) + 1 + k = i
            BY <1>2, <1>3, <2>2
        <3> QED
            BY <3>1
    <2> QED
        BY <2>1, <2>2
<1>12. t \in Seq(Assignments) /\ Len(t) = n /\ t # <<>>
    <2>1. \A i \in 1..n : t[i] \in Assignments
        BY <1>1, <1>8 DEF n
    <2>2. t \in [1..n -> Assignments]
        BY <1>7, <2>1
    <2>3. t \in Seq(Assignments) /\ Len(t) = n
        BY <1>2, <2>2
    <2> QED
        BY <1>2, <2>3
<1>13. \A i, j \in 1..n : t[i] = t[j] => i = j
    <2> SUFFICES ASSUME NEW i \in 1..n, NEW j \in 1..n, t[i] = t[j] PROVE i = j
        OBVIOUS
    <2>1. q(i) \in 1..n /\ q(j) \in 1..n /\ c[q(i)] = c[q(j)]
        BY <1>8
    <2> HIDE DEF q
    <2>2. q(i) = q(j)
        BY <1>1, <2>1
    <2> QED
        BY <1>9, <2>2
<1>14. ASSUME NEW i \in 1..n
       PROVE  f[t[i]] = BeforeIn(t, i)
    <2>1. i # 1 => i - 1 \in 1..n
        BY <1>2
    <2>2. n \in 1..n /\ 1 \in 1..n
        BY <1>2
    <2>3. q(i) = n => f[t[i]] = c[1]
        BY <1>1, <1>8 DEF n
    <2>4. q(i) # n => q(i) \in 1..n - 1 /\ f[t[i]] = c[q(i) + 1]
        <3> DEFINE m == q(i)
        <3>1. m \in 1..n /\ t[i] = c[m]
            BY <1>8
        <3> HIDE DEF m
        <3>2. m # n => m \in 1..n - 1
            BY <1>2, <3>1
        <3>3. m # n => f[t[i]] = c[m + 1]
            BY <1>1, <3>1, <3>2
        <3> QED
            BY <3>2, <3>3 DEF m
    <2>5. CASE i = 1
        <3>1. q(i) = k
            BY <1>3, <2>5
        <3>2. k = n => q(n) = 1
            BY <1>2, <1>3
        <3>3. k # n => q(n) = k + 1
            BY <1>2, <1>3
        <3>4. t[n] = c[q(n)]
            BY <1>8, <2>2
        <3> HIDE DEF q
        <3>5. f[t[i]] = t[n]
            BY <2>3, <2>4, <3>1, <3>2, <3>3, <3>4
        <3> QED
            BY <1>12, <2>5, <3>5 DEF BeforeIn
    <2>6. CASE i # 1
        <3>1. q(i) = n => q(i - 1) = 1
            BY <1>2, <1>3, <2>6
        <3>2. q(i) # n => q(i - 1) = q(i) + 1
            BY <1>2, <1>3, <2>6
        <3>3. t[i - 1] = c[q(i - 1)]
            BY <1>8, <2>1, <2>6
        <3> HIDE DEF q
        <3>4. f[t[i]] = t[i - 1]
            BY <2>3, <2>4, <3>1, <3>2, <3>3
        <3> QED
            BY <2>6, <3>4 DEF BeforeIn
    <2> QED
        BY <2>5, <2>6
<1>15. \A i \in 1..n : \E j \in 1..n : t[j] = c[i]
    BY <1>8, <1>11
<1>16. \A j \in 1..n : \E i \in 1..n : t[j] = c[i]
    BY <1>8
<1>17. Orbit(f, t)
    BY <1>12, <1>13, <1>14 DEF Orbit
<1> QED
    BY <1>12, <1>15, <1>16, <1>17 DEF n, t, TurnsAround

LEMMA FirstIs ==
    ASSUME NEW S \in SUBSET Assignments, S # {}
    PROVE  First(S) \in S
<1> DEFINE R == {p \in S \X S : Smaller(p[1], p[2])}
<1>1. \A x, y \in S : <<x, y>> \in R <=> Smaller(x, y)
    OBVIOUS
<1> HIDE DEF R
<1>2. IsStrictOrder(R, S)
    <2>1. \A x \in S : <<x, x>> \notin R
        BY <1>1, SmallerIrreflexive
    <2>2. \A x, y \in S : x # y => <<x, y>> \in R \/ <<y, x>> \in R
        BY <1>1, SmallerTotal
    <2>3. \A x, y, z \in S : <<x, y>> \in R /\ <<y, z>> \in R => <<x, z>> \in R
        BY <1>1, SmallerTransitive
    <2> QED
        BY <2>1, <2>2, <2>3 DEF IsStrictOrder
<1>3. IsFiniteSet(S)
    BY AreFinite, FS_Subset
<1>4. 1 \in 1..Cardinality(S)
    BY <1>3, FS_CardinalityType, FS_EmptySet
<1>5. PICK x \in S : Rank(x, R, S) = 1 - 1
    BY <1>2, <1>3, <1>4, RanksAreTaken
<1>6. LowerPart(x, R, S) = {}
    <2>1. LowerPart(x, R, S) \subseteq S
        BY DEF LowerPart
    <2>2. IsFiniteSet(LowerPart(x, R, S))
        BY <1>3, <2>1, FS_Subset
    <2> QED
        BY <1>5, <2>2, FS_EmptySet DEF Rank
<1>7. \A y \in S : ~Smaller(y, x)
    BY <1>1, <1>6 DEF LowerPart
<1> DEFINE P(z) == \A y \in S : ~Smaller(y, z)
<1>8. First(S) = CHOOSE z \in S : P(z)
    BY DEF First
<1>9. x \in S /\ P(x)
    BY <1>7
<1> HIDE DEF P
<1> QED
    BY <1>8, <1>9

AlongWalk(h, c, y) ==
    /\ h \in [0..Len(c) - 1 -> Assignments] /\ h[0] = y
    /\ \A k \in 1..Len(c) - 1 : h[k] = ExchangedAt(c, h[k - 1], k)

LEMMA AlongFolds ==
    ASSUME NEW c \in Seq(Assignments), c # <<>>, NEW y \in Assignments
    PROVE  \E h : AlongWalk(h, c, y) /\ Along(c, y) = h[Len(c) - 1]
<1> DEFINE n == Len(c) - 1
           order == [i \in 1..Len(c) - 1 |-> i]
           V == Assignments
           F == [e \in (1..n) \X V |-> ExchangedAt(c, e[2], order[e[1]])]
           Is(it) == it = [s \in SUBSET (DOMAIN order) |->
                            IF s = {} THEN y
                            ELSE ExchangedAt(c, it[s \ {SeqExt!Max(s)}], order[SeqExt!Max(s)])]
           r == CHOOSE r : Is(r)
<1>1. n \in Nat /\ DOMAIN order = 1..n
    OBVIOUS
<1>2. Along(c, y) = r[DOMAIN order]
    BY Zenon DEF Along, order, SeqExt!FoldLeft, SeqExt!MapThenFoldSet
<1>3. \A i \in 1..n, v \in V : ExchangedAt(c, v, order[i]) \in V
    <2> SUFFICES ASSUME NEW i \in 1..n, NEW v \in V PROVE ExchangedAt(c, v, order[i]) \in V
        OBVIOUS
    <2>1. order[i] = i /\ c[i] \in Assignments /\ c[i + 1] \in Assignments
        OBVIOUS
    <2> QED
        BY <2>1 DEF ExchangedAt
<1>4. y \in V
    OBVIOUS
<1> HIDE DEF n, V, order
<1>5. F \in [(1..n) \X V -> V]
    BY <1>3
<1>6. PICK it \in [SUBSET (1..n) -> V] : IsFold(it, F, y, n)
    <2> HIDE DEF F
    <2> QED
        BY <1>1, <1>4, <1>5, FoldExists
<1>7. Is(it)
    <2>1. ASSUME NEW s \in SUBSET (1..n), s # {}
          PROVE  F[<<SeqExt!Max(s), it[s \ {SeqExt!Max(s)}]>>]
                 = ExchangedAt(c, it[s \ {SeqExt!Max(s)}], order[SeqExt!Max(s)])
        <3>1. SeqExt!Max(s) \in 1..n /\ it[s \ {SeqExt!Max(s)}] \in V
            BY <1>1, <2>1, MaxOf
        <3> QED
            BY <3>1
    <2> HIDE DEF F
    <2> QED
        BY <1>1, <1>6, <2>1 DEF IsFold
<1>8. Is(r)
    <2> HIDE DEF Is
    <2> QED
        BY <1>7, Zenon
<1> HIDE DEF r
<1>9. Unfolds(r, F, y, n, V)
    <2>1. r[{}] = y
        BY <1>8
    <2>2. ASSUME NEW s \in SUBSET (1..n), s # {}, r[s \ {SeqExt!Max(s)}] \in V
          PROVE  r[s] = F[<<SeqExt!Max(s), r[s \ {SeqExt!Max(s)}]>>]
        <3>1. SeqExt!Max(s) \in 1..n
            BY <1>1, <2>2, MaxOf
        <3>2. r[s] = ExchangedAt(c, r[s \ {SeqExt!Max(s)}], order[SeqExt!Max(s)])
            BY <1>1, <1>8, <2>2, Zenon
        <3> QED
            BY <2>2, <3>1, <3>2
    <2> HIDE DEF F
    <2> QED
        BY <2>1, <2>2 DEF Unfolds
<1>10. PICK h : Walk(h, F, y, n, V) /\ r[1..n] = h[n]
    <2> HIDE DEF F
    <2>1. WalksTo(r[1..n], F, y, n, V)
        BY <1>1, <1>4, <1>5, <1>9, WalkOfUnfolds, Zenon
    <2> QED
        BY <2>1 DEF WalksTo
<1>11. \A k \in 1..n : h[k] = ExchangedAt(c, h[k - 1], order[k])
    <2> TAKE k \in 1..n
    <2>1. k - 1 \in 0..n /\ h[k - 1] \in V
        BY <1>1, <1>10 DEF Walk
    <2>2. F[<<k, h[k - 1]>>] = ExchangedAt(c, h[k - 1], order[k])
        BY <2>1
    <2> HIDE DEF F
    <2> QED
        BY <1>10, <2>2 DEF Walk
<1> HIDE DEF F
<1>12. AlongWalk(h, c, y)
    BY <1>10, <1>11 DEF Walk, AlongWalk, n, V, order
<1> QED
    BY <1>1, <1>2, <1>10, <1>12 DEF n

(* The transpositions of a cycle, done in order, take its first row to its     *)
(* last one and any other row to the one before.                            *)
LEMMA AlongIs ==
    ASSUME NEW c \in Seq(Assignments), c # <<>>,
           \A i, j \in 1..Len(c) : c[i] = c[j] => i = j, NEW y \in Assignments
    PROVE  /\ Along(c, y) \in Assignments
           /\ \A i \in 1..Len(c) : y = c[i] => Along(c, y) = BeforeIn(c, i)
           /\ (\A i \in 1..Len(c) : y # c[i]) => Along(c, y) = y
<1> DEFINE n == Len(c) - 1
<1>1. PICK h : AlongWalk(h, c, y) /\ Along(c, y) = h[n]
    BY AlongFolds
<1>2. /\ n \in Nat /\ Len(c) = n + 1 /\ \A i \in 1..n + 1 : c[i] \in Assignments
      /\ \A i, j \in 1..n + 1 : c[i] = c[j] => i = j
    OBVIOUS
<1>3. /\ h \in [0..n -> Assignments] /\ h[0] = y
      /\ \A k \in 1..n : h[k] = ExchangedAt(c, h[k - 1], k)
    BY <1>1 DEF AlongWalk
<1> HIDE DEF n
<1> DEFINE A(k) == /\ y = c[1] => h[k] = c[k + 1]
                   /\ \A j \in 2..n + 1 : y = c[j] => h[k] = IF k < j - 1 THEN y ELSE c[j - 1]
                   /\ (\A i \in 1..n + 1 : y # c[i]) => h[k] = y
           T == {k \in 0..n : ~A(k)}
<1>4. A(0)
    BY <1>2, <1>3
<1>5. ASSUME NEW k \in 1..n, A(k - 1)
      PROVE  A(k)
    <2>1. /\ k - 1 \in 0..n /\ k \in 1..n + 1 /\ k + 1 \in 1..n + 1 /\ 1 \in 1..n + 1 /\ (k - 1) + 1 = k
          /\ k # k + 1
        BY <1>2
    <2>2. h[k] = IF h[k - 1] = c[k] THEN c[k + 1] ELSE IF h[k - 1] = c[k + 1] THEN c[k] ELSE h[k - 1]
        BY <1>3 DEF ExchangedAt
    <2>3. y = c[1] => h[k] = c[k + 1]
        BY <1>5, <2>1, <2>2
    <2>4. ASSUME NEW j \in 2..n + 1, y = c[j]
          PROVE  h[k] = IF k < j - 1 THEN y ELSE c[j - 1]
        <3>1. j \in 1..n + 1 /\ j - 1 \in 1..n + 1 /\ j \in Int /\ k \in Int
            BY <1>2
        <3>2. h[k - 1] = IF k - 1 < j - 1 THEN y ELSE c[j - 1]
            BY <1>5, <2>4
        <3>3. CASE k < j - 1
            <4>1. h[k - 1] = c[j] /\ j # k /\ j # k + 1
                BY <2>4, <3>1, <3>2, <3>3
            <4>2. c[j] # c[k] /\ c[j] # c[k + 1]
                BY <1>2, <2>1, <3>1, <4>1
            <4> QED
                BY <2>2, <2>4, <3>3, <4>1, <4>2
        <3>4. CASE k = j - 1
            <4>1. h[k - 1] = c[k + 1] /\ ~(k < j - 1) /\ j - 1 = k
                BY <2>4, <3>1, <3>2, <3>4
            <4>2. c[k + 1] # c[k]
                BY <1>2, <2>1
            <4> QED
                BY <2>2, <4>1, <4>2
        <3>5. CASE k > j - 1
            <4>1. h[k - 1] = c[j - 1] /\ j - 1 # k /\ j - 1 # k + 1 /\ ~(k < j - 1)
                BY <3>1, <3>2, <3>5
            <4>2. c[j - 1] # c[k] /\ c[j - 1] # c[k + 1]
                BY <1>2, <2>1, <3>1, <4>1
            <4> QED
                BY <2>2, <4>1, <4>2
        <3> QED
            BY <3>1, <3>3, <3>4, <3>5
    <2>5. (\A i \in 1..n + 1 : y # c[i]) => h[k] = y
        BY <1>5, <2>1, <2>2
    <2> QED
        BY <2>3, <2>4, <2>5
<1> HIDE DEF A
<1>6. \A k \in 0..n : A(k)
    <2> SUFFICES ASSUME T # {} PROVE FALSE
        OBVIOUS
    <2>0. T \subseteq Nat
        OBVIOUS
    <2>1. PICK k \in T : \A j \in T : k <= j
        BY <2>0, Least, Zenon
    <2>a. k \in 0..n /\ ~A(k)
        OBVIOUS
    <2>b. k # 0
        BY <1>4, <2>a
    <2>2. k \in 1..n /\ ~A(k) /\ k - 1 \in 0..n /\ ~ k <= k - 1
        BY <1>2, <2>a, <2>b
    <2>3. A(k - 1)
        BY <2>1, <2>2
    <2> QED
        BY <1>5, <2>2, <2>3
<1>7. n \in 0..n /\ A(n)
    BY <1>2, <1>6
<1>8. Along(c, y) \in Assignments
    BY <1>1, <1>3, <1>7
<1>9. ASSUME NEW i \in 1..Len(c), y = c[i]
      PROVE  Along(c, y) = BeforeIn(c, i)
    <2>1. CASE i = 1
        BY <1>1, <1>2, <1>7, <1>9, <2>1 DEF A, BeforeIn
    <2>2. CASE i # 1
        <3>1. i \in 2..n + 1 /\ ~(n < i - 1)
            BY <1>2, <2>2
        <3> QED
            BY <1>1, <1>7, <1>9, <2>2, <3>1 DEF A, BeforeIn
    <2> QED
        BY <2>1, <2>2
<1>10. (\A i \in 1..Len(c) : y # c[i]) => Along(c, y) = y
    BY <1>1, <1>2, <1>7 DEF A
<1> QED
    BY <1>8, <1>9, <1>10

(* Cycles that are left have no row in common.                               *)
CycleLists ==
    {cs \in Seq(Seq(Assignments)) :
        /\ \A j \in 1..Len(cs) : cs[j] # <<>>
        /\ \A j, k \in 1..Len(cs) : \A i \in 1..Len(cs[j]), l \in 1..Len(cs[k]) :
                cs[j][i] = cs[k][l] => j = k /\ i = l}

Goes(cs, y, z) ==
    \/ \E j \in 1..Len(cs) : \E i \in 1..Len(cs[j]) : y = cs[j][i] /\ z = BeforeIn(cs[j], i)
    \/ (\A j \in 1..Len(cs) : \A i \in 1..Len(cs[j]) : y # cs[j][i]) /\ z = y

LEMMA ListFacts ==
    ASSUME NEW cs \in CycleLists
    PROVE  /\ cs \in Seq(Seq(Assignments)) /\ Len(cs) \in Nat
           /\ \A j \in 1..Len(cs) :
                /\ cs[j] \in Seq(Assignments) /\ cs[j] # <<>>
                /\ Len(cs[j]) \in Nat /\ Len(cs[j]) >= 1
                /\ \A i, l \in 1..Len(cs[j]) : cs[j][i] = cs[j][l] => i = l
           /\ \A j, k \in 1..Len(cs) : \A i \in 1..Len(cs[j]), l \in 1..Len(cs[k]) :
                cs[j][i] = cs[k][l] => j = k /\ i = l
<1>1. /\ cs \in Seq(Seq(Assignments)) /\ \A j \in 1..Len(cs) : cs[j] # <<>>
      /\ \A j, k \in 1..Len(cs) : \A i \in 1..Len(cs[j]), l \in 1..Len(cs[k]) :
                cs[j][i] = cs[k][l] => j = k /\ i = l
    BY DEF CycleLists
<1>2. \A j \in 1..Len(cs) : cs[j] \in Seq(Assignments) /\ cs[j] # <<>>
    BY <1>1
<1>3. \A c \in Seq(Assignments) : c # <<>> => Len(c) \in Nat /\ Len(c) >= 1
    OBVIOUS
<1>4. Len(cs) \in Nat
    BY <1>1
<1> QED
    BY <1>1, <1>2, <1>3, <1>4


RestWalk(h, cs, x) ==
    /\ h \in [0..Len(cs) -> Assignments] /\ h[0] = x
    /\ \A k \in 1..Len(cs) : h[k] = Along(cs[k], h[k - 1])

LEMMA RestFolds ==
    ASSUME NEW cs \in CycleLists, work.cycles = cs, NEW x \in Assignments
    PROVE  \E h : RestWalk(h, cs, x) /\ RestOfCycles(x) = h[Len(cs)]
<1> DEFINE n == Len(cs)
           V == Assignments
           F == [e \in (1..n) \X V |-> Along(cs[e[1]], e[2])]
           Is(it) == it = [s \in SUBSET (DOMAIN cs) |->
                            IF s = {} THEN x
                            ELSE Along(cs[SeqExt!Max(s)], it[s \ {SeqExt!Max(s)}])]
           r == CHOOSE r : Is(r)
<1>1. n \in Nat /\ DOMAIN cs = 1..n
    BY ListFacts
<1>2. RestOfCycles(x) = r[DOMAIN cs]
    BY work.cycles = cs, Zenon DEF RestOfCycles, SeqExt!FoldLeft, SeqExt!MapThenFoldSet
<1>3. \A i \in 1..n, v \in V : Along(cs[i], v) \in V
    BY ListFacts, AlongIs
<1>4. x \in V
    OBVIOUS
<1> HIDE DEF n, V
<1>5. F \in [(1..n) \X V -> V]
    BY <1>3
<1>6. PICK it \in [SUBSET (1..n) -> V] : IsFold(it, F, x, n)
    <2> HIDE DEF F
    <2> QED
        BY <1>1, <1>4, <1>5, FoldExists
<1>7. Is(it)
    <2>1. ASSUME NEW s \in SUBSET (1..n), s # {}
          PROVE  F[<<SeqExt!Max(s), it[s \ {SeqExt!Max(s)}]>>]
                 = Along(cs[SeqExt!Max(s)], it[s \ {SeqExt!Max(s)}])
        <3>1. SeqExt!Max(s) \in 1..n /\ it[s \ {SeqExt!Max(s)}] \in V
            BY <1>1, <2>1, MaxOf
        <3> QED
            BY <3>1
    <2> HIDE DEF F
    <2> QED
        BY <1>1, <1>6, <2>1 DEF IsFold
<1>8. Is(r)
    <2> HIDE DEF Is
    <2> QED
        BY <1>7, Zenon
<1> HIDE DEF r
<1>9. Unfolds(r, F, x, n, V)
    <2>1. r[{}] = x
        BY <1>8
    <2>2. ASSUME NEW s \in SUBSET (1..n), s # {}, r[s \ {SeqExt!Max(s)}] \in V
          PROVE  r[s] = F[<<SeqExt!Max(s), r[s \ {SeqExt!Max(s)}]>>]
        <3>1. SeqExt!Max(s) \in 1..n
            BY <1>1, <2>2, MaxOf
        <3>2. r[s] = Along(cs[SeqExt!Max(s)], r[s \ {SeqExt!Max(s)}])
            BY <1>1, <1>8, <2>2, Zenon
        <3> QED
            BY <2>2, <3>1, <3>2
    <2> HIDE DEF F
    <2> QED
        BY <2>1, <2>2 DEF Unfolds
<1>10. PICK h : Walk(h, F, x, n, V) /\ r[1..n] = h[n]
    <2> HIDE DEF F
    <2>1. WalksTo(r[1..n], F, x, n, V)
        BY <1>1, <1>4, <1>5, <1>9, WalkOfUnfolds, Zenon
    <2> QED
        BY <2>1 DEF WalksTo
<1>11. \A k \in 1..n : h[k] = Along(cs[k], h[k - 1])
    <2> TAKE k \in 1..n
    <2>1. k - 1 \in 0..n /\ h[k - 1] \in V
        BY <1>1, <1>10 DEF Walk
    <2>2. F[<<k, h[k - 1]>>] = Along(cs[k], h[k - 1])
        BY <2>1
    <2> HIDE DEF F
    <2> QED
        BY <1>10, <2>2 DEF Walk
<1> HIDE DEF F
<1>12. RestWalk(h, cs, x)
    BY <1>10, <1>11 DEF Walk, RestWalk, n, V
<1> QED
    BY <1>1, <1>2, <1>10, <1>12 DEF n

LEMMA RestIs ==
    ASSUME NEW cs \in CycleLists, work.cycles = cs, NEW y \in Assignments, NEW z, Goes(cs, y, z)
    PROVE  RestOfCycles(y) = z
<1> DEFINE n == Len(cs)
<1>1. PICK h : RestWalk(h, cs, y) /\ RestOfCycles(y) = h[n]
    BY RestFolds
<1>2. n \in Nat /\ \A j \in 1..n : cs[j] \in Seq(Assignments) /\ cs[j] # <<>>
                        /\ \A i, l \in 1..Len(cs[j]) : cs[j][i] = cs[j][l] => i = l
    BY ListFacts
<1>3. /\ h \in [0..n -> Assignments] /\ h[0] = y
      /\ \A k \in 1..n : h[k] = Along(cs[k], h[k - 1])
    BY <1>1 DEF RestWalk
<1>4. ASSUME NEW k \in 1..n, NEW x \in Assignments, \A i \in 1..Len(cs[k]) : x # cs[k][i]
      PROVE  Along(cs[k], x) = x
    BY <1>2, <1>4, AlongIs, SMTT(40)
<1>5. CASE (\A j \in 1..n : \A i \in 1..Len(cs[j]) : y # cs[j][i]) /\ z = y
    <2> DEFINE T == {k \in 0..n : h[k] # y}
    <2>1. T = {}
        <3> SUFFICES ASSUME T # {} PROVE FALSE
            OBVIOUS
        <3>0. T \subseteq Nat
            OBVIOUS
        <3>1. PICK k \in T : \A j \in T : k <= j
            BY <3>0, Least, Zenon
        <3>2. k \in 1..n /\ h[k] # y /\ k - 1 \in 0..n /\ ~ k <= k - 1
            BY <1>3, <3>1
        <3>3. h[k - 1] = y
            BY <3>1, <3>2
        <3>4. Along(cs[k], y) = y
            BY <1>4, <1>5, <3>2
        <3> QED
            BY <1>3, <3>2, <3>3, <3>4
    <2>2. n \in 0..n
        BY <1>2
    <2> QED
        BY <1>1, <1>5, <2>1, <2>2
<1>6. ASSUME NEW j \in 1..n, NEW i \in 1..Len(cs[j]), y = cs[j][i], z = BeforeIn(cs[j], i)
      PROVE  h[n] = z
    <2>1. \E l \in 1..Len(cs[j]) : z = cs[j][l]
        <3>1. Len(cs[j]) \in Nat /\ Len(cs[j]) >= 1
            BY ListFacts
        <3>2. CASE i = 1
            BY <1>6, <3>1, <3>2 DEF BeforeIn
        <3>3. CASE i # 1
            <4>1. i - 1 \in 1..Len(cs[j])
                BY <3>1, <3>3
            <4> QED
                BY <1>6, <3>3, <4>1 DEF BeforeIn
        <3> QED
            BY <3>2, <3>3
    <2>2. PICK l \in 1..Len(cs[j]) : z = cs[j][l]
        BY <2>1
    <2>3. z \in Assignments
        BY <1>2, <2>2
    <2>4. ASSUME NEW k \in 1..n, k # j
          PROVE  Along(cs[k], y) = y /\ Along(cs[k], z) = z
        <3>1. \A m \in 1..Len(cs[k]) : y # cs[k][m] /\ z # cs[k][m]
            BY <1>6, <2>2, <2>4, ListFacts
        <3> QED
            BY <1>4, <2>3, <3>1
    <2>5. Along(cs[j], y) = z
        BY <1>2, <1>6, AlongIs, SMTT(40)
    <2> DEFINE T == {k \in 0..n : h[k] # IF k < j THEN y ELSE z}
    <2>6. T = {}
        <3> SUFFICES ASSUME T # {} PROVE FALSE
            OBVIOUS
        <3>0. T \subseteq Nat
            OBVIOUS
        <3>1. PICK k \in T : \A m \in T : k <= m
            BY <3>0, Least, Zenon
        <3>2. k \in 0..n /\ h[k] # IF k < j THEN y ELSE z
            BY <3>1
        <3>3. k # 0
            BY <1>3, <3>2
        <3>4. k \in 1..n /\ k - 1 \in 0..n /\ ~ k <= k - 1
            BY <1>2, <3>2, <3>3
        <3>5. h[k - 1] = IF k - 1 < j THEN y ELSE z
            BY <3>1, <3>4
        <3>6. h[k] = Along(cs[k], h[k - 1])
            BY <1>3, <3>4
        <3> HIDE DEF T
        <3>7. CASE k < j
            <4>1. h[k - 1] = y /\ k # j
                BY <3>4, <3>5, <3>7
            <4> QED
                BY <2>4, <3>2, <3>4, <3>6, <3>7, <4>1
        <3>8. CASE k = j
            <4>1. h[k - 1] = y
                BY <3>4, <3>5, <3>8
            <4> QED
                BY <2>5, <3>2, <3>6, <3>8, <4>1
        <3>9. CASE k > j
            <4>1. h[k - 1] = z /\ k # j /\ ~(k < j)
                BY <3>4, <3>5, <3>9
            <4> QED
                BY <2>4, <3>2, <3>4, <3>6, <4>1
        <3> QED
            BY <3>4, <3>7, <3>8, <3>9
    <2>7. n \in 0..n /\ ~(n < j)
        BY <1>2
    <2> QED
        BY <2>6, <2>7
<1> QED
    BY <1>1, <1>5, <1>6 DEF Goes
LEMMA AppendedGoes ==
    ASSUME NEW cs \in CycleLists, NEW f, NEW t, Orbit(f, t),
           \A j \in 1..Len(cs) : \A i \in 1..Len(cs[j]), l \in 1..Len(t) : cs[j][i] # t[l]
    PROVE  /\ Append(cs, t) \in CycleLists
           /\ \A y, z : Goes(cs, y, z) /\ (\A l \in 1..Len(t) : y # t[l]) => Goes(Append(cs, t), y, z)
           /\ \A l \in 1..Len(t) : Goes(Append(cs, t), t[l], f[t[l]])
<1> DEFINE n == Len(cs)
           ds == Append(cs, t)
<1>1. /\ cs \in Seq(Seq(Assignments)) /\ n \in Nat
      /\ \A j \in 1..n : cs[j] # <<>>
      /\ \A j, k \in 1..n : \A i \in 1..Len(cs[j]), l \in 1..Len(cs[k]) :
                cs[j][i] = cs[k][l] => j = k /\ i = l
    BY ListFacts
<1>2. /\ t \in Seq(Assignments) /\ t # <<>>
      /\ \A i, j \in 1..Len(t) : t[i] = t[j] => i = j
      /\ \A i \in 1..Len(t) : f[t[i]] = BeforeIn(t, i)
    BY DEF Orbit
<1>3. /\ ds \in Seq(Seq(Assignments)) /\ Len(ds) = n + 1 /\ ds[n + 1] = t
      /\ \A j \in 1..n : ds[j] = cs[j]
    BY <1>1, <1>2, AppendProperties
<1>4. \A j \in 1..n + 1 : j \in 1..n \/ j = n + 1
    BY <1>1
<1>5. n + 1 \in 1..n + 1 /\ \A j \in 1..n : j \in 1..n + 1
    BY <1>1
<1>6. \A j \in 1..n : \A i \in 1..Len(cs[j]), l \in 1..Len(t) : cs[j][i] # t[l]
    OBVIOUS
<1> HIDE DEF n, ds
<1>7. \A j \in 1..n + 1 : ds[j] # <<>>
    BY <1>1, <1>2, <1>3, <1>4
<1>8. ASSUME NEW j \in 1..n + 1, NEW k \in 1..n + 1,
             NEW i \in 1..Len(ds[j]), NEW l \in 1..Len(ds[k]), ds[j][i] = ds[k][l]
      PROVE  j = k /\ i = l
    <2>1. CASE j \in 1..n /\ k \in 1..n
        <3>1. ds[j] = cs[j] /\ ds[k] = cs[k]
            BY <1>3, <2>1
        <3> QED
            BY <1>1, <1>8, <2>1, <3>1
    <2>2. CASE j \in 1..n /\ k = n + 1
        <3>1. ds[j] = cs[j] /\ ds[k] = t
            BY <1>3, <2>2
        <3> QED
            BY <1>6, <1>8, <2>2, <3>1
    <2>3. CASE j = n + 1 /\ k \in 1..n
        <3>1. ds[j] = t /\ ds[k] = cs[k]
            BY <1>3, <2>3
        <3> QED
            BY <1>6, <1>8, <2>3, <3>1
    <2>4. CASE j = n + 1 /\ k = n + 1
        BY <1>2, <1>3, <1>8, <2>4
    <2> QED
        BY <1>4, <2>1, <2>2, <2>3, <2>4
<1>9. ds \in CycleLists
    BY <1>3, <1>7, <1>8 DEF CycleLists
<1>10. ASSUME NEW y, NEW z, Goes(cs, y, z), \A l \in 1..Len(t) : y # t[l]
       PROVE  Goes(ds, y, z)
    <2>1. CASE \E j \in 1..n : \E i \in 1..Len(cs[j]) : y = cs[j][i] /\ z = BeforeIn(cs[j], i)
        <3>1. PICK j \in 1..n : \E i \in 1..Len(cs[j]) : y = cs[j][i] /\ z = BeforeIn(cs[j], i)
            BY <2>1
        <3>2. ds[j] = cs[j] /\ j \in 1..Len(ds)
            BY <1>3, <1>5
        <3> QED
            BY <3>1, <3>2 DEF Goes
    <2>2. CASE (\A j \in 1..n : \A i \in 1..Len(cs[j]) : y # cs[j][i]) /\ z = y
        <3>1. \A j \in 1..n + 1 : \A i \in 1..Len(ds[j]) : y # ds[j][i]
            BY <1>3, <1>4, <1>10, <2>2
        <3> QED
            BY <1>3, <2>2, <3>1 DEF Goes
    <2> QED
        BY <1>10, <2>1, <2>2 DEF Goes, n
<1>11. ASSUME NEW l \in 1..Len(t)
       PROVE  Goes(ds, t[l], f[t[l]])
    BY <1>2, <1>3, <1>5 DEF Goes
<1> QED
    BY <1>9, <1>10, <1>11 DEF ds

(* A cycle of one row has nothing left to do.                                *)
LEMMA FinishedGoes ==
    ASSUME NEW cs \in CycleLists, cs # <<>>, Len(cs[1]) = 1
    PROVE  /\ Tail(cs) \in CycleLists
           /\ \A y, z : Goes(cs, y, z) => Goes(Tail(cs), y, z)
<1> DEFINE n == Len(cs)
           ds == Tail(cs)
<1>1. /\ cs \in Seq(Seq(Assignments)) /\ n \in Nat
      /\ \A j \in 1..n : cs[j] # <<>>
      /\ \A j, k \in 1..n : \A i \in 1..Len(cs[j]), l \in 1..Len(cs[k]) :
                cs[j][i] = cs[k][l] => j = k /\ i = l
    BY ListFacts
<1>2. n >= 1
    BY <1>1
<1>3. ds \in Seq(Seq(Assignments)) /\ Len(ds) = n - 1 /\ \A j \in 1..n - 1 : ds[j] = cs[j + 1]
    BY <1>1, <1>2, HeadTailProperties
<1>4. \A j \in 1..n - 1 : j + 1 \in 1..n
    BY <1>1
<1>5. \A j \in 1..n : j = 1 \/ (j - 1 \in 1..n - 1 /\ (j - 1) + 1 = j)
    BY <1>1
<1> HIDE DEF n, ds
<1>6. ds \in CycleLists
    <2>1. \A j \in 1..n - 1 : ds[j] # <<>>
        BY <1>1, <1>3, <1>4
    <2>2. ASSUME NEW j \in 1..n - 1, NEW k \in 1..n - 1,
                 NEW i \in 1..Len(ds[j]), NEW l \in 1..Len(ds[k]), ds[j][i] = ds[k][l]
          PROVE  j = k /\ i = l
        <3>1. ds[j] = cs[j + 1] /\ ds[k] = cs[k + 1] /\ j + 1 \in 1..n /\ k + 1 \in 1..n
            BY <1>3, <1>4
        <3>2. j + 1 = k + 1 /\ i = l
            BY <1>1, <2>2, <3>1, SMTT(40)
        <3> QED
            BY <3>2
    <2> QED
        BY <1>3, <2>1, <2>2 DEF CycleLists
<1>7. ASSUME NEW y, NEW z, Goes(cs, y, z)
      PROVE  Goes(ds, y, z)
    <2>1. CASE \E j \in 1..n : \E i \in 1..Len(cs[j]) : y = cs[j][i] /\ z = BeforeIn(cs[j], i)
        <3>1. PICK j \in 1..n : \E i \in 1..Len(cs[j]) : y = cs[j][i] /\ z = BeforeIn(cs[j], i)
            BY <2>1
        <3>2. PICK i \in 1..Len(cs[j]) : y = cs[j][i] /\ z = BeforeIn(cs[j], i)
            BY <3>1
        <3>3. CASE j = 1
            <4>1. i = 1 /\ z = y
                BY <3>2, <3>3 DEF BeforeIn
            <4>2. \A k \in 1..n - 1 : \A l \in 1..Len(ds[k]) : y # ds[k][l]
                <5> SUFFICES ASSUME NEW k \in 1..n - 1, NEW l \in 1..Len(ds[k]), y = ds[k][l] PROVE FALSE
                    OBVIOUS
                <5>1. ds[k] = cs[k + 1] /\ k + 1 \in 1..n /\ k + 1 # 1
                    BY <1>1, <1>3, <1>4
                <5>2. cs[j][i] = cs[k + 1][l]
                    BY <3>2, <5>1
                <5>3. j = k + 1
                    BY <1>1, <5>1, <5>2
                <5> QED
                    BY <3>3, <5>1, <5>3
            <4> QED
                BY <1>3, <4>1, <4>2 DEF Goes
        <3>4. CASE j # 1
            <4>1. j - 1 \in 1..n - 1 /\ ds[j - 1] = cs[j]
                BY <1>3, <1>5, <3>4
            <4>2. j - 1 \in 1..Len(ds) /\ i \in 1..Len(ds[j - 1])
                BY <1>3, <4>1
            <4> QED
                BY <3>2, <4>1, <4>2 DEF Goes
        <3> QED
            BY <3>3, <3>4
    <2>2. CASE (\A j \in 1..n : \A i \in 1..Len(cs[j]) : y # cs[j][i]) /\ z = y
        <3>1. \A j \in 1..n - 1 : \A i \in 1..Len(ds[j]) : y # ds[j][i]
            BY <1>3, <1>4, <2>2
        <3> QED
            BY <1>3, <2>2, <3>1 DEF Goes
    <2> QED
        BY <1>7, <2>1, <2>2 DEF Goes, n
<1> QED
    BY <1>6, <1>7 DEF ds

(* After its first transposition a cycle does the rest to the rows that it     *)
(* gives.                                                                   *)
LEMMA ShortenedGoes ==
    ASSUME NEW cs \in CycleLists, cs # <<>>, Len(cs[1]) # 1
    PROVE  LET c == cs[1] ds == <<Tail(c)>> \o Tail(cs) IN
           /\ ds \in CycleLists
           /\ c[1] \in Assignments /\ c[2] \in Assignments /\ c[1] # c[2]
           /\ \A y, z : Goes(cs, y, z) => Goes(ds, SwappedRow(y, c[1], c[2]), z)
<1> DEFINE n == Len(cs)
           c == cs[1]
           d == Tail(c)
           ds == <<Tail(c)>> \o Tail(cs)
           m == Len(c)
<1>1. /\ cs \in Seq(Seq(Assignments)) /\ n \in Nat
      /\ \A j \in 1..n : cs[j] # <<>>
      /\ \A j, k \in 1..n : \A i \in 1..Len(cs[j]), l \in 1..Len(cs[k]) :
                cs[j][i] = cs[k][l] => j = k /\ i = l
    BY ListFacts
<1>2. n >= 1 /\ 1 \in 1..n
    BY <1>1
<1>3. c \in Seq(Assignments) /\ c # <<>> /\ m \in Nat /\ m >= 2
    <2>1. c \in Seq(Assignments) /\ c # <<>> /\ m \in Nat /\ m >= 1
        BY <1>2, ListFacts
    <2>2. m # 1
        OBVIOUS
    <2> HIDE DEF m, c
    <2> QED
        BY <2>1, <2>2
<1>4. /\ c[1] \in Assignments /\ c[2] \in Assignments
      /\ 1 \in 1..m /\ 2 \in 1..m
    BY <1>3
<1>5. c[1] # c[2]
    BY <1>1, <1>2, <1>4
<1>6. d \in Seq(Assignments) /\ Len(d) = m - 1 /\ \A i \in 1..m - 1 : d[i] = c[i + 1]
    BY <1>3, HeadTailProperties
<1>7. d # <<>>
    <2>1. Len(d) >= 1
        BY <1>3, <1>6
    <2> HIDE DEF d
    <2> QED
        BY <1>6, <2>1
<1>8. /\ ds \in Seq(Seq(Assignments)) /\ Len(ds) = n /\ ds[1] = d
      /\ \A j \in 2..n : ds[j] = cs[j]
    <2> DEFINE u == <<d>>
               v == Tail(cs)
    <2>1. v \in Seq(Seq(Assignments)) /\ Len(v) = n - 1 /\ \A j \in 1..n - 1 : v[j] = cs[j + 1]
        BY <1>1, <1>2, HeadTailProperties
    <2>2. u \in Seq(Seq(Assignments)) /\ Len(u) = 1 /\ u[1] = d
        <3> HIDE DEF d
        <3> QED
            BY <1>6
    <2>3. ds = u \o v
        OBVIOUS
    <2> HIDE DEF u, v, ds, n, d
    <2>4. /\ ds \in Seq(Seq(Assignments)) /\ Len(ds) = 1 + (n - 1)
          /\ \A i \in 1..1 + (n - 1) : ds[i] = IF i <= 1 THEN u[i] ELSE v[i - 1]
        <3>1. /\ u \o v \in Seq(Seq(Assignments)) /\ Len(u \o v) = Len(u) + Len(v)
              /\ \A i \in 1..Len(u) + Len(v) : (u \o v)[i] = IF i <= Len(u) THEN u[i] ELSE v[i - Len(u)]
            <4> DEFINE Q == Seq(Assignments)
            <4>1. u \in Seq(Q) /\ v \in Seq(Q)
                BY <2>1, <2>2
            <4> HIDE DEF Q
            <4>2. /\ u \o v \in Seq(Q) /\ Len(u \o v) = Len(u) + Len(v)
                  /\ \A i \in 1..Len(u) + Len(v) : (u \o v)[i] = IF i <= Len(u) THEN u[i] ELSE v[i - Len(u)]
                BY <4>1, ConcatProperties
            <4> QED
                BY <4>2 DEF Q
        <3>2. Len(u) = 1 /\ Len(v) = n - 1
            BY <2>1, <2>2
        <3> QED
            BY <2>3, <3>1, <3>2
    <2>5. Len(ds) = n /\ ds[1] = d
        BY <1>1, <1>2, <2>2, <2>4
    <2>6. ASSUME NEW j \in 2..n
          PROVE  ds[j] = cs[j]
        <3>1. j \in 1..1 + (n - 1) /\ ~(j <= 1) /\ j - 1 \in 1..n - 1 /\ (j - 1) + 1 = j
            BY <1>1
        <3> QED
            BY <2>1, <2>4, <3>1
    <2> QED
        BY <2>4, <2>5, <2>6
<1>9. \A j \in 1..n : j = 1 \/ j \in 2..n
    BY <1>1
<1> HIDE DEF n, ds, d, m
(* The rows of the shorter list are those of the longer one.                  *)
<1> DEFINE at(j, i) == IF j = 1 THEN i + 1 ELSE i
<1>10. ASSUME NEW j \in 1..n, NEW i \in 1..Len(ds[j])
       PROVE  at(j, i) \in 1..Len(cs[j]) /\ ds[j][i] = cs[j][at(j, i)]
    <2>1. CASE j = 1
        <3>1. i \in 1..m - 1 /\ i + 1 \in 1..m
            BY <1>3, <1>6, <1>8, <2>1
        <3> QED
            BY <1>6, <1>8, <2>1, <3>1 DEF m
    <2>2. CASE j \in 2..n
        <3>1. j # 1 /\ ds[j] = cs[j]
            BY <1>8, <2>2
        <3> QED
            BY <3>1
    <2> QED
        BY <1>9, <2>1, <2>2
<1>11. ds \in CycleLists
    <2>1. \A j \in 1..n : ds[j] # <<>>
        BY <1>1, <1>7, <1>8, <1>9
    <2>2. ASSUME NEW j \in 1..n, NEW k \in 1..n,
                 NEW i \in 1..Len(ds[j]), NEW l \in 1..Len(ds[k]), ds[j][i] = ds[k][l]
          PROVE  j = k /\ i = l
        <3>1. /\ at(j, i) \in 1..Len(cs[j]) /\ at(k, l) \in 1..Len(cs[k])
              /\ cs[j][at(j, i)] = cs[k][at(k, l)]
            BY <1>10, <2>2
        <3>2. j = k /\ at(j, i) = at(k, l)
            <4> HIDE DEF at
            <4> QED
                BY <1>1, <3>1
        <3> QED
            BY <3>2
    <2> QED
        BY <1>8, <2>1, <2>2 DEF CycleLists
<1>12. \A j \in 1..n : \A i \in 1..Len(ds[j]) : ds[j][i] # c[1]
    <2> SUFFICES ASSUME NEW j \in 1..n, NEW i \in 1..Len(ds[j]), ds[j][i] = c[1] PROVE FALSE
        OBVIOUS
    <2>1. at(j, i) \in 1..Len(cs[j]) /\ cs[j][at(j, i)] = cs[1][1] /\ 1 \in 1..Len(cs[1])
        BY <1>4, <1>10 DEF m
    <2>2. j = 1 /\ at(j, i) = 1
        <3> HIDE DEF at
        <3> QED
            BY <1>1, <1>2, <2>1
    <2> QED
        BY <2>2
<1>13. 1 \in 1..Len(ds[1]) /\ ds[1][1] = c[2] /\ BeforeIn(d, 1) = c[m]
    <2>1. Len(d) = m - 1 /\ 1 \in 1..m - 1 /\ m - 1 \in 1..m - 1 /\ (m - 1) + 1 = m /\ 1 + 1 = 2
        BY <1>3, <1>6
    <2>2. d[1] = c[2] /\ d[m - 1] = c[m]
        BY <1>6, <2>1
    <2> QED
        BY <1>8, <2>1, <2>2 DEF BeforeIn
<1>14. ASSUME NEW y, NEW z, Goes(cs, y, z)
       PROVE  Goes(ds, SwappedRow(y, c[1], c[2]), z)
    <2> DEFINE w == SwappedRow(y, c[1], c[2])
    <2>1. CASE \E j \in 1..n : \E i \in 1..Len(cs[j]) : y = cs[j][i] /\ z = BeforeIn(cs[j], i)
        <3>1. PICK j \in 1..n : \E i \in 1..Len(cs[j]) : y = cs[j][i] /\ z = BeforeIn(cs[j], i)
            BY <2>1
        <3>2. PICK i \in 1..Len(cs[j]) : y = cs[j][i] /\ z = BeforeIn(cs[j], i)
            BY <3>1
        <3>3. CASE j = 1 /\ i = 1
            <4>1. w = c[2] /\ z = c[m]
                BY <3>2, <3>3 DEF SwappedRow, BeforeIn, m
            <4>2. w = ds[1][1] /\ z = BeforeIn(ds[1], 1)
                BY <1>8, <1>13, <4>1
            <4>3. 1 \in 1..Len(ds)
                BY <1>2, <1>8
            <4> QED
                BY <1>13, <4>2, <4>3 DEF Goes
        <3>4. CASE j = 1 /\ i = 2
            <4>1. w = c[1] /\ z = c[1]
                BY <1>5, <3>2, <3>4 DEF SwappedRow, BeforeIn
            <4>2. \A k \in 1..Len(ds) : \A l \in 1..Len(ds[k]) : w # ds[k][l]
                BY <1>8, <1>12, <4>1
            <4> QED
                BY <4>1, <4>2 DEF Goes
        <3>5. CASE j = 1 /\ i # 1 /\ i # 2
            <4>1. i \in 1..m /\ i - 1 \in 1..m - 1 /\ i - 1 # 1 /\ (i - 1) - 1 \in 1..m - 1
                  /\ ((i - 1) - 1) + 1 = i - 1 /\ (i - 1) + 1 = i
                BY <1>3, <3>5 DEF m
            <4>2. y = c[i] /\ z = c[i - 1]
                BY <3>2, <3>5 DEF BeforeIn
            <4>3. c[i] # c[1] /\ c[i] # c[2]
                BY <1>1, <1>2, <1>4, <3>5, <4>1 DEF m
            <4>4. w = y
                BY <4>2, <4>3 DEF SwappedRow
            <4>5. ds[1][i - 1] = c[i] /\ BeforeIn(ds[1], i - 1) = c[i - 1] /\ i - 1 \in 1..Len(ds[1])
                BY <1>6, <1>8, <4>1 DEF BeforeIn
            <4>6. 1 \in 1..Len(ds)
                BY <1>2, <1>8
            <4> QED
                BY <4>2, <4>4, <4>5, <4>6 DEF Goes
        <3>6. CASE j # 1
            <4>1. j \in 2..n /\ ds[j] = cs[j] /\ j \in 1..Len(ds)
                BY <1>8, <1>9, <3>6
            <4>2. y # c[1] /\ y # c[2]
                BY <1>1, <1>2, <1>4, <3>2, <3>6 DEF m
            <4>3. w = y
                BY <4>2 DEF SwappedRow
            <4> QED
                BY <3>2, <4>1, <4>3 DEF Goes
        <3> QED
            BY <3>3, <3>4, <3>5, <3>6 DEF w
    <2>2. CASE (\A j \in 1..n : \A i \in 1..Len(cs[j]) : y # cs[j][i]) /\ z = y
        <3>1. y # c[1] /\ y # c[2]
            BY <1>2, <1>4, <2>2 DEF m
        <3>2. w = y
            BY <3>1 DEF SwappedRow
        <3>3. \A j \in 1..n : \A i \in 1..Len(ds[j]) : y # ds[j][i]
            <4> HIDE DEF at
            <4> QED
                BY <1>10, <2>2, SMTT(40)
        <3> QED
            BY <1>8, <2>2, <3>2, <3>3 DEF Goes, w
    <2> QED
        BY <1>14, <2>1, <2>2 DEF Goes, n
<1> QED
    BY <1>4, <1>5, <1>11, <1>14 DEF ds
(* The invariant: cycles that are known have no row that is still to be taken *)
(* into one; the circuit so far and what the known cycles have left to do     *)
(* give each of their rows its image.                                       *)
TranspositionWorks ==
    [values_map : {work.values_map}, cycles : CycleLists, done : BOOLEAN]

TInv ==
    LET Open == DOMAIN work.values_map
        cs == work.cycles
    IN  /\ algorithm = "transposition"
        /\ spec \in Permutations
        /\ work \in TranspositionWorks
        /\ circ \in Seq(GateSet)
        /\ Open \subseteq Assignments
        /\ \A x \in Open : spec[x] \in Open
        /\ Open # {} => circ = <<>> /\ ~work.done
        /\ work.done => cs = <<>>
        /\ \A j \in 1..Len(cs) : \A i \in 1..Len(cs[j]) : cs[j][i] \notin Open
        /\ \A x \in Assignments \ Open : Goes(cs, SimulateCircuit(circ, x), spec[x])

LEMMA TranspositionsStart == TranspositionInit => TInv
<1> SUFFICES ASSUME NEW f \in Permutations, StartTranspositions(f) PROVE TInv
    BY DEF TranspositionInit
<1>1. /\ algorithm = "transposition" /\ spec = f /\ circ = <<>>
      /\ work = [values_map |-> f, cycles |-> <<>>, done |-> FALSE]
    BY DEF StartTranspositions
<1>2. work.values_map = f /\ work.cycles = <<>> /\ work.done = FALSE
    BY <1>1
<1>3. DOMAIN f = Assignments /\ \A x \in Assignments : f[x] \in Assignments
    BY DEF Permutations
<1>4. <<>> \in CycleLists /\ Len(<<>>) = 0
    BY DEF CycleLists
<1>5. work \in TranspositionWorks
    BY <1>1, <1>2, <1>4 DEF TranspositionWorks
<1>6. <<>> \in Seq(GateSet)
    OBVIOUS
<1> QED
    BY <1>1, <1>2, <1>3, <1>4, <1>5, <1>6 DEF TInv

LEMMA TakeCycleKeeps == TInv /\ TakeCycle => TInv'
<1> SUFFICES ASSUME TInv, TakeCycle PROVE TInv'
    OBVIOUS
<1> DEFINE O == DOMAIN work.values_map
           cs == work.cycles
           start == First(O)
           c == Cycle(spec, start)
           t == Turned(c)
           n == Len(c)
           P == O \ SeqExt!ToSet(c)
           ds == Append(cs, t)
<1>1. /\ algorithm = "transposition" /\ spec \in Permutations
      /\ work \in TranspositionWorks /\ circ \in Seq(GateSet) /\ O \subseteq Assignments
      /\ \A x \in O : spec[x] \in O
      /\ O # {} => circ = <<>> /\ ~work.done
      /\ \A j \in 1..Len(cs) : \A i \in 1..Len(cs[j]) : cs[j][i] \notin O
      /\ \A x \in Assignments \ O : Goes(cs, SimulateCircuit(circ, x), spec[x])
    BY DEF TInv
<1>2. O # {} /\ algorithm' = algorithm /\ spec' = spec /\ circ' = circ
    BY DEF TakeCycle
<1>3. work' = [values_map |-> Restrict(work.values_map, P), cycles |-> ds, done |-> FALSE]
    BY DEF TakeCycle
<1>4. cs \in CycleLists
    BY <1>1 DEF TranspositionWorks
<1>5. spec \in [Assignments -> Assignments] /\ \A x, y \in Assignments : spec[x] = spec[y] => x = y
    BY <1>1 DEF Permutations
<1> HIDE DEF O, cs
<1>6. start \in O /\ start \in Assignments
    BY <1>1, <1>2, FirstIs
<1> HIDE DEF start
<1>7. c \in Chains(spec, start) /\ spec[c[n]] = start
    BY <1>1, <1>6, CycleIs
<1> HIDE DEF c
<1>8. /\ c \in Seq(Assignments) /\ c # <<>> /\ c[1] = start
      /\ \A i \in 1..n - 1 : c[i + 1] = spec[c[i]]
    BY <1>7 DEF Chains
<1>9. n \in Nat /\ n >= 1 /\ DOMAIN c = 1..n /\ \A i \in 1..n : c[i] \in Assignments
    BY <1>8
<1>10. /\ Orbit(spec, t) /\ Len(t) = n
       /\ \A i \in 1..n : \E j \in 1..n : t[j] = c[i]
       /\ \A j \in 1..n : \E i \in 1..n : t[j] = c[i]
    <2>1. spec[c[Len(c)]] = start
        BY <1>7
    <2>2. c \in Chains(spec, start)
        BY <1>7
    <2>3. TurnsAround(spec, c, Turned(c))
        BY <2>1, <2>2, TurnedIs, Zenon
    <2> QED
        BY <2>3, Zenon DEF TurnsAround
<1> HIDE DEF t, n
<1>11. \A i \in 1..n : c[i] \in O
    <2> DEFINE T == {i \in 1..n : c[i] \notin O}
    <2> SUFFICES ASSUME T # {} PROVE FALSE
        OBVIOUS
    <2>0. T \subseteq Nat
        OBVIOUS
    <2>1. PICK i \in T : \A j \in T : i <= j
        BY <2>0, Least, Zenon
    <2>2. i \in 1..n /\ c[i] \notin O /\ i # 1
        BY <1>6, <1>8
    <2>3. i - 1 \in 1..n - 1 /\ i - 1 \in 1..n /\ (i - 1) + 1 = i /\ ~ i <= i - 1
        BY <1>9, <2>2
    <2>4. c[i - 1] \in O
        BY <2>1, <2>3
    <2>5. c[i] = spec[c[i - 1]]
        BY <1>8, <2>3
    <2> QED
        BY <1>1, <2>2, <2>4, <2>5
<1>12. \A x : x \in SeqExt!ToSet(c) <=> \E i \in 1..n : x = c[i]
    BY <1>9 DEF SeqExt!ToSet
<1>13. P \subseteq O /\ \A i \in 1..n : c[i] \notin P
    BY <1>12
<1>14. \A x \in O : x \in P \/ \E i \in 1..n : x = c[i]
    BY <1>12
<1> HIDE DEF P
<1>15. \A x \in P : spec[x] \in P
    <2> SUFFICES ASSUME NEW x \in P, spec[x] \notin P PROVE FALSE
        OBVIOUS
    <2>1. x \in O /\ x \in Assignments /\ spec[x] \in O
        BY <1>1, <1>13
    <2>2. PICK i \in 1..n : spec[x] = c[i]
        BY <1>14, <2>1
    <2>3. n \in 1..n
        BY <1>9
    <2>4. CASE i = 1
        <3>1. spec[x] = spec[c[n]] /\ c[n] \in Assignments
            BY <1>7, <1>8, <1>9, <2>2, <2>3, <2>4
        <3>2. x = c[n]
            BY <1>5, <2>1, <3>1
        <3> QED
            BY <1>13, <2>3, <3>2
    <2>5. CASE i # 1
        <3>1. i - 1 \in 1..n - 1 /\ i - 1 \in 1..n /\ (i - 1) + 1 = i
            BY <1>9, <2>5
        <3>2. spec[x] = spec[c[i - 1]] /\ c[i - 1] \in Assignments
            BY <1>8, <1>9, <2>2, <3>1
        <3>3. x = c[i - 1]
            BY <1>5, <2>1, <3>2
        <3> QED
            BY <1>13, <3>1, <3>3
    <2> QED
        BY <2>4, <2>5
<1>16. \A l \in 1..Len(t) : t[l] \in O /\ t[l] \notin P
    BY <1>10, <1>11, <1>13
<1>17. /\ ds \in CycleLists
       /\ \A y, z : Goes(cs, y, z) /\ (\A l \in 1..Len(t) : y # t[l]) => Goes(ds, y, z)
       /\ \A l \in 1..Len(t) : Goes(ds, t[l], spec[t[l]])
    <2>1. \A j \in 1..Len(cs) : \A i \in 1..Len(cs[j]), l \in 1..Len(t) : cs[j][i] # t[l]
        BY <1>1, <1>16
    <2> QED
        BY <1>4, <1>10, <2>1, AppendedGoes
<1>18. /\ Len(ds) = Len(cs) + 1 /\ ds[Len(cs) + 1] = t /\ Len(cs) \in Nat
       /\ \A j \in 1..Len(cs) : ds[j] = cs[j]
    <2> DEFINE Q == Seq(Assignments)
    <2>1. cs \in Seq(Q) /\ t \in Q
        BY <1>4, <1>10 DEF CycleLists, Orbit
    <2> HIDE DEF Q
    <2> QED
        BY <2>1, AppendProperties
<1> HIDE DEF ds
<1>19. \A j \in 1..Len(ds) : \A i \in 1..Len(ds[j]) : ds[j][i] \notin P
    <2> SUFFICES ASSUME NEW j \in 1..Len(ds), NEW i \in 1..Len(ds[j]) PROVE ds[j][i] \notin P
        OBVIOUS
    <2>1. CASE j = Len(cs) + 1
        BY <1>16, <1>18, <2>1
    <2>2. CASE j # Len(cs) + 1
        <3>1. j \in 1..Len(cs) /\ ds[j] = cs[j]
            BY <1>18, <2>2
        <3> QED
            BY <1>1, <1>13, <3>1
    <2> QED
        BY <2>1, <2>2
<1>20. ASSUME NEW x \in Assignments \ P
       PROVE  Goes(ds, SimulateCircuit(circ, x), spec[x])
    <2>1. SimulateCircuit(circ, x) = x
        BY <1>1, <1>2, SimulateNone
    <2>2. CASE x \in O
        <3>1. PICK i \in 1..n : x = c[i]
            BY <1>14, <2>2
        <3>2. PICK j \in 1..Len(t) : t[j] = x
            BY <1>10, <3>1
        <3> QED
            BY <1>17, <2>1, <3>2
    <2>3. CASE x \notin O
        <3>1. \A l \in 1..Len(t) : x # t[l]
            BY <1>16, <2>3
        <3>2. Goes(cs, x, spec[x])
            BY <1>1, <2>1, <2>3
        <3> QED
            BY <1>17, <2>1, <3>1, <3>2
    <2> QED
        BY <2>2, <2>3
<1>21. /\ work'.values_map = Restrict(work.values_map, P) /\ work'.cycles = ds /\ work'.done = FALSE
    BY <1>3
<1>22. DOMAIN work'.values_map = P
    BY <1>21 DEF Restrict
<1>23. work' \in TranspositionWorks'
    BY <1>3, <1>17, <1>21 DEF TranspositionWorks
<1>24. P \subseteq Assignments
    BY <1>1, <1>13
<1> QED
    BY <1>1, <1>2, <1>15, <1>19, <1>20, <1>21, <1>22, <1>23, <1>24 DEF TInv

LEMMA AppendTranspositionKeeps == TInv /\ AppendTransposition => TInv'
<1> SUFFICES ASSUME TInv, AppendTransposition PROVE TInv'
    OBVIOUS
<1> DEFINE O == DOMAIN work.values_map
           cs == work.cycles
           c == cs[1]
<1>1. /\ algorithm = "transposition" /\ spec \in Permutations
      /\ work \in TranspositionWorks /\ circ \in Seq(GateSet)
      /\ work.done => cs = <<>>
      /\ \A x \in Assignments \ O : Goes(cs, SimulateCircuit(circ, x), spec[x])
    BY DEF TInv
<1>2. O = {} /\ cs # <<>> /\ algorithm' = algorithm /\ spec' = spec
    BY DEF AppendTransposition
<1>3. cs \in CycleLists /\ work.done = FALSE
    BY <1>1, <1>2 DEF TranspositionWorks
<1>4. Head(cs) = c
    BY <1>3 DEF CycleLists
<1>5. Len(c) = 1 => /\ work' = [work EXCEPT !.cycles = Tail(cs), !.done = (Tail(cs) = <<>>)]
                    /\ circ' = circ
    BY <1>4 DEF AppendTransposition
<1>6. Len(c) # 1 => /\ work' = [work EXCEPT !.cycles = <<Tail(c)>> \o Tail(cs)]
                    /\ circ' = circ \o TranspositionCircuit(c[1], c[2])
    BY <1>4 DEF AppendTransposition
<1> HIDE DEF cs
<1>7. \A x \in Assignments : SimulateCircuit(circ, x) \in Assignments
    BY <1>1, CircuitTyped
<1>8. CASE Len(c) = 1
    <2>1. /\ Tail(cs) \in CycleLists
          /\ \A y, z : Goes(cs, y, z) => Goes(Tail(cs), y, z)
        BY <1>2, <1>3, <1>8, FinishedGoes
    <2> DEFINE ds == Tail(cs)
    <2> HIDE DEF ds
    <2>2. /\ work'.values_map = work.values_map /\ work'.cycles = ds
          /\ work'.done = (ds = <<>>) /\ work' \in TranspositionWorks'
        BY <1>1, <1>5, <1>8, <2>1 DEF TranspositionWorks, ds
    <2>3. \A x \in Assignments : Goes(ds, SimulateCircuit(circ, x), spec[x])
        BY <1>1, <1>2, <2>1 DEF ds
    <2> QED
        BY <1>1, <1>2, <1>5, <1>8, <2>2, <2>3 DEF TInv
<1>9. CASE Len(c) # 1
    <2> DEFINE ds == <<Tail(c)>> \o Tail(cs)
               tc == TranspositionCircuit(c[1], c[2])
    <2>1. /\ ds \in CycleLists
          /\ c[1] \in Assignments /\ c[2] \in Assignments /\ c[1] # c[2]
          /\ \A y, z : Goes(cs, y, z) => Goes(ds, SwappedRow(y, c[1], c[2]), z)
        BY <1>2, <1>3, <1>9, ShortenedGoes
    <2> HIDE DEF ds
    <2>2. /\ tc \in Seq(GateSet)
          /\ \A x \in Assignments : SimulateCircuit(tc, x) = SwappedRow(x, c[1], c[2])
        BY <2>1, TranspositionExchanges
    <2> HIDE DEF tc
    <2>3. circ' = circ \o tc /\ work' = [work EXCEPT !.cycles = ds]
        BY <1>6, <1>9 DEF tc, ds
    <2>4. circ' \in Seq(GateSet)
        BY <1>1, <2>2, <2>3, ConcatProperties
    <2>5. /\ work'.values_map = work.values_map /\ work'.cycles = ds
          /\ work'.done = FALSE /\ work' \in TranspositionWorks'
        BY <1>1, <1>3, <2>1, <2>3 DEF TranspositionWorks
    <2>6. \A x \in Assignments : Goes(ds, SimulateCircuit(circ', x), spec[x])
        <3> TAKE x \in Assignments
        <3>1. SimulateCircuit(circ', x) = SimulateCircuit(tc, SimulateCircuit(circ, x))
            BY <1>1, <2>2, <2>3, SimulateBoth
        <3>2. SimulateCircuit(circ', x) = SwappedRow(SimulateCircuit(circ, x), c[1], c[2])
            BY <1>7, <2>2, <3>1
        <3>3. Goes(cs, SimulateCircuit(circ, x), spec[x])
            BY <1>1, <1>2
        <3> QED
            BY <2>1, <3>2, <3>3
    <2> QED
        BY <1>1, <1>2, <2>4, <2>5, <2>6 DEF TInv
<1> QED
    BY <1>8, <1>9

LEMMA TranspositionStep == TInv /\ [TakeCycle \/ AppendTransposition]_vars => TInv'
<1> SUFFICES ASSUME TInv, [TakeCycle \/ AppendTransposition]_vars PROVE TInv'
    OBVIOUS
<1>1. CASE TakeCycle
    BY <1>1, TakeCycleKeeps
<1>2. CASE AppendTransposition
    BY <1>2, AppendTranspositionKeeps
<1>3. CASE UNCHANGED vars
    BY <1>3 DEF vars, TInv, TranspositionWorks
<1> QED
    BY <1>1, <1>2, <1>3

LEMMA TranspositionInductive == TranspositionSpec => []TInv
<1> QED
    BY TranspositionsStart, TranspositionStep, PTL DEF TranspositionSpec

(* Of synthesis by transpositions, for any number of lines and any             *)
(* permutation: once all cycles are known, the circuit so far and the         *)
(* transpositions that are left make up the permutation.                     *)
THEOREM TranspositionsMakeUpFunction == TranspositionSpec => []TranspositionsAreLeft
<1>1. TInv => TranspositionsAreLeft
    <2> SUFFICES ASSUME TInv, DOMAIN work.values_map = {}, NEW x \in Assignments
                 PROVE  RestOfCycles(SimulateCircuit(circ, x)) = spec[x]
        BY DEF TranspositionsAreLeft
    <2> DEFINE cs == work.cycles
    <2>1. cs \in CycleLists /\ Goes(cs, SimulateCircuit(circ, x), spec[x]) /\ circ \in Seq(GateSet)
        BY DEF TInv, TranspositionWorks
    <2>2. SimulateCircuit(circ, x) \in Assignments
        BY <2>1, CircuitTyped
    <2>3. work.cycles = cs
        OBVIOUS
    <2> HIDE DEF cs
    <2> QED
        BY <2>1, <2>2, <2>3, RestIs
<1> QED
    BY <1>1, TranspositionInductive, PTL

(* KeepsContract of synthesis by transpositions: the circuit it returns       *)
(* computes the permutation it was given, and it returns once.               *)
THEOREM TranspositionsAreRight == TranspositionSpec => KeepsContract
<1>1. TranspositionInit => Contract!Init
    BY DEF TranspositionInit, StartTranspositions, Contract!Init, Returned
<1>2. TInv /\ Returned => Result = spec
    <2> SUFFICES ASSUME TInv, Returned PROVE Result = spec
        OBVIOUS
    <2>1. /\ algorithm = "transposition" /\ work.done /\ work.cycles = <<>>
          /\ DOMAIN work.values_map = {} /\ spec \in Permutations
          /\ \A x \in Assignments \ DOMAIN work.values_map :
                Goes(work.cycles, SimulateCircuit(circ, x), spec[x])
        BY DEF TInv, Returned
    <2>2. \A x \in Assignments : SimulateCircuit(circ, x) = spec[x]
        <3> TAKE x \in Assignments
        <3>1. Goes(<<>>, SimulateCircuit(circ, x), spec[x])
            BY <2>1
        <3>2. Len(<<>>) = 0
            OBVIOUS
        <3> QED
            BY <3>1, <3>2 DEF Goes
    <2>3. spec = [x \in Assignments |-> spec[x]]
        BY <2>1 DEF Permutations
    <2>4. FunctionOf(circ) = spec
        BY <2>2, <2>3 DEF FunctionOf
    <2>5. Result = FunctionOf(circ)
        BY <2>1 DEF Result
    <2> QED
        BY <2>4, <2>5
<1>3. TInv /\ TInv' /\ [TakeCycle \/ AppendTransposition]_vars
        => [Contract!Work \/ Contract!Return]_(Contract!vars)
    <2> SUFFICES ASSUME TInv, TInv', [TakeCycle \/ AppendTransposition]_vars
                 PROVE  Contract!Work \/ Contract!Return \/ UNCHANGED Contract!vars
        OBVIOUS
    <2>1. CASE UNCHANGED vars
        BY <2>1, StandsStill
    <2>2. CASE TakeCycle \/ AppendTransposition
        <3>1. spec' = spec
            BY <2>2, SMTT(40) DEF TakeCycle, AppendTransposition
        <3>2. ~work.done
            BY <2>2 DEF TakeCycle, AppendTransposition, TInv
        <3>3. ~Returned
            BY <3>2 DEF Returned
        <3>4. (TInv /\ Returned => Result = spec)'
            BY <1>2, PTL
        <3>5. Returned' => Result' = spec'
            BY <3>4
        <3>6. Returned' \in BOOLEAN
            BY DEF Returned, TInv, TranspositionWorks
        <3> QED
            BY <3>1, <3>3, <3>5, <3>6, ReturnsRight, SMTT(40)
    <2> QED
        BY <2>1, <2>2
<1> QED
    BY <1>1, <1>3, TranspositionInductive, PTL DEF TranspositionSpec, KeepsContract, Contract!Spec
===============================================================================
