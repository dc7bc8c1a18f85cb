--------------------------- MODULE OrderingProofs ---------------------------
(***************************************************************************)
(* Ascending lists every element once and in order, Only what it names.      *)
(***************************************************************************)
EXTENDS Ordering, FiniteSetTheorems, NaturalsInduction, WellFoundedInduction, TLAPS

\* A set of natural numbers has a least one.
LEMMA LeastNumber ==
  ASSUME NEW I \in SUBSET Nat, I # {}
  PROVE  \E k \in I : \A j \in I : k <= j
<1> DEFINE Less == {p \in Nat \X Nat : p[1] < p[2]}
<1>1. IsWellFoundedOn(Less, Nat)
  BY NatLessThanWellFounded DEF OpToRel
<1>2. \A j, k \in Nat : <<j, k>> \in Less <=> j < k
  OBVIOUS
<1> HIDE DEF Less
<1>3. PICK k \in I : \A j \in I : <<j, k>> \notin Less
  <2>1. I \subseteq Nat
    OBVIOUS
  <2>2. \E k \in I : \A j \in I : ~(<<j, k>> \in Less)
    BY <1>1, <2>1, WFMin
  <2> QED BY <2>2
<1>4. ASSUME NEW j \in I PROVE k <= j
  <2>1. j \in Nat /\ k \in Nat /\ ~(<<j, k>> \in Less)
    BY <1>3
  <2> QED BY <1>2, <2>1
<1> QED BY <1>4

\* A larger element has a larger rank.
LEMMA RankGrows ==
  ASSUME NEW S \in SUBSET Int, IsFiniteSet(S), NEW i \in S, NEW j \in S, i < j
  PROVE  Rank(S, i) < Rank(S, j)
<1> DEFINE I == {k \in S : k <= i}   J == {k \in S : k <= j}
<1>1. I \in SUBSET J /\ j \in J /\ j \notin I /\ J \in SUBSET S
  <2>1. j \in Int /\ i \in Int /\ ~(j <= i) /\ j <= j
    OBVIOUS
  <2>2. \A k \in S : k <= i => k <= j
    <3>1. \A k \in Int : k <= i => k <= j
      BY <2>1
    <3> QED BY <3>1
  <2> QED BY <2>1, <2>2
<1>2. IsFiniteSet(J) /\ IsFiniteSet(I)
  BY <1>1, FS_Subset
<1>3. Cardinality(I) <= Cardinality(J) /\ Cardinality(I) # Cardinality(J)
  <2> HIDE DEF I, J
  <2> QED BY <1>1, <1>2, FS_Subset
<1>4. Cardinality(I) \in Nat /\ Cardinality(J) \in Nat
  BY <1>2, FS_CardinalityType
<1> QED BY <1>3, <1>4 DEF Rank

LEMMA RankInRange ==
  ASSUME NEW S \in SUBSET Int, IsFiniteSet(S), NEW i \in S
  PROVE  Rank(S, i) \in 1..Cardinality(S)
<1> DEFINE I == {k \in S : k <= i}
<1>1. I \in SUBSET S /\ i \in I
  OBVIOUS
<1>2. IsFiniteSet(I) /\ Cardinality(I) <= Cardinality(S)
  BY <1>1, FS_Subset
<1>3. Cardinality(I) \in Nat /\ Cardinality(S) \in Nat /\ Cardinality(I) # 0
  BY <1>1, <1>2, FS_CardinalityType, FS_EmptySet
<1> QED BY <1>2, <1>3 DEF Rank

\* Every rank up to the number of elements is somebody's.
LEMMA RankIsOnto ==
  ASSUME NEW S \in SUBSET Int, IsFiniteSet(S), NEW k \in 1..Cardinality(S)
  PROVE  \E i \in S : Rank(S, i) = k
<1> DEFINE n == Cardinality(S)   f == [i \in S |-> Rank(S, i)]
<1>1. n \in Nat
  BY FS_CardinalityType
<1>2. IsFiniteSet(1..n) /\ Cardinality(1..n) = n
  BY <1>1, FS_Interval
<1>3. f \in [S -> 1..n]
  BY RankInRange
<1>4. ASSUME NEW i \in S, NEW j \in S, f[i] = f[j] PROVE i = j
  <2>1. i < j \/ j < i \/ i = j
    BY S \subseteq Int
  <2>2. Rank(S, i) \in Int /\ Rank(S, j) \in Int
    BY RankInRange, <1>1
  <2> QED BY <1>4, <2>1, <2>2, RankGrows
<1>5. f \in Injection(S, 1..n)
  BY <1>3, <1>4 DEF Injection, IsInjective
<1>6. f \in Surjection(S, 1..n)
  <2> HIDE DEF f, n
  <2>1. Cardinality(S) = Cardinality(1..n)
    BY <1>2 DEF n
  <2> QED BY <1>2, <1>5, <2>1, FS_Injection
<1> QED BY <1>6 DEF Surjection

\* Ascending is an enumeration of the set, and increases.
LEMMA AscendingFacts ==
  ASSUME NEW S \in SUBSET Int, IsFiniteSet(S)
  PROVE  /\ Ascending(S) \in Seq(S) /\ Len(Ascending(S)) = Cardinality(S)
         /\ \A x \in S : \E k \in 1..Cardinality(S) : Ascending(S)[k] = x
         /\ \A k, l \in 1..Cardinality(S) : k < l => Ascending(S)[k] < Ascending(S)[l]
<1> DEFINE n == Cardinality(S)
<1>1. n \in Nat
  BY FS_CardinalityType
<1>2. ASSUME NEW k \in 1..n PROVE Ascending(S)[k] \in S /\ Rank(S, Ascending(S)[k]) = k
  BY RankIsOnto DEF Ascending
<1>3. Ascending(S) \in [1..n -> S]
  BY <1>2 DEF Ascending
<1>4. Ascending(S) \in Seq(S) /\ Len(Ascending(S)) = n
  BY <1>1, <1>3
<1>5. ASSUME NEW x \in S PROVE Rank(S, x) \in 1..n /\ Ascending(S)[Rank(S, x)] = x
  <2>1. Rank(S, x) \in 1..n
    BY RankInRange
  <2> DEFINE y == Ascending(S)[Rank(S, x)]
  <2>2. y \in S /\ Rank(S, y) = Rank(S, x)
    BY <1>2, <2>1
  <2>3. ~(y < x) /\ ~(x < y)
    <3> HIDE DEF y
    <3> QED BY <2>1, <2>2, <1>1, RankGrows
  <2> HIDE DEF y
  <2>4. x = y
    BY <2>2, <2>3
  <2> QED BY <2>1, <2>4 DEF y
<1>6. ASSUME NEW k \in 1..n, NEW l \in 1..n, k < l PROVE Ascending(S)[k] < Ascending(S)[l]
  <2>1. Ascending(S)[k] \in S /\ Ascending(S)[l] \in S
        /\ Rank(S, Ascending(S)[k]) = k /\ Rank(S, Ascending(S)[l]) = l
    BY <1>2
  <2>2. k \in Int /\ l \in Int /\ ~(l < k) /\ k # l
    BY <1>6, <1>1
  <2>3. ~(Ascending(S)[l] < Ascending(S)[k]) /\ Ascending(S)[l] # Ascending(S)[k]
    BY <2>1, <2>2, RankGrows
  <2>4. Ascending(S)[k] \in Int /\ Ascending(S)[l] \in Int
    BY <2>1
  <2> QED BY <2>3, <2>4
<1> QED BY <1>4, <1>5, <1>6

\* What Only leaves of a list: what it names, in the order of the list.
LEMMA OnlyFacts ==
  ASSUME NEW T, NEW seq \in Seq(T), NEW S
  PROVE  /\ Only(seq, S) \in Seq(T)
         /\ Len(Only(seq, S)) = Cardinality(Positions(seq, S))
         /\ \E at \in [1..Len(Only(seq, S)) -> Positions(seq, S)] :
              /\ \A k, l \in 1..Len(Only(seq, S)) : k < l => at[k] < at[l]
              /\ \A i \in Positions(seq, S) : \E k \in 1..Len(Only(seq, S)) : at[k] = i
              /\ \A k \in 1..Len(Only(seq, S)) : Only(seq, S)[k] = seq[at[k]]
<1> DEFINE P == Positions(seq, S)
<1>1. P \in SUBSET (1..Len(seq)) /\ Len(seq) \in Nat
  BY DEF Positions
<1>2. IsFiniteSet(P) /\ Cardinality(P) \in Nat /\ P \in SUBSET Int
  <2>1. IsFiniteSet(1..Len(seq)) /\ (1..Len(seq)) \subseteq Int
    BY <1>1, FS_Interval
  <2> HIDE DEF P
  <2> QED BY <1>1, <2>1, FS_Subset, FS_CardinalityType
<1>3. /\ Ascending(P) \in [1..Cardinality(P) -> P]
      /\ \A x \in P : \E k \in 1..Cardinality(P) : Ascending(P)[k] = x
      /\ \A k, l \in 1..Cardinality(P) : k < l => Ascending(P)[k] < Ascending(P)[l]
  <2> HIDE DEF P
  <2> QED BY <1>2, AscendingFacts
<1>4. Only(seq, S) \in [1..Cardinality(P) -> T]
  <2>1. \A k \in 1..Cardinality(P) : seq[Ascending(P)[k]] \in T
    BY <1>1, <1>3
  <2> QED BY <2>1 DEF Only
<1>5. Only(seq, S) \in Seq(T) /\ Len(Only(seq, S)) = Cardinality(P)
  <2> HIDE DEF P
  <2> QED BY <1>2, <1>4
<1>6. \A k \in 1..Cardinality(P) : Only(seq, S)[k] = seq[Ascending(P)[k]]
  BY DEF Only
<1> HIDE DEF P
<1> QED BY <1>3, <1>5, <1>6 DEF P

=============================================================================
