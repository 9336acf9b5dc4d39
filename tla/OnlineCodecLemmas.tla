------------------------- MODULE OnlineCodecLemmas -------------------------
(***************************************************************************)
(* What the text form of the player map is made of, and that reading it     *)
(* gives back what was written, whatever older text is left behind it.      *)
(*                                                                         *)
(* Induction is over sets of natural numbers here: a set that holds 0 and,  *)
(* with each number, the next holds them all.                               *)
(***************************************************************************)
EXTENDS OnlineCodec, FiniteSetTheorems, SequenceTheorems, WellFoundedInduction,
        TLAPS

-----------------------------------------------------------------------------
(* The lemmas about the map are those of the registry, whose operators are  *)
(* the same.                                                                *)

Lemmas == INSTANCE OnlineRegistryProofs WITH online <- EmptyMap

\* An operator of OnlineMap is the same in the registry and here.
LEMMA SameOperators ==
    /\ Lemmas!ONLINE_STAT = ONLINE_STAT /\ Lemmas!ONLINE_STAT_ON = ONLINE_STAT_ON
    /\ Lemmas!NoFd = NoFd
    /\ \A m : Lemmas!IsOnlineMap(m) <=> IsOnlineMap(m)
    /\ \A m, fd, name : Lemmas!RegMap(m, fd, name) = RegMap(m, fd, name)
    /\ \A m, fd, name, enemy : Lemmas!VsMap(m, fd, name, enemy) = VsMap(m, fd, name, enemy)
    /\ \A m, fd, stat : Lemmas!StatMap(m, fd, stat) = StatMap(m, fd, stat)
    /\ \A m, name : Lemmas!NamedIn(m, name) = NamedIn(m, name)
<1>1. /\ Lemmas!ONLINE_STAT = ONLINE_STAT /\ Lemmas!ONLINE_STAT_ON = ONLINE_STAT_ON
      /\ Lemmas!NoFd = NoFd
    BY DEF Lemmas!ONLINE_STAT, ONLINE_STAT, Lemmas!ONLINE_STAT_NEW, ONLINE_STAT_NEW,
           Lemmas!ONLINE_STAT_ON, ONLINE_STAT_ON, Lemmas!ONLINE_STAT_OFF, ONLINE_STAT_OFF,
           Lemmas!NoFd, NoFd
<1>2. Lemmas!OnlineInfo = OnlineInfo
    BY <1>1 DEF Lemmas!OnlineInfo, OnlineInfo
<1>3. \A m : Lemmas!IsOnlineMap(m) <=> IsOnlineMap(m)
    BY <1>2 DEF Lemmas!IsOnlineMap, IsOnlineMap
<1>4. \A m, fd, name : Lemmas!RegMap(m, fd, name) = RegMap(m, fd, name)
    BY <1>1 DEF Lemmas!RegMap, RegMap
<1>5. \A m, fd, name, enemy : Lemmas!VsMap(m, fd, name, enemy) = VsMap(m, fd, name, enemy)
    BY DEF Lemmas!VsMap, VsMap, Lemmas!Challenged, Challenged
<1>6. \A m, fd, stat : Lemmas!StatMap(m, fd, stat) = StatMap(m, fd, stat)
    BY DEF Lemmas!StatMap, StatMap
<1>7. \A m, name : Lemmas!NamedIn(m, name) = NamedIn(m, name)
    BY DEF Lemmas!NamedIn, NamedIn
<1>8. QED
    BY <1>1, <1>3, <1>4, <1>5, <1>6, <1>7

-----------------------------------------------------------------------------
(* Numbers.                                                                 *)

\* A set of natural numbers has a least element: the interval up to it is
\* minimal among the intervals up to elements of the set.
LEMMA LeastNumber ==
    ASSUME NEW S \in SUBSET Nat, S # {}
    PROVE  \E m \in S : \A k \in S : m <= k
<1>1. PICK n \in S : TRUE
    OBVIOUS
<1> DEFINE T == {U \in SUBSET (0..n) : \E k \in S : U = 0..k}
<1>2. IsWellFoundedOn(StrictSubsetOrdering(0..n), SUBSET (0..n))
  <2>1. IsFiniteSet(0..n)
      BY <1>1, FS_Interval
  <2>2. QED
      BY <2>1, FS_StrictSubsetOrderingWellFounded, FS_FiniteSubsetsOfFinite
<1>3. T \subseteq SUBSET (0..n) /\ T # {}
    BY <1>1
<1>4. PICK U \in T : \A V \in T : <<V, U>> \notin StrictSubsetOrdering(0..n)
  <2> HIDE DEF T
  <2>1. QED
      BY <1>2, <1>3, WFMin
<1>5. PICK m \in S : U = 0..m
    BY <1>4
<1>6. ASSUME NEW k \in S, k < m
      PROVE  FALSE
  <2>1. 0..k \subseteq 0..m /\ m \in 0..m /\ m \notin 0..k
      BY <1>6
  <2>2. 0..k \in T
      BY <1>4, <1>5, <2>1
  <2>3. QED
      BY <1>4, <1>5, <2>1, <2>2 DEF StrictSubsetOrdering
<1>7. QED
    BY <1>6

\* Induction: the least number that is not in the set would have a predecessor.
LEMMA Induction ==
    ASSUME NEW S \in SUBSET Nat, 0 \in S, \A n \in S : n + 1 \in S
    PROVE  S = Nat
<1>1. SUFFICES ASSUME Nat \ S # {} PROVE FALSE
    OBVIOUS
<1>2. PICK m \in Nat \ S : \A k \in Nat \ S : m <= k
  <2>1. Nat \ S \in SUBSET Nat
      OBVIOUS
  <2>2. QED
      BY <1>1, <2>1, LeastNumber
<1>3. m - 1 \in S
    BY <1>2
<1>4. QED
    BY <1>2, <1>3

\* Induction up to a bound.
LEMMA InductionUpTo ==
    ASSUME NEW n \in Nat, NEW S \in SUBSET (0..n), 0 \in S,
           \A k \in 0..(n - 1) : k \in S => k + 1 \in S
    PROVE  S = 0..n
<1> DEFINE T == S \cup {k \in Nat : k > n}
<1>1. \A k \in S : k \in Nat /\ k <= n
    OBVIOUS
<1>2. T \in SUBSET Nat /\ 0 \in T
    BY <1>1
<1>3. ASSUME NEW k \in T PROVE k + 1 \in T
  <2>1. CASE k \in S /\ k < n
      BY <1>1, <2>1
  <2>2. CASE k >= n
      BY <1>1, <1>2, <2>2
  <2>3. QED
      BY <1>1, <1>2, <2>1, <2>2
<1>4. T = Nat
  <2> HIDE DEF T
  <2>1. QED
      BY <1>2, <1>3, Induction
<1>5. ASSUME NEW k \in 0..n PROVE k \in S
    BY <1>4
<1>6. QED
    BY <1>1, <1>5

\* Course-of-values induction up to a bound.
LEMMA StrongInductionUpTo ==
    ASSUME NEW n \in Nat, NEW S \in SUBSET (0..n),
           \A k \in 0..n : (0..(k - 1) \subseteq S) => k \in S
    PROVE  S = 0..n
<1>1. SUFFICES ASSUME (0..n) \ S # {} PROVE FALSE
    OBVIOUS
<1>2. PICK m \in (0..n) \ S : \A k \in (0..n) \ S : m <= k
  <2>1. (0..n) \ S \in SUBSET Nat
      OBVIOUS
  <2>2. QED
      BY <1>1, <2>1, LeastNumber
<1>3. 0..(m - 1) \subseteq S
    BY <1>2
<1>4. QED
    BY <1>2, <1>3

\* Min and Max of a non-empty set of natural numbers, with a bound for Max.
LEMMA MinIsLeast ==
    ASSUME NEW S \in SUBSET Nat, S # {}
    PROVE  Min(S) \in S /\ \A k \in S : Min(S) <= k
BY LeastNumber DEF Min

\* The greatest element, for sets with a bound.
LEMMA MaxIsGreatest ==
    ASSUME NEW n \in Nat, NEW S \in SUBSET (0..n), S # {}
    PROVE  Max(S) \in S /\ \A k \in S : k <= Max(S)
<1> DEFINE T == {n - k : k \in S}
<1>1. T \in SUBSET Nat /\ T # {}
  <2>1. \A k \in S : n - k \in Nat
      OBVIOUS
  <2>2. QED
      BY <2>1
<1>2. PICK m \in T : \A k \in T : m <= k
  <2> HIDE DEF T
  <2>1. QED
      BY <1>1, LeastNumber
<1>3. PICK x \in S : m = n - x
    BY <1>2
<1>4. \A k \in S : x >= k
    BY <1>2, <1>3
<1>5. QED
    BY <1>4 DEF Max

-----------------------------------------------------------------------------
(* Recursion.                                                               *)

\* F takes the values that the steps give, from x0 on.
Steps(F, n, x0, step) == F[0] = x0 /\ \A k \in 1..n : F[k] = step[k][F[k - 1]]

\* There is such a function.
LEMMA Recursion ==
    ASSUME NEW n \in Nat, NEW X, NEW x0 \in X, NEW step \in [1..n -> [X -> X]]
    PROVE  \E F \in [0..n -> X] : Steps(F, n, x0, step)
<1> DEFINE Good(G, m) == G[0] = x0 /\ \A k \in 1..m : G[k] = step[k][G[k - 1]]
           D == {m \in 0..n : \E G \in [0..m -> X] : Good(G, m)}
<1>1. 0 \in D
  <2>1. [k \in 0..0 |-> x0] \in [0..0 -> X] /\ Good([k \in 0..0 |-> x0], 0)
      OBVIOUS
  <2>2. 0 \in 0..n /\ \E G \in [0..0 -> X] : Good(G, 0)
    <3> HIDE DEF Good
    <3>1. QED
        BY <2>1
  <2>3. QED
    <3> HIDE DEF Good
    <3>1. QED
        BY <2>2
<1>2. ASSUME NEW m \in 0..(n - 1), m \in D
      PROVE  m + 1 \in D
  <2>1. PICK G \in [0..m -> X] : Good(G, m)
      BY <1>2
  <2> DEFINE x == step[m + 1][G[m]]
             H == [k \in 0..(m + 1) |-> IF k <= m THEN G[k] ELSE x]
  <2>2. x \in X
      BY <2>1
  <2>3. H \in [0..(m + 1) -> X]
    <3> HIDE DEF x
    <3>1. QED
        BY <2>1, <2>2
  <2>4. H[0] = x0
      BY <2>1
  <2>5. ASSUME NEW k \in 1..(m + 1)
        PROVE  H[k] = step[k][H[k - 1]]
    <3>1. CASE k <= m
        BY <2>1, <3>1
    <3>2. CASE k = m + 1
        BY <2>1, <3>2
    <3>3. QED
        BY <3>1, <3>2
  <2>6. Good(H, m + 1)
    <3> HIDE DEF H
    <3>1. QED
        BY <2>4, <2>5
  <2>7. QED
    <3> HIDE DEF H, Good
    <3>1. QED
        BY <2>3, <2>6
<1>3. D = 0..n
  <2> HIDE DEF D
  <2>1. D \in SUBSET (0..n)
      BY DEF D
  <2>2. QED
      BY <1>1, <1>2, <2>1, InductionUpTo
<1>4. QED
    BY <1>3, SMTT(30) DEF Steps

-----------------------------------------------------------------------------
(* Putting texts together.                                                  *)

\* FlattenSeq adds one sequence after the other.
Flattened(F, n, ss) ==
    /\ F[0] = <<>>
    /\ \A k \in 1..n : F[k] = F[k - 1] \o ss[k]
    /\ FlattenSeq(ss) = F[n]

\* The sums of the sequences of ss, one by one.
LEMMA FlattenSteps ==
    ASSUME NEW S, NEW n \in Nat, NEW ss \in [1..n -> Seq(S)]
    PROVE  \E F \in [0..n -> Seq(S)] : Flattened(F, n, ss)
<1>1. ss \in Seq(Seq(S)) /\ Len(ss) = n /\ \A k \in 1..n : ss[k] \in Seq(S)
    OBVIOUS
<1>2. PICK G \in [0..n -> Seq(S)] : G[0] = <<>> /\ \A k \in 1..n : G[k] = G[k - 1] \o ss[k]
  <2> DEFINE X == Seq(S)
             step == [k \in 1..n |-> [t \in X |-> t \o ss[k]]]
  <2>1. \A k \in 1..n : \A t \in X : t \o ss[k] \in X
      BY <1>1
  <2>2. step \in [1..n -> [X -> X]]
    <3> HIDE DEF X
    <3>1. QED
        BY <2>1
  <2>3. <<>> \in X
      OBVIOUS
  <2>4. PICK G \in [0..n -> X] : G[0] = <<>> /\ \A k \in 1..n : G[k] = step[k][G[k - 1]]
    <3>1. \E H \in [0..n -> X] : Steps(H, n, <<>>, step)
      <4> HIDE DEF step, X
      <4>1. QED
          BY <2>2, <2>3, Recursion
    <3>2. QED
      <4> HIDE DEF step, X
      <4>1. QED
          BY <3>1 DEF Steps
  <2>5. ASSUME NEW k \in 1..n
        PROVE  G[k] = G[k - 1] \o ss[k]
    <3> HIDE DEF X
    <3>1. G[k - 1] \in X
        BY <2>4
    <3>2. QED
        BY <2>4, <3>1
  <2>6. QED
      BY <2>4, <2>5
<1>3. CASE n = 0
  <2>1. ss = <<>>
      BY <1>3
  <2>2. FlattenSeq(ss) = <<>>
      BY <2>1 DEF FlattenSeq
  <2>3. QED
      BY <1>2, <1>3, <2>2 DEF Flattened
<1>4. CASE n > 0
  <2> DEFINE Step(g) == [i \in 1..n |-> IF i = 1 THEN ss[i] ELSE g[i - 1] \o ss[i]]
             g0 == [i \in 1..n |-> G[i]]
             f == CHOOSE g : g = Step(g)
  <2>1. FlattenSeq(ss) = f[n]
      BY <1>1, <1>4 DEF FlattenSeq
  <2>2. g0 = Step(g0)
    <3>1. ASSUME NEW i \in 1..n
          PROVE  g0[i] = Step(g0)[i]
      <4>1. G[0] = <<>> /\ G[i] = G[i - 1] \o ss[i] /\ ss[i] \in Seq(S)
          BY <1>1, <1>2
      <4>2. CASE i = 1
        <5>1. G[i - 1] = <<>>
            BY <4>1, <4>2
        <5>2. G[i - 1] \o ss[i] = ss[i]
            BY <4>1, <5>1
        <5>3. g0[i] = G[i] /\ Step(g0)[i] = ss[i]
            BY <4>2
        <5>4. QED
            BY <4>1, <5>2, <5>3
      <4>3. CASE i # 1
        <5>1. i - 1 \in 1..n
            BY <1>1, <4>3
        <5>2. QED
            BY <4>1, <4>3, <5>1
      <4>4. QED
          BY <4>2, <4>3
    <3>2. QED
        BY <3>1
  <2>3. f = Step(f)
    <3> HIDE DEF Step, g0
    <3>1. QED
        BY <2>2
  <2> HIDE DEF f
  <2>4. ASSUME NEW k \in 1..n
        PROVE  f[k] = IF k = 1 THEN ss[k] ELSE f[k - 1] \o ss[k]
      BY <2>3
  <2> DEFINE T == {0} \cup {k \in 1..n : f[k] = G[k]}
  <2>5. T \in SUBSET (0..n) /\ 0 \in T
      BY <1>1
  <2>6. ASSUME NEW k \in 0..(n - 1), k \in T
        PROVE  k + 1 \in T
    <3>1. k + 1 \in 1..n /\ (k + 1) - 1 = k
        OBVIOUS
    <3>2. G[k + 1] = G[k] \o ss[k + 1] /\ ss[k + 1] \in Seq(S)
        BY <1>1, <1>2, <3>1
    <3>3. CASE k = 0
      <4>1. G[k] = <<>>
          BY <1>2, <3>3
      <4>2. G[k] \o ss[k + 1] = ss[k + 1]
          BY <3>2, <4>1
      <4>3. f[k + 1] = ss[k + 1]
          BY <2>4, <3>1, <3>3
      <4>4. QED
          BY <3>1, <3>2, <4>2, <4>3
    <3>4. CASE k # 0
      <4>1. f[k] = G[k]
          BY <2>6, <3>4
      <4>2. f[k + 1] = f[k] \o ss[k + 1]
        <5>1. k + 1 # 1
            BY <3>1, <3>4
        <5>2. f[k + 1] = f[(k + 1) - 1] \o ss[k + 1]
            BY <2>4, <3>1, <5>1
        <5>3. QED
            BY <3>1, <5>2
      <4>3. QED
          BY <3>1, <3>2, <4>1, <4>2
    <3>5. QED
        BY <3>3, <3>4
  <2>7. T = 0..n
    <3> HIDE DEF T
    <3>1. QED
        BY <2>5, <2>6, InductionUpTo
  <2>8. f[n] = G[n]
    <3>1. n \in T /\ n # 0
      <4> HIDE DEF T
      <4>1. QED
          BY <1>4, <2>7
    <3>2. QED
        BY <3>1
  <2>9. FlattenSeq(ss) = G[n]
      BY <2>1, <2>8
  <2>10. QED
      BY <1>2, <2>9 DEF Flattened
<1>5. n = 0 \/ n > 0
    OBVIOUS
<1>6. QED
    BY <1>3, <1>4, <1>5

-----------------------------------------------------------------------------
(* The order of a map.                                                      *)

\* How many elements of S come before x.
Rank(S, x) == Cardinality({g \in S : g < x})

\* Of two elements the greater has the higher rank.
LEMMA RankGrows ==
    ASSUME NEW S \in SUBSET Nat, IsFiniteSet(S), NEW x \in S, NEW y \in S, x < y
    PROVE  Rank(S, x) < Rank(S, y)
<1> DEFINE A == {g \in S : g < x}  B == {g \in S : g < y}
<1>1. IsFiniteSet(A) /\ IsFiniteSet(B) /\ A \in SUBSET B /\ x \in B /\ x \notin A
  <2>1. A \in SUBSET S /\ B \in SUBSET S
      OBVIOUS
  <2>2. A \in SUBSET B /\ x \in B /\ x \notin A
    <3>1. x \in Nat /\ y \in Nat /\ \A g \in S : g \in Nat
        OBVIOUS
    <3>2. \A g \in S : g < x => g < y
        BY <3>1
    <3>3. A \in SUBSET B
        BY <3>2
    <3>4. x \in B /\ ~(x < x)
        BY <3>1
    <3>5. QED
        BY <3>3, <3>4
  <2>3. IsFiniteSet(A) /\ IsFiniteSet(B)
    <3> HIDE DEF A, B
    <3>1. QED
        BY <2>1, FS_Subset
  <2>4. QED
      BY <2>2, <2>3
<1>2. Cardinality(A) < Cardinality(B)
  <2> HIDE DEF A, B
  <2>1. Cardinality(A) \in Nat /\ Cardinality(B) \in Nat
      BY <1>1, FS_CardinalityType
  <2>2. Cardinality(A) <= Cardinality(B) /\ (Cardinality(B) = Cardinality(A) => B = A)
      BY <1>1, FS_Subset
  <2>3. QED
      BY <1>1, <2>1, <2>2
<1>3. QED
    BY <1>2 DEF Rank

\* Ranks are the numbers below the number of elements.
LEMMA RankType ==
    ASSUME NEW S \in SUBSET Nat, IsFiniteSet(S), NEW x \in S
    PROVE  Cardinality(S) \in Nat /\ Rank(S, x) \in 0..(Cardinality(S) - 1)
<1> DEFINE A == {g \in S : g < x}
<1>1. A \in SUBSET S /\ x \notin A
    OBVIOUS
<1>2. QED
  <2> HIDE DEF A
  <2>1. IsFiniteSet(A) /\ Cardinality(A) <= Cardinality(S)
        /\ (Cardinality(S) = Cardinality(A) => S = A)
      BY <1>1, FS_Subset
  <2>2. Cardinality(A) \in Nat /\ Cardinality(S) \in Nat
      BY <2>1, FS_CardinalityType
  <2>3. Cardinality(A) \in 0..(Cardinality(S) - 1)
      BY <1>1, <2>1, <2>2
  <2>4. QED
      BY <2>2, <2>3 DEF Rank, A

\* Every rank below the number of elements is the rank of one of them.
LEMMA RankOnto ==
    ASSUME NEW S \in SUBSET Nat, IsFiniteSet(S)
    PROVE  \A k \in 0..(Cardinality(S) - 1) : \E x \in S : Rank(S, x) = k
<1> DEFINE n == Cardinality(S)
           rank == [x \in S |-> Rank(S, x)]
           T == 0..(n - 1)
<1>1. n \in Nat
    BY FS_CardinalityType
<1>2. IsFiniteSet(T) /\ Cardinality(T) = n
  <2> HIDE DEF n
  <2>1. IsFiniteSet(0..(n - 1)) /\ Cardinality(0..(n - 1)) = IF 0 > n - 1 THEN 0 ELSE (n - 1) - 0 + 1
      BY <1>1, FS_Interval
  <2>2. QED
      BY <1>1, <2>1
<1>3. rank \in [S -> T]
    BY RankType
<1>4. ASSUME NEW x \in S, NEW y \in S, rank[x] = rank[y]
      PROVE  x = y
  <2>1. Rank(S, x) \in Int /\ Rank(S, y) \in Int
      BY RankType
  <2>2. CASE x < y
      BY <1>4, <2>1, <2>2, RankGrows
  <2>3. CASE y < x
      BY <1>4, <2>1, <2>3, RankGrows
  <2>4. x \in Nat /\ y \in Nat
      OBVIOUS
  <2>5. QED
      BY <2>2, <2>3, <2>4
<1>5. rank \in Injection(S, T)
  <2> HIDE DEF rank, T
  <2>1. DOMAIN rank = S
      BY <1>3
  <2>2. QED
      BY <1>3, <1>4, <2>1 DEF Injection, IsInjective
<1>6. rank \in Surjection(S, T)
  <2> HIDE DEF rank, T
  <2>1. QED
      BY <1>2, <1>5, FS_Injection DEF n
<1>7. QED
  <2>1. \A k \in T : \E x \in S : rank[x] = k
    <3> HIDE DEF rank, T
    <3>1. QED
        BY <1>6 DEF Surjection
  <2>2. QED
      BY <2>1

\* InOrder enumerates a finite set by rank.
LEMMA InOrderEnumerates ==
    ASSUME NEW S \in SUBSET Nat, IsFiniteSet(S)
    PROVE  /\ Cardinality(S) \in Nat
           /\ InOrder(S) \in [1..Cardinality(S) -> S]
           /\ \A k \in 1..Cardinality(S) : Rank(S, InOrder(S)[k]) = k - 1
           /\ \A x \in S : Rank(S, x) + 1 \in 1..Cardinality(S)
                           /\ InOrder(S)[Rank(S, x) + 1] = x
<1>1. Cardinality(S) \in Nat
    BY FS_CardinalityType
<1>2. ASSUME NEW k \in 1..Cardinality(S)
      PROVE  InOrder(S)[k] \in S /\ Rank(S, InOrder(S)[k]) = k - 1
  <2>1. k - 1 \in 0..(Cardinality(S) - 1)
      BY <1>1
  <2>2. \E f \in S : Rank(S, f) = k - 1
      BY <2>1, RankOnto
  <2>3. InOrder(S)[k] = CHOOSE f \in S : Rank(S, f) = k - 1
      BY DEF InOrder, Rank
  <2>4. QED
      BY <2>2, <2>3
<1>3. ASSUME NEW x \in S
      PROVE  Rank(S, x) + 1 \in 1..Cardinality(S) /\ InOrder(S)[Rank(S, x) + 1] = x
  <2>1. Rank(S, x) \in 0..(Cardinality(S) - 1)
      BY RankType
  <2>2. Rank(S, x) + 1 \in 1..Cardinality(S) /\ (Rank(S, x) + 1) - 1 = Rank(S, x)
      BY <1>1, <2>1
  <2> DEFINE y == InOrder(S)[Rank(S, x) + 1]
  <2>3. y \in S /\ Rank(S, y) = Rank(S, x)
      BY <1>2, <2>2
  <2> HIDE DEF y
  <2>4. ~(x < y) /\ ~(y < x)
      BY <2>1, <2>3, RankGrows
  <2>5. x \in Nat /\ y \in Nat
      BY <2>3
  <2>6. x = y
      BY <2>4, <2>5
  <2>7. QED
      BY <2>2, <2>6 DEF y
<1>4. DOMAIN InOrder(S) = 1..Cardinality(S)
    BY DEF InOrder
<1> DEFINE nth(k) == CHOOSE f \in S : Cardinality({g \in S : g < f}) = k - 1
<1>5. InOrder(S) = [k \in 1..Cardinality(S) |-> nth(k)]
    BY DEF InOrder
<1>6. InOrder(S) \in [1..Cardinality(S) -> S]
  <2> HIDE DEF nth
  <2>1. \A k \in 1..Cardinality(S) : nth(k) \in S
      BY <1>2, <1>5
  <2>2. QED
      BY <1>5, <2>1
<1>7. QED
    BY <1>1, <1>2, <1>3, <1>6

-----------------------------------------------------------------------------
(* Numbers in text.                                                         *)

DigitChars == DOMAIN Value

\* The characters of the text.  This is STRING; the provers do not know that
\* a string they read in a formula is one.
Char == STRING \cup DigitChars \cup {SPR_CHAR_ITEM, SPR_CHAR_ATTR, "-"}

\* The ten digits, and that neither separator nor the sign is one.
LEMMA DigitFacts ==
    /\ \A k \in 0..9 : Digits[k + 1] \in DigitChars /\ Value[Digits[k + 1]] = k
    /\ \A d \in DigitChars : Value[d] \in 0..9
    /\ {SPR_CHAR_ITEM, SPR_CHAR_ATTR, "-"} \cap DigitChars = {}
<1>1. DigitChars = {Digits[i] : i \in DOMAIN Digits}
    BY DEF DigitChars, Value, ToSet
<1>2. DOMAIN Digits = 1..10
    BY DEF Digits
<1>3. \A i, j \in 1..10 : Digits[i] = Digits[j] => i = j
    BY DEF Digits
<1>4. ASSUME NEW i \in 1..10
      PROVE  Digits[i] \notin {SPR_CHAR_ITEM, SPR_CHAR_ATTR, "-"}
  <2>1. \/ i = 1 \/ i = 2 \/ i = 3 \/ i = 4 \/ i = 5
        \/ i = 6 \/ i = 7 \/ i = 8 \/ i = 9 \/ i = 10
      OBVIOUS
  <2>2. Digits[i] \in {"0", "1", "2", "3", "4", "5", "6", "7", "8", "9"}
      BY <2>1 DEF Digits
  <2>3. \A d \in {"0", "1", "2", "3", "4", "5", "6", "7", "8", "9"} :
            d # "|" /\ d # "," /\ d # "-"
      OBVIOUS
  <2>4. QED
      BY <2>2, <2>3 DEF SPR_CHAR_ITEM, SPR_CHAR_ATTR
<1>5. ASSUME NEW i \in 1..10
      PROVE  Digits[i] \in DigitChars /\ Value[Digits[i]] = i - 1
  <2>1. Digits[i] \in DigitChars
      BY <1>1, <1>2
  <2>2. Value[Digits[i]] = (CHOOSE k \in 1..10 : Digits[k] = Digits[i]) - 1
      BY <1>1, <2>1 DEF Value, ToSet
  <2>3. (CHOOSE k \in 1..10 : Digits[k] = Digits[i]) = i
      BY <1>3
  <2>4. QED
      BY <2>1, <2>2, <2>3
<1>6. \A d \in DigitChars : \E i \in 1..10 : d = Digits[i]
    BY <1>1, <1>2
<1>7. ASSUME NEW k \in 0..9
      PROVE  Digits[k + 1] \in DigitChars /\ Value[Digits[k + 1]] = k
  <2>1. k + 1 \in 1..10 /\ (k + 1) - 1 = k
      OBVIOUS
  <2>2. QED
      BY <1>5, <2>1
<1>8. ASSUME NEW d \in DigitChars
      PROVE  Value[d] \in 0..9 /\ d \notin {SPR_CHAR_ITEM, SPR_CHAR_ATTR, "-"}
  <2>1. PICK i \in 1..10 : d = Digits[i]
      BY <1>6
  <2>2. Value[d] = i - 1
      BY <1>5, <2>1
  <2>3. QED
      BY <1>4, <2>1, <2>2
<1>9. QED
    BY <1>7, <1>8

\* A digit's value is a number.
LEMMA DigitValue == \A d \in DigitChars : Value[d] \in Int /\ Value[d] >= 0
<1>1. ASSUME NEW d \in DigitChars PROVE Value[d] \in 0..9
    BY DigitFacts
<1>2. QED
    BY <1>1

\* The positions of the digits that NumberFrom reads.
DigitRun(s, p) == {i \in p..Len(s) : \A j \in p..i : s[j] \in DOMAIN Value}

\* What NumberFrom reads, digit by digit.
LEMMA NumberSteps ==
    ASSUME NEW s \in Seq(Char), NEW p \in Nat
    PROVE  \E R \in [0..Len(s) -> Int] :
              /\ R[0] = 0
              /\ \A i \in 1..Len(s) :
                    R[i] = IF i \in DigitRun(s, p) THEN 10 * R[i - 1] + Value[s[i]] ELSE R[i - 1]
              /\ NumberFrom(s, p) = R[Len(s)]
<1> DEFINE n == Len(s)
           next(i, x) == IF i \in DigitRun(s, p) THEN 10 * x + Value[s[i]] ELSE x
           X == Int
           step == [i \in 1..n |-> [x \in X |-> next(i, x)]]
           Eq(r) == [i \in 0..n |-> IF i = 0 THEN 0 ELSE next(i, r[i - 1])]
           read == CHOOSE r : r = Eq(r)
<1>1. n \in Nat
    OBVIOUS
<1>2. ASSUME NEW i \in 1..n, NEW x \in Int
      PROVE  next(i, x) \in Int
  <2>1. CASE i \in DigitRun(s, p)
    <3>1. p \in Nat /\ n \in Nat /\ i \in p..i
        BY <1>1, <2>1 DEF DigitRun
    <3>2. s[i] \in DigitChars
        BY <2>1, <3>1 DEF DigitRun, DigitChars
    <3>3. Value[s[i]] \in Int
        BY <3>2, DigitValue
    <3>4. QED
        BY <2>1, <3>3
  <2>2. CASE i \notin DigitRun(s, p)
      BY <2>2
  <2>3. QED
      BY <2>1, <2>2
<1>3. NumberFrom(s, p) = read[n]
    BY DEF NumberFrom, DigitRun
<1>4. PICK R \in [0..n -> Int] : Steps(R, n, 0, step)
  <2>1. step \in [1..n -> [X -> X]]
    <3> HIDE DEF next, n
    <3>1. QED
        BY <1>2
  <2>2. 0 \in X
      OBVIOUS
  <2>3. \E R \in [0..n -> X] : Steps(R, n, 0, step)
    <3> HIDE DEF step, n, X
    <3>1. QED
        BY <1>1, <2>1, <2>2, Recursion
  <2>4. QED
    <3> HIDE DEF step, n
    <3>1. QED
        BY <2>3
<1>5. R[0] = 0 /\ \A i \in 1..n : R[i] = next(i, R[i - 1])
  <2> HIDE DEF next, n
  <2>1. \A i \in 1..n : R[i - 1] \in Int
      BY <1>1, <1>4
  <2>2. \A i \in 1..n : R[i] = step[i][R[i - 1]]
      BY <1>4 DEF Steps
  <2>3. \A i \in 1..n : step[i][R[i - 1]] = next(i, R[i - 1])
      BY <2>1
  <2>4. R[0] = 0
      BY <1>4 DEF Steps
  <2>5. QED
      BY <2>2, <2>3, <2>4
<1>6. R = Eq(R)
  <2> HIDE DEF next, n
  <2>1. \A i \in 0..n : i # 0 => i \in 1..n
      BY <1>1
  <2>2. \A i \in 0..n : R[i] = Eq(R)[i]
      BY <1>5, <2>1
  <2>3. QED
      BY <1>4, <2>2
<1>7. read = Eq(read)
  <2> HIDE DEF Eq
  <2>1. QED
      BY <1>6
<1> HIDE DEF read
<1>8. read[0] = 0 /\ \A i \in 1..n : read[i] = next(i, read[i - 1])
  <2> HIDE DEF next, n
  <2>1. 0 \in 0..n /\ \A i \in 1..n : i \in 0..n /\ i # 0
      BY <1>1
  <2>2. QED
      BY <1>7, <2>1
<1>9. read = [i \in 0..n |-> read[i]]
  <2> HIDE DEF next, n
  <2>1. QED
      BY <1>7
<1>10. {i \in 0..n : read[i] \in Int} = 0..n
  <2> DEFINE T == {i \in 0..n : read[i] \in Int}
  <2> HIDE DEF next, n
  <2>1. T \in SUBSET (0..n) /\ 0 \in T
      BY <1>1, <1>8
  <2>2. ASSUME NEW k \in 0..(n - 1), k \in T
        PROVE  k + 1 \in T
    <3>1. k + 1 \in 1..n /\ (k + 1) - 1 = k /\ k + 1 \in 0..n
        BY <1>1
    <3>2. read[k + 1] = next(k + 1, read[k])
        BY <1>8, <3>1
    <3>3. next(k + 1, read[k]) \in Int
        BY <1>2, <2>2, <3>1
    <3>4. QED
        BY <3>1, <3>2, <3>3
  <2>3. T = 0..n
    <3> HIDE DEF T
    <3>1. QED
        BY <1>1, <2>1, <2>2, InductionUpTo
  <2>4. QED
      BY <2>3
<1>11. read \in [0..n -> Int]
  <2> HIDE DEF n
  <2>1. QED
      BY <1>9, <1>10
<1>12. QED
    BY <1>3, <1>8, <1>11

\* The digits of a number written one by one are the number.
LEMMA NumberOfDigits ==
    ASSUME NEW s \in Seq(DigitChars), NEW d \in DigitChars
    PROVE  /\ NumberFrom(<<d>>, 1) = Value[d]
           /\ NumberFrom(s, 1) \in Int
           /\ NumberFrom(s \o <<d>>, 1) = 10 * NumberFrom(s, 1) + Value[d]
<1>1. ASSUME NEW t \in Seq(DigitChars)
      PROVE  \E R \in [0..Len(t) -> Int] :
                /\ R[0] = 0
                /\ \A i \in 1..Len(t) : R[i] = 10 * R[i - 1] + Value[t[i]]
                /\ NumberFrom(t, 1) = R[Len(t)]
  <2>1. t \in Seq(Char) /\ 1 \in Nat
      BY DEF Char
  <2>2. DigitRun(t, 1) = 1..Len(t)
      BY DEF DigitRun, DigitChars
  <2>3. PICK R \in [0..Len(t) -> Int] :
              /\ R[0] = 0
              /\ \A i \in 1..Len(t) :
                    R[i] = IF i \in DigitRun(t, 1) THEN 10 * R[i - 1] + Value[t[i]] ELSE R[i - 1]
              /\ NumberFrom(t, 1) = R[Len(t)]
      BY <2>1, NumberSteps
  <2>4. QED
      BY <2>2, <2>3
<1>2. NumberFrom(<<d>>, 1) = Value[d]
  <2> DEFINE t == <<d>>
  <2>1. t \in Seq(DigitChars) /\ Len(t) = 1 /\ t[1] = d
      OBVIOUS
  <2> HIDE DEF t
  <2>2. PICK R \in [0..Len(t) -> Int] :
                /\ R[0] = 0
                /\ \A i \in 1..Len(t) : R[i] = 10 * R[i - 1] + Value[t[i]]
                /\ NumberFrom(t, 1) = R[Len(t)]
      BY <1>1, <2>1
  <2>3. R[1] = 10 * R[0] + Value[d]
      BY <2>1, <2>2
  <2>4. Value[d] \in Int
      BY DigitValue
  <2>5. NumberFrom(t, 1) = Value[d]
      BY <2>1, <2>2, <2>3, <2>4
  <2>6. QED
      BY <2>5 DEF t
<1> DEFINE u == s \o <<d>>
           n == Len(s)
<1>3. /\ u \in Seq(DigitChars) /\ n \in Nat /\ Len(u) = n + 1 /\ u[n + 1] = d
      /\ \A i \in 1..n : u[i] = s[i]
    OBVIOUS
<1> HIDE DEF u
<1>4. PICK R \in [0..n -> Int] :
                /\ R[0] = 0
                /\ \A i \in 1..n : R[i] = 10 * R[i - 1] + Value[s[i]]
                /\ NumberFrom(s, 1) = R[n]
    BY <1>1
<1> HIDE DEF n
<1>5. PICK Q \in [0..(n + 1) -> Int] :
                /\ Q[0] = 0
                /\ \A i \in 1..(n + 1) : Q[i] = 10 * Q[i - 1] + Value[u[i]]
                /\ NumberFrom(u, 1) = Q[n + 1]
    BY <1>1, <1>3
<1>6. Q[n] = R[n]
  <2> DEFINE T == {i \in 0..n : Q[i] = R[i]}
  <2>1. T \in SUBSET (0..n) /\ 0 \in T
      BY <1>3, <1>4, <1>5
  <2>2. ASSUME NEW k \in 0..(n - 1), k \in T
        PROVE  k + 1 \in T
    <3>1. k + 1 \in 1..n /\ k + 1 \in 1..(n + 1) /\ (k + 1) - 1 = k /\ k + 1 \in 0..n
        BY <1>3
    <3>2. Q[k + 1] = 10 * Q[k] + Value[u[k + 1]]
        BY <1>5, <3>1
    <3>3. R[k + 1] = 10 * R[k] + Value[s[k + 1]]
        BY <1>4, <3>1
    <3>4. u[k + 1] = s[k + 1] /\ Q[k] = R[k]
        BY <1>3, <2>2, <3>1
    <3>5. Q[k + 1] = R[k + 1]
        BY <3>2, <3>3, <3>4
    <3>6. QED
        BY <3>1, <3>5
  <2>3. T = 0..n
    <3> HIDE DEF T
    <3>1. QED
        BY <1>3, <2>1, <2>2, InductionUpTo
  <2>4. n \in T
    <3> HIDE DEF T
    <3>1. QED
        BY <1>3, <2>3
  <2>5. QED
      BY <2>4
<1>7. Q[n + 1] = 10 * Q[n] + Value[d]
  <2>1. n + 1 \in 1..(n + 1) /\ (n + 1) - 1 = n
      BY <1>3
  <2>2. QED
      BY <1>3, <1>5, <2>1
<1>8. NumberFrom(s, 1) \in Int
    BY <1>3, <1>4
<1>9. NumberFrom(u, 1) = 10 * NumberFrom(s, 1) + Value[d]
    BY <1>4, <1>5, <1>6, <1>7
<1>10. QED
    BY <1>2, <1>8, <1>9 DEF u

\* What Decimal prints for k, given what it prints for the smaller numbers.
PrintStep(print, k) ==
    IF k < 10 THEN <<Digits[k + 1]>> ELSE print[k \div 10] \o <<Digits[(k % 10) + 1]>>

\* There is a function that does what Decimal prints, so its choice is one.
LEMMA PrintExists ==
    ASSUME NEW n \in Nat
    PROVE  \E P : P = [k \in 0..n |-> PrintStep(P, k)]
<1> DEFINE Good(G, m) == G = [k \in 0..m |-> PrintStep(G, k)]
           T == {m \in 0..n : \E G : Good(G, m)}
<1>1. 0 \in T
  <2> DEFINE G == [k \in 0..0 |-> <<Digits[k + 1]>>]
  <2>1. Good(G, 0)
      BY DEF PrintStep
  <2>2. QED
    <3> HIDE DEF Good
    <3>1. QED
        BY <2>1
<1>2. ASSUME NEW m \in 0..(n - 1), m \in T
      PROVE  m + 1 \in T
  <2>1. PICK G : Good(G, m)
      BY <1>2
  <2> DEFINE x == PrintStep(G, m + 1)
             H == [k \in 0..(m + 1) |-> IF k <= m THEN G[k] ELSE x]
  <2>2. ASSUME NEW k \in 0..(m + 1)
        PROVE  PrintStep(H, k) = PrintStep(G, k)
    <3>1. k >= 10 => k \div 10 \in 0..(m + 1) /\ k \div 10 <= m
        OBVIOUS
    <3>2. k >= 10 => H[k \div 10] = G[k \div 10]
        BY <3>1
    <3> HIDE DEF H
    <3>3. QED
        BY <3>2 DEF PrintStep
  <2>3. ASSUME NEW k \in 0..(m + 1)
        PROVE  H[k] = PrintStep(G, k)
    <3>1. CASE k <= m
      <4>1. k \in 0..m
          BY <3>1
      <4>2. G[k] = PrintStep(G, k)
        <5> HIDE DEF x
        <5>1. QED
            BY <2>1, <4>1
      <4>3. QED
          BY <3>1, <4>2
    <3>2. CASE ~(k <= m)
      <4>1. k = m + 1
          BY <3>2
      <4>2. H[k] = x
          BY <3>2
      <4>3. QED
          BY <4>1, <4>2
    <3>3. QED
        BY <3>1, <3>2
  <2>4. Good(H, m + 1)
    <3>1. \A k \in 0..(m + 1) : H[k] = PrintStep(H, k)
        BY <2>2, <2>3
    <3>2. H = [k \in 0..(m + 1) |-> H[k]]
      <4> HIDE DEF x
      <4>1. QED
          OBVIOUS
    <3> HIDE DEF H
    <3>3. QED
        BY <3>1, <3>2
  <2>5. m + 1 \in 0..n
      OBVIOUS
  <2>6. QED
    <3> HIDE DEF Good, H
    <3>1. QED
        BY <2>4, <2>5
<1>3. T = 0..n
  <2>1. T \in SUBSET (0..n)
      OBVIOUS
  <2> HIDE DEF T
  <2>2. QED
      BY <1>1, <1>2, <2>1, InductionUpTo
<1>4. n \in T
    BY <1>3
<1>5. QED
    BY <1>4

\* %d of a natural number is the number's digits.
LEMMA DecimalOfNat ==
    ASSUME NEW n \in Nat
    PROVE  /\ Decimal(n) \in Seq(DigitChars)
           /\ Len(Decimal(n)) > 0
           /\ NumberFrom(Decimal(n), 1) = n
<1> DEFINE print == CHOOSE P : P = [k \in 0..n |-> PrintStep(P, k)]
           Right(t, k) == t \in Seq(DigitChars) /\ Len(t) > 0 /\ NumberFrom(t, 1) = k
           T == {k \in 0..n : Right(print[k], k)}
<1>1. Decimal(n) = print[n]
    BY DEF Decimal, PrintStep
<1>2. print = [k \in 0..n |-> PrintStep(print, k)]
    BY PrintExists
<1> HIDE DEF print
<1>3. \A k \in 0..n : print[k] = PrintStep(print, k)
    BY <1>2
<1>4. ASSUME NEW k \in 0..n, 0..(k - 1) \subseteq T
      PROVE  k \in T
  <2>1. CASE k < 10
    <3>1. k \in 0..9
        BY <2>1
    <3>2. print[k] = <<Digits[k + 1]>>
        BY <1>3, <2>1 DEF PrintStep
    <3>3. Digits[k + 1] \in DigitChars /\ Value[Digits[k + 1]] = k
        BY <3>1, DigitFacts
    <3>4. <<>> \in Seq(DigitChars)
        OBVIOUS
    <3>5. NumberFrom(<<Digits[k + 1]>>, 1) = k
        BY <3>3, <3>4, NumberOfDigits
    <3>6. <<Digits[k + 1]>> \in Seq(DigitChars) /\ Len(<<Digits[k + 1]>>) > 0
        BY <3>3
    <3>7. QED
        BY <3>2, <3>5, <3>6
  <2>2. CASE k >= 10
    <3> DEFINE j == k \div 10
               d == Digits[(k % 10) + 1]
    <3>1. j \in 0..(k - 1) /\ k % 10 \in 0..9 /\ k = 10 * j + (k % 10)
        BY <2>2
    <3>2. print[k] = print[j] \o <<d>>
      <4>1. ~(k < 10)
          BY <2>2
      <4>2. QED
          BY <1>3, <4>1 DEF PrintStep
    <3>3. d \in DigitChars /\ Value[d] = k % 10
        BY <3>1, DigitFacts
    <3> HIDE DEF j, d
    <3>4. Right(print[j], j)
        BY <1>4, <3>1
    <3>5. NumberFrom(print[j] \o <<d>>, 1) = 10 * j + (k % 10)
        BY <3>3, <3>4, NumberOfDigits
    <3>6. print[j] \o <<d>> \in Seq(DigitChars) /\ Len(print[j] \o <<d>>) > 0
        BY <3>3, <3>4
    <3>7. Right(print[k], k)
        BY <3>1, <3>2, <3>5, <3>6
    <3>8. QED
        BY <3>7
  <2>3. k < 10 \/ k >= 10
      OBVIOUS
  <2>4. QED
      BY <2>1, <2>2, <2>3
<1>5. T = 0..n
  <2>1. T \in SUBSET (0..n)
      OBVIOUS
  <2> HIDE DEF T
  <2>2. QED
      BY <1>4, <2>1, StrongInductionUpTo
<1>6. n \in T
  <2> HIDE DEF T
  <2>1. QED
      BY <1>5
<1>7. QED
    BY <1>1, <1>6

\* Reading back with atoi what %d prints, and what it is made of.
LEMMA AtoiOfDecimal ==
    ASSUME NEW n \in Nat \cup {NoFd}
    PROVE  /\ Decimal(n) \in Seq(Char)
           /\ \A i \in 1..Len(Decimal(n)) : Decimal(n)[i] \notin {SPR_CHAR_ITEM, SPR_CHAR_ATTR}
           /\ Atoi(Decimal(n)) = n
<1>1. CASE n \in Nat
  <2> DEFINE t == Decimal(n)
  <2>1. t \in Seq(DigitChars) /\ Len(t) > 0 /\ NumberFrom(t, 1) = n
      BY <1>1, DecimalOfNat
  <2> HIDE DEF t
  <2>2. \A i \in 1..Len(t) : t[i] \in DigitChars
      BY <2>1
  <2>3. \A i \in 1..Len(t) : t[i] \notin {SPR_CHAR_ITEM, SPR_CHAR_ATTR, "-"}
      BY <2>2, DigitFacts
  <2>4. t \in Seq(Char)
      BY <2>1 DEF Char
  <2>5. t[1] # "-"
      BY <2>1, <2>3
  <2>6. Atoi(t) = n
      BY <2>1, <2>5 DEF Atoi
  <2>7. QED
      BY <2>3, <2>4, <2>6 DEF t
<1>2. CASE n = NoFd
  <2> DEFINE print == CHOOSE P : P = [k \in 0..1 |-> PrintStep(P, k)]
             one == Digits[2]
             t == <<"-">> \o <<one>>
  <2>1. Decimal(NoFd) = <<"-">> \o print[1]
    <3>1. NoFd < 0 /\ -NoFd = 1
      <4>1. NoFd \in Int /\ NoFd < 0 /\ 0 - NoFd = 1
          BY DEF NoFd
      <4>2. \A i \in Int : -i = 0 - i
          OBVIOUS
      <4>3. QED
          BY <4>1, <4>2
    <3>2. Decimal(NoFd) =
            <<"-">> \o (CHOOSE P : P = [k \in 0..-NoFd |-> PrintStep(P, k)])[-NoFd]
        BY <3>1 DEF Decimal, PrintStep
    <3>3. QED
        BY <3>1, <3>2
  <2>2. print = [k \in 0..1 |-> PrintStep(print, k)]
      BY PrintExists
  <2> HIDE DEF print
  <2>3. print[1] = <<one>>
      BY <2>2 DEF PrintStep
  <2>4. one \in DigitChars /\ Value[one] = 1
    <3>1. 1 \in 0..9 /\ 1 + 1 = 2
        OBVIOUS
    <3>2. QED
        BY <3>1, DigitFacts
  <2>5. one \notin {SPR_CHAR_ITEM, SPR_CHAR_ATTR, "-"} /\ "-" \notin DigitChars
      BY <2>4, DigitFacts
  <2> HIDE DEF one
  <2>6. t \in Seq(Char) /\ Len(t) = 2 /\ t[1] = "-" /\ t[2] = one
      BY <2>4 DEF Char
  <2> HIDE DEF t
  <2>7. DigitRun(t, 2) = {2}
      BY <2>4, <2>6 DEF DigitRun, DigitChars
  <2>8. PICK R \in [0..Len(t) -> Int] :
              /\ R[0] = 0
              /\ \A i \in 1..Len(t) :
                    R[i] = IF i \in DigitRun(t, 2) THEN 10 * R[i - 1] + Value[t[i]] ELSE R[i - 1]
              /\ NumberFrom(t, 2) = R[Len(t)]
    <3>1. 2 \in Nat
        OBVIOUS
    <3>2. QED
        BY <2>6, <3>1, NumberSteps
  <2>9. R[1] = 0 /\ R[2] = 1
      BY <2>4, <2>6, <2>7, <2>8
  <2>10. NumberFrom(t, 2) = 1
      BY <2>6, <2>8, <2>9
  <2>11. Atoi(t) = NoFd
    <3>1. t # <<>>
        BY <2>6
    <3>2. Atoi(t) = -NumberFrom(t, 2)
        BY <2>6, <3>1 DEF Atoi
    <3>3. QED
        BY <2>10, <3>2 DEF NoFd
  <2>12. \A i \in 1..Len(t) : t[i] \notin {SPR_CHAR_ITEM, SPR_CHAR_ATTR}
    <3>1. "-" \notin {SPR_CHAR_ITEM, SPR_CHAR_ATTR}
        BY DEF SPR_CHAR_ITEM, SPR_CHAR_ATTR
    <3>2. QED
        BY <2>5, <2>6, <3>1
  <2>13. Decimal(n) = t
      BY <1>2, <2>1, <2>3 DEF t
  <2>14. QED
      BY <1>2, <2>6, <2>11, <2>12, <2>13
<1>3. QED
    BY <1>1, <1>2

-----------------------------------------------------------------------------
(* One record.                                                              *)

\* Find gives the first place, once one knows it is the first.
LEMMA FindFirst ==
    ASSUME NEW s \in Seq(Char), NEW sep, NEW p \in Nat, NEW q \in p..Len(s),
           s[q] = sep, \A i \in p..(q - 1) : s[i] # sep
    PROVE  Find(s, sep, p) = q
<1> DEFINE at == {i \in p..Len(s) : s[i] = sep}
<1>1. at \in SUBSET Nat /\ q \in at /\ at # {}
    OBVIOUS
<1>2. Min(at) \in at /\ \A k \in at : Min(at) <= k
  <2> HIDE DEF at
  <2>1. QED
      BY <1>1, MinIsLeast
<1>3. Min(at) \in p..Len(s) /\ s[Min(at)] = sep /\ Min(at) <= q
    BY <1>1, <1>2
<1>4. Min(at) = q
    BY <1>3
<1>5. QED
    BY <1>1, <1>4 DEF Find

\* What Find gives is such a place.
LEMMA FindSome ==
    ASSUME NEW s \in Seq(Char), NEW sep, NEW p \in Nat, Find(s, sep, p) # 0
    PROVE  Find(s, sep, p) \in p..Len(s) /\ s[Find(s, sep, p)] = sep
<1> DEFINE at == {i \in p..Len(s) : s[i] = sep}
<1>1. at \in SUBSET Nat
    OBVIOUS
<1>2. at # {} /\ Find(s, sep, p) = Min(at)
    BY DEF Find
<1>3. Min(at) \in at
  <2> HIDE DEF at
  <2>1. QED
      BY <1>1, <1>2, MinIsLeast
<1>4. QED
    BY <1>2, <1>3

\* An item with exactly four commas is decoded from what stands between them.
LEMMA DecodeFields ==
    ASSUME NEW r \in Seq(Char), NEW c1 \in 1..Len(r), NEW c2 \in 1..Len(r),
           NEW c3 \in 1..Len(r), NEW c4 \in 1..Len(r), c1 < c2, c2 < c3, c3 < c4,
           \A i \in 1..Len(r) : r[i] = SPR_CHAR_ATTR <=> i \in {c1, c2, c3, c4}
    PROVE  /\ Whole(r)
           /\ Decode(r).fd = Atoi(SubSeq(r, c1 + 1, c2 - 1))
           /\ Decode(r).info = [name |-> SubSeq(r, 1, c1 - 1),
                                stat |-> Atoi(SubSeq(r, c2 + 1, c3 - 1)),
                                vsfd |-> Atoi(SubSeq(r, c3 + 1, c4 - 1))]
<1>1. Len(r) \in Nat
    OBVIOUS
<1>2. Comma(r, 1) = c1
  <2>1. 1 \in Nat /\ c1 \in 1..Len(r) /\ r[c1] = SPR_CHAR_ATTR
        /\ \A i \in 1..(c1 - 1) : r[i] # SPR_CHAR_ATTR
      BY <1>1
  <2>2. QED
      BY <2>1, FindFirst DEF Comma
<1>3. Comma(r, c1 + 1) = c2
  <2>1. c1 + 1 \in Nat /\ c2 \in (c1 + 1)..Len(r) /\ r[c2] = SPR_CHAR_ATTR
        /\ \A i \in (c1 + 1)..(c2 - 1) : r[i] # SPR_CHAR_ATTR
      BY <1>1
  <2>2. QED
      BY <2>1, FindFirst DEF Comma
<1>4. Comma(r, c2 + 1) = c3
  <2>1. c2 + 1 \in Nat /\ c3 \in (c2 + 1)..Len(r) /\ r[c3] = SPR_CHAR_ATTR
        /\ \A i \in (c2 + 1)..(c3 - 1) : r[i] # SPR_CHAR_ATTR
      BY <1>1
  <2>2. QED
      BY <2>1, FindFirst DEF Comma
<1>5. Comma(r, c3 + 1) = c4
  <2>1. c3 + 1 \in Nat /\ c4 \in (c3 + 1)..Len(r) /\ r[c4] = SPR_CHAR_ATTR
        /\ \A i \in (c3 + 1)..(c4 - 1) : r[i] # SPR_CHAR_ATTR
      BY <1>1
  <2>2. QED
      BY <2>1, FindFirst DEF Comma
<1>6. Commas(r) = <<c1, c2, c3, c4>>
    BY <1>2, <1>3, <1>4, <1>5 DEF Commas
<1>7. Whole(r)
  <2>1. \A i \in 1..4 : <<c1, c2, c3, c4>>[i] # 0
      BY <1>1
  <2>2. QED
      BY <1>6, <2>1 DEF Whole, ToSet
<1>8. QED
    BY <1>6, <1>7 DEF Decode

\* A whole item has four commas, one after the other.
LEMMA WholeHasFour ==
    ASSUME NEW r \in Seq(Char), Whole(r)
    PROVE  \E c1, c2, c3, c4 \in 1..Len(r) :
              /\ c1 < c2 /\ c2 < c3 /\ c3 < c4
              /\ \A c \in {c1, c2, c3, c4} : r[c] = SPR_CHAR_ATTR
<1> DEFINE c1 == Comma(r, 1)       c2 == Comma(r, c1 + 1)
           c3 == Comma(r, c2 + 1)  c4 == Comma(r, c3 + 1)
<1>1. c1 # 0 /\ c2 # 0 /\ c3 # 0 /\ c4 # 0
  <2>1. Commas(r) = <<c1, c2, c3, c4>>
      BY DEF Commas
  <2> HIDE DEF c1, c2, c3, c4
  <2>2. 1 \in DOMAIN Commas(r) /\ 2 \in DOMAIN Commas(r) /\ 3 \in DOMAIN Commas(r)
        /\ 4 \in DOMAIN Commas(r)
      BY <2>1
  <2>3. Commas(r)[1] = c1 /\ Commas(r)[2] = c2 /\ Commas(r)[3] = c3 /\ Commas(r)[4] = c4
      BY <2>1
  <2>4. QED
      BY <2>2, <2>3 DEF Whole, ToSet
<1>2. c1 \in 1..Len(r) /\ r[c1] = SPR_CHAR_ATTR
    BY <1>1, FindSome DEF Comma
<1> HIDE DEF c1
<1>3. c2 \in (c1 + 1)..Len(r) /\ r[c2] = SPR_CHAR_ATTR
  <2>1. c1 + 1 \in Nat
      BY <1>2
  <2>2. QED
      BY <1>1, <2>1, FindSome DEF Comma
<1> HIDE DEF c2
<1>4. c3 \in (c2 + 1)..Len(r) /\ r[c3] = SPR_CHAR_ATTR
  <2>1. c2 + 1 \in Nat
      BY <1>2, <1>3
  <2>2. QED
      BY <1>1, <2>1, FindSome DEF Comma
<1> HIDE DEF c3
<1>5. c4 \in (c3 + 1)..Len(r) /\ r[c4] = SPR_CHAR_ATTR
  <2>1. c3 + 1 \in Nat
      BY <1>2, <1>3, <1>4
  <2>2. QED
      BY <1>1, <2>1, FindSome DEF Comma
<1> HIDE DEF c4
<1>6. QED
  <2>1. c1 \in 1..Len(r) /\ c2 \in 1..Len(r) /\ c3 \in 1..Len(r) /\ c4 \in 1..Len(r)
        /\ c1 < c2 /\ c2 < c3 /\ c3 < c4
      BY <1>2, <1>3, <1>4, <1>5
  <2>2. \A c \in {c1, c2, c3, c4} : r[c] = SPR_CHAR_ATTR
      BY <1>2, <1>3, <1>4, <1>5
  <2>3. QED
      BY <2>1, <2>2

\* Text without separators.
Plain(t) == t \in Seq(Char)
            /\ \A i \in 1..Len(t) : t[i] \notin {SPR_CHAR_ITEM, SPR_CHAR_ATTR}

\* The bar is not the comma.
LEMMA SeparatorsDiffer == SPR_CHAR_ITEM # SPR_CHAR_ATTR
BY DEF SPR_CHAR_ITEM, SPR_CHAR_ATTR

\* y is x and one more field t, closed by a comma.
FieldAdded(y, x, t) ==
    /\ y \in Seq(Char) /\ Len(y) \in Nat /\ Len(x) < Len(y)
    /\ \A i \in 1..Len(x) : y[i] = x[i]
    /\ \A i \in (Len(x) + 1)..(Len(y) - 1) : y[i] \notin {SPR_CHAR_ITEM, SPR_CHAR_ATTR}
    /\ y[Len(y)] = SPR_CHAR_ATTR
    /\ SubSeq(y, Len(x) + 1, Len(y) - 1) = t
    /\ \A i \in 1..(Len(x) + 1), j \in 0..Len(x) : SubSeq(y, i, j) = SubSeq(x, i, j)

\* Printing a field after x adds one comma, behind all those of x.
LEMMA AddingAField ==
    ASSUME NEW x \in Seq(Char), NEW t, Plain(t), NEW y, y = x \o t \o <<SPR_CHAR_ATTR>>
    PROVE  FieldAdded(y, x, t)
<1> DEFINE c == SPR_CHAR_ATTR  xt == x \o t
<1>1. t \in Seq(Char) /\ c \in Char /\ Len(x) \in Nat /\ Len(t) \in Nat
    BY DEF Plain, Char
<1>2. /\ xt \in Seq(Char) /\ Len(xt) = Len(x) + Len(t)
      /\ \A i \in 1..Len(x) : xt[i] = x[i]
      /\ \A i \in 1..Len(t) : xt[Len(x) + i] = t[i]
    BY <1>1
<1>3. /\ y \in Seq(Char) /\ Len(y) = Len(xt) + 1 /\ y[Len(xt) + 1] = c
      /\ \A i \in 1..Len(xt) : y[i] = xt[i]
  <2> HIDE DEF xt, c
  <2>1. QED
      BY <1>1, <1>2 DEF c, xt
<1> HIDE DEF xt, c
<1>4. \A i \in 1..Len(x) : y[i] = x[i]
    BY <1>1, <1>2, <1>3
<1>5. ASSUME NEW i \in 1..Len(t)
      PROVE  y[Len(x) + i] = t[i]
  <2>1. Len(x) + i \in 1..Len(xt)
      BY <1>1, <1>2
  <2>2. QED
      BY <1>2, <1>3, <2>1
<1>6. ASSUME NEW i \in (Len(x) + 1)..(Len(y) - 1)
      PROVE  y[i] \notin {SPR_CHAR_ITEM, SPR_CHAR_ATTR}
  <2>1. i - Len(x) \in 1..Len(t) /\ Len(x) + (i - Len(x)) = i
      BY <1>1, <1>2, <1>3
  <2>2. y[i] = t[i - Len(x)]
      BY <1>5, <2>1
  <2>3. QED
      BY <2>1, <2>2 DEF Plain
<1>7. SubSeq(y, Len(x) + 1, Len(y) - 1) = t
  <2> DEFINE u == SubSeq(y, Len(x) + 1, Len(y) - 1)
  <2>1. u \in Seq(Char) /\ Len(u) = Len(t) /\ \A i \in 1..Len(t) : u[i] = y[Len(x) + i]
      BY <1>1, <1>2, <1>3
  <2> HIDE DEF u
  <2>2. \A i \in 1..Len(t) : u[i] = t[i]
      BY <1>5, <2>1
  <2>3. u = t
      BY <1>1, <2>1, <2>2, SeqEqual
  <2>4. QED
      BY <2>3 DEF u
<1>8. ASSUME NEW i \in 1..(Len(x) + 1), NEW j \in 0..Len(x)
      PROVE  SubSeq(y, i, j) = SubSeq(x, i, j)
  <2> DEFINE u == SubSeq(y, i, j)  v == SubSeq(x, i, j)
             n == IF i <= j THEN j - i + 1 ELSE 0
  <2>1. u \in Seq(Char) /\ Len(u) = n /\ \A k \in 1..n : u[k] = y[i + k - 1]
      BY <1>1, <1>2, <1>3
  <2>2. v \in Seq(Char) /\ Len(v) = n /\ \A k \in 1..n : v[k] = x[i + k - 1]
      BY <1>1
  <2>3. \A k \in 1..n : i + k - 1 \in 1..Len(x)
      BY <1>1
  <2> HIDE DEF u, v, n
  <2>4. \A k \in 1..n : u[k] = v[k]
      BY <1>4, <2>1, <2>2, <2>3
  <2>5. u = v
      BY <2>1, <2>2, <2>4, SeqEqual
  <2>6. QED
      BY <2>5 DEF u, v
<1>9. Len(y) \in Nat /\ Len(x) < Len(y) /\ y[Len(y)] = SPR_CHAR_ATTR
    BY <1>1, <1>2, <1>3 DEF c
<1>10. QED
    BY <1>3, <1>4, <1>6, <1>7, <1>8, <1>9 DEF FieldAdded

\* The record of an entry: four fields, each closed by a comma, and no bar.
RecordShape(r, fd, info, c1, c2, c3, c4) ==
    /\ r \in Seq(Char)
    /\ 1 <= c1 /\ c1 < c2 /\ c2 < c3 /\ c3 < c4 /\ c4 = Len(r)
    /\ \A i \in 1..Len(r) : r[i] = SPR_CHAR_ATTR <=> i \in {c1, c2, c3, c4}
    /\ \A i \in 1..Len(r) : r[i] # SPR_CHAR_ITEM
    /\ SubSeq(r, 1, c1 - 1) = info.name
    /\ SubSeq(r, c1 + 1, c2 - 1) = Decimal(fd)
    /\ SubSeq(r, c2 + 1, c3 - 1) = Decimal(info.stat)
    /\ SubSeq(r, c3 + 1, c4 - 1) = Decimal(info.vsfd)

\* What an entry can say when its name need not be one of Names: a rebuild can
\* find a record that has lost the front of its name.
Info == [name : {t \in Seq(Char) : Plain(t)}, stat : ONLINE_STAT, vsfd : Fds \cup {NoFd}]

\* An entry with a name a client sends is such an entry.
LEMMA NamesArePlain == OnlineInfo \subseteq Info
<1>1. Names \subseteq {t \in Seq(Char) : Plain(t)}
  <2>1. ASSUME NEW name \in Names
        PROVE  name \in Seq(Char) /\ Plain(name)
    <3>1. name \in Seq(STRING)
          /\ \A i \in 1..Len(name) : name[i] \notin {SPR_CHAR_ITEM, SPR_CHAR_ATTR}
        BY NamesAssumption
    <3>2. name \in Seq(Char)
        BY <3>1 DEF Char
    <3>3. QED
        BY <3>1, <3>2 DEF Plain
  <2>2. QED
      BY <2>1
<1>2. ASSUME NEW info \in OnlineInfo
      PROVE  info \in Info
    BY <1>1 DEF OnlineInfo, Info
<1>3. QED
    BY <1>2

\* The numbers in an entry.
LEMMA NumbersOfInfo ==
    ASSUME NEW fd \in Fds, NEW info \in Info
    PROVE  fd \in Nat \cup {NoFd} /\ info.stat \in Nat \cup {NoFd} /\ info.vsfd \in Nat \cup {NoFd}
<1>1. info.stat \in ONLINE_STAT /\ info.vsfd \in Fds \cup {NoFd}
    BY DEF Info
<1>2. ONLINE_STAT \subseteq Nat
    BY DEF ONLINE_STAT, ONLINE_STAT_NEW, ONLINE_STAT_ON, ONLINE_STAT_OFF
<1>3. Fds \subseteq Nat
    BY FdsAssumption
<1>4. QED
    BY <1>1, <1>2, <1>3

\* What encode prints has that shape.
LEMMA PrintedShape ==
    ASSUME NEW fd \in Fds, NEW info \in Info
    PROVE  \E c1, c2, c3, c4 \in Nat : RecordShape(Printed(fd, info), fd, info, c1, c2, c3, c4)
<1> DEFINE A == info.name  B == Decimal(fd)  C == Decimal(info.stat)  D == Decimal(info.vsfd)
           x1 == <<>> \o A \o <<SPR_CHAR_ATTR>>
           x2 == x1 \o B \o <<SPR_CHAR_ATTR>>
           x3 == x2 \o C \o <<SPR_CHAR_ATTR>>
           x4 == x3 \o D \o <<SPR_CHAR_ATTR>>
<1>1. Plain(A)
    BY DEF Info
<1>2. Plain(B) /\ Plain(C) /\ Plain(D)
    BY NumbersOfInfo, AtoiOfDecimal DEF Plain
<1>3. <<>> \in Seq(Char) /\ Len(<<>>) = 0
    OBVIOUS
<1>4. Printed(fd, info) = x4
  <2>1. <<>> \o A = A
      BY <1>1 DEF Plain
  <2>2. QED
      BY <2>1 DEF Printed
<1> HIDE DEF A, B, C, D
<1> DEFINE c1 == Len(x1)  c2 == Len(x2)  c3 == Len(x3)  c4 == Len(x4)
<1>5. FieldAdded(x1, <<>>, A)
    BY <1>1, <1>3, AddingAField
<1>6. FieldAdded(x2, x1, B)
  <2>1. x1 \in Seq(Char)
      BY <1>5 DEF FieldAdded
  <2>2. QED
      BY <1>2, <2>1, AddingAField
<1>7. FieldAdded(x3, x2, C)
  <2>1. x2 \in Seq(Char)
      BY <1>6 DEF FieldAdded
  <2>2. QED
      BY <1>2, <2>1, AddingAField
<1>8. FieldAdded(x4, x3, D)
  <2>1. x3 \in Seq(Char)
      BY <1>7 DEF FieldAdded
  <2>2. QED
      BY <1>2, <2>1, AddingAField
<1> HIDE DEF x1, x2, x3, x4
<1>9. /\ c1 \in Nat /\ c2 \in Nat /\ c3 \in Nat /\ c4 \in Nat
      /\ 1 <= c1 /\ c1 < c2 /\ c2 < c3 /\ c3 < c4
    BY <1>3, <1>5, <1>6, <1>7, <1>8 DEF FieldAdded
<1> HIDE DEF x4, c1, c2, c3, c4
<1>10. /\ \A i \in 1..c3 : x4[i] = x3[i]
       /\ \A i \in 1..c2 : x3[i] = x2[i]
       /\ \A i \in 1..c1 : x2[i] = x1[i]
    BY <1>6, <1>7, <1>8 DEF FieldAdded, c1, c2, c3
<1>11. x4[c1] = SPR_CHAR_ATTR /\ x4[c2] = SPR_CHAR_ATTR /\ x4[c3] = SPR_CHAR_ATTR
       /\ x4[c4] = SPR_CHAR_ATTR
  <2>1. x1[c1] = SPR_CHAR_ATTR /\ x2[c2] = SPR_CHAR_ATTR /\ x3[c3] = SPR_CHAR_ATTR
        /\ x4[c4] = SPR_CHAR_ATTR
      BY <1>5, <1>6, <1>7, <1>8 DEF FieldAdded, c1, c2, c3, c4
  <2>2. QED
      BY <1>9, <1>10, <2>1
<1>12. /\ \A i \in 1..(c1 - 1) : x1[i] \notin {SPR_CHAR_ITEM, SPR_CHAR_ATTR}
       /\ \A i \in (c1 + 1)..(c2 - 1) : x2[i] \notin {SPR_CHAR_ITEM, SPR_CHAR_ATTR}
       /\ \A i \in (c2 + 1)..(c3 - 1) : x3[i] \notin {SPR_CHAR_ITEM, SPR_CHAR_ATTR}
       /\ \A i \in (c3 + 1)..(c4 - 1) : x4[i] \notin {SPR_CHAR_ITEM, SPR_CHAR_ATTR}
  <2>1. \A i \in 1..(c1 - 1) : x1[i] \notin {SPR_CHAR_ITEM, SPR_CHAR_ATTR}
      BY <1>3, <1>5 DEF FieldAdded, c1
  <2>2. \A i \in (c1 + 1)..(c2 - 1) : x2[i] \notin {SPR_CHAR_ITEM, SPR_CHAR_ATTR}
      BY <1>6 DEF FieldAdded, c1, c2
  <2>3. \A i \in (c2 + 1)..(c3 - 1) : x3[i] \notin {SPR_CHAR_ITEM, SPR_CHAR_ATTR}
      BY <1>7 DEF FieldAdded, c2, c3
  <2>4. \A i \in (c3 + 1)..(c4 - 1) : x4[i] \notin {SPR_CHAR_ITEM, SPR_CHAR_ATTR}
      BY <1>8 DEF FieldAdded, c3, c4
  <2>5. QED
      BY <2>1, <2>2, <2>3, <2>4
<1>13. ASSUME NEW i \in 1..c4, i \notin {c1, c2, c3, c4}
       PROVE  x4[i] \notin {SPR_CHAR_ITEM, SPR_CHAR_ATTR}
  <2>1. CASE i < c1
    <3>1. i \in 1..(c1 - 1) /\ i \in 1..c1 /\ i \in 1..c2 /\ i \in 1..c3
        BY <1>9, <2>1
    <3>2. QED
        BY <1>10, <1>12, <3>1
  <2>2. CASE c1 < i /\ i < c2
    <3>1. i \in (c1 + 1)..(c2 - 1) /\ i \in 1..c2 /\ i \in 1..c3
        BY <1>9, <2>2
    <3>2. QED
        BY <1>10, <1>12, <3>1
  <2>3. CASE c2 < i /\ i < c3
    <3>1. i \in (c2 + 1)..(c3 - 1) /\ i \in 1..c3
        BY <1>9, <2>3
    <3>2. QED
        BY <1>10, <1>12, <3>1
  <2>4. CASE c3 < i /\ i < c4
    <3>1. i \in (c3 + 1)..(c4 - 1)
        BY <1>9, <2>4
    <3>2. QED
        BY <1>12, <3>1
  <2>5. QED
      BY <1>9, <1>13, <2>1, <2>2, <2>3, <2>4
<1>14. SubSeq(x4, 1, c1 - 1) = A /\ SubSeq(x4, c1 + 1, c2 - 1) = B
       /\ SubSeq(x4, c2 + 1, c3 - 1) = C /\ SubSeq(x4, c3 + 1, c4 - 1) = D
  <2>1. /\ \A i \in 1..(c3 + 1), j \in 0..c3 : SubSeq(x4, i, j) = SubSeq(x3, i, j)
        /\ \A i \in 1..(c2 + 1), j \in 0..c2 : SubSeq(x3, i, j) = SubSeq(x2, i, j)
        /\ \A i \in 1..(c1 + 1), j \in 0..c1 : SubSeq(x2, i, j) = SubSeq(x1, i, j)
      BY <1>6, <1>7, <1>8 DEF FieldAdded, c1, c2, c3
  <2>2. SubSeq(x1, 1, c1 - 1) = A /\ SubSeq(x2, c1 + 1, c2 - 1) = B
        /\ SubSeq(x3, c2 + 1, c3 - 1) = C /\ SubSeq(x4, c3 + 1, c4 - 1) = D
    <3>1. SubSeq(x1, Len(<<>>) + 1, c1 - 1) = A /\ Len(<<>>) + 1 = 1
        BY <1>5 DEF FieldAdded, c1
    <3>2. SubSeq(x2, c1 + 1, c2 - 1) = B
        BY <1>6 DEF FieldAdded, c1, c2
    <3>3. SubSeq(x3, c2 + 1, c3 - 1) = C
        BY <1>7 DEF FieldAdded, c2, c3
    <3>4. SubSeq(x4, c3 + 1, c4 - 1) = D
        BY <1>8 DEF FieldAdded, c3, c4
    <3>5. QED
        BY <3>1, <3>2, <3>3, <3>4
  <2>3. /\ 1 \in 1..(c1 + 1) /\ 1 \in 1..(c2 + 1) /\ 1 \in 1..(c3 + 1)
        /\ c1 + 1 \in 1..(c2 + 1) /\ c1 + 1 \in 1..(c3 + 1) /\ c2 + 1 \in 1..(c3 + 1)
      BY <1>9
  <2>4. /\ c1 - 1 \in 0..c1 /\ c1 - 1 \in 0..c2 /\ c1 - 1 \in 0..c3
        /\ c2 - 1 \in 0..c2 /\ c2 - 1 \in 0..c3 /\ c3 - 1 \in 0..c3
      BY <1>9
  <2>5. SubSeq(x4, 1, c1 - 1) = A
      BY <2>1, <2>2, <2>3, <2>4
  <2>6. SubSeq(x4, c1 + 1, c2 - 1) = B
      BY <2>1, <2>2, <2>3, <2>4
  <2>7. SubSeq(x4, c2 + 1, c3 - 1) = C
      BY <2>1, <2>2, <2>3, <2>4
  <2>8. QED
      BY <2>2, <2>5, <2>6, <2>7
<1>15. RecordShape(x4, fd, info, c1, c2, c3, c4)
  <2>1. c4 = Len(x4)
      BY DEF c4
  <2>2. \A i \in 1..Len(x4) : x4[i] = SPR_CHAR_ATTR <=> i \in {c1, c2, c3, c4}
      BY <1>11, <1>13, <2>1
  <2>3. \A i \in 1..Len(x4) : x4[i] # SPR_CHAR_ITEM
      BY <1>11, <1>13, <2>1, SeparatorsDiffer
  <2>4. x4 \in Seq(Char)
      BY <1>8 DEF FieldAdded
  <2>5. QED
      BY <1>9, <1>14, <2>1, <2>2, <2>3, <2>4 DEF RecordShape, A, B, C, D
<1>16. QED
    BY <1>4, <1>9, <1>15

\* What is left of a text from position n on.
End(s, n) == SubSeq(s, n, Len(s))

\* An end of a text, character by character.
LEMMA EndFacts ==
    ASSUME NEW s \in Seq(Char), NEW n \in 1..(Len(s) + 1)
    PROVE  /\ End(s, n) \in Seq(Char)
           /\ Len(End(s, n)) = Len(s) - n + 1
           /\ \A i \in 1..(Len(s) - n + 1) : End(s, n)[i] = s[n + i - 1]
<1>1. Len(s) \in Nat
    OBVIOUS
<1>2. QED
    BY <1>1 DEF End

\* A piece of an end is a piece of the text.
LEMMA SubSeqOfEnd ==
    ASSUME NEW s \in Seq(Char), NEW n \in 1..(Len(s) + 1),
           NEW i \in 1..(Len(s) - n + 2), NEW j \in 0..(Len(s) - n + 1)
    PROVE  SubSeq(End(s, n), i, j) = SubSeq(s, n + i - 1, n + j - 1)
<1> DEFINE t == End(s, n)  u == SubSeq(t, i, j)  v == SubSeq(s, n + i - 1, n + j - 1)
           m == IF i <= j THEN j - i + 1 ELSE 0
<1>1. /\ t \in Seq(Char) /\ Len(s) \in Nat /\ Len(t) = Len(s) - n + 1
      /\ \A k \in 1..Len(t) : t[k] = s[n + k - 1]
    BY EndFacts
<1> HIDE DEF t
<1>2. u \in Seq(Char) /\ Len(u) = m /\ \A k \in 1..m : u[k] = t[i + k - 1]
    BY <1>1
<1>3. v \in Seq(Char) /\ Len(v) = m /\ \A k \in 1..m : v[k] = s[n + i - 1 + k - 1]
    BY <1>1
<1>4. \A k \in 1..m : i + k - 1 \in 1..Len(t) /\ n + (i + k - 1) - 1 = n + i - 1 + k - 1
    BY <1>1
<1> HIDE DEF u, v, m
<1>5. \A k \in 1..m : u[k] = v[k]
    BY <1>1, <1>2, <1>3, <1>4
<1>6. u = v
    BY <1>2, <1>3, <1>5, SeqEqual
<1>7. QED
    BY <1>6 DEF u, v, t

\* An end of an end is an end.
LEMMA EndOfEnd ==
    ASSUME NEW s \in Seq(Char), NEW n \in 1..(Len(s) + 1), NEW k \in 1..(Len(s) - n + 2)
    PROVE  End(End(s, n), k) = End(s, n + k - 1)
<1>1. Len(s) \in Nat /\ Len(End(s, n)) = Len(s) - n + 1
    BY EndFacts
<1>2. Len(s) - n + 1 \in 0..(Len(s) - n + 1) /\ n + (Len(s) - n + 1) - 1 = Len(s)
    BY <1>1
<1>3. SubSeq(End(s, n), k, Len(s) - n + 1) = SubSeq(s, n + k - 1, n + (Len(s) - n + 1) - 1)
    BY <1>2, SubSeqOfEnd
<1>4. QED
    BY <1>1, <1>2, <1>3 DEF End

\* A record of that shape decodes to its entry.
LEMMA RecordDecoded ==
    ASSUME NEW fd \in Fds, NEW info \in Info, NEW r,
           NEW c1 \in Nat, NEW c2 \in Nat, NEW c3 \in Nat, NEW c4 \in Nat,
           RecordShape(r, fd, info, c1, c2, c3, c4)
    PROVE  /\ r \in Seq(Char)
           /\ Whole(r)
           /\ Decode(r) = [fd |-> fd, info |-> info]
<1>2. /\ r \in Seq(Char) /\ c1 \in 1..Len(r) /\ c2 \in 1..Len(r) /\ c3 \in 1..Len(r)
      /\ c4 \in 1..Len(r) /\ c1 < c2 /\ c2 < c3 /\ c3 < c4
      /\ \A i \in 1..Len(r) : r[i] = SPR_CHAR_ATTR <=> i \in {c1, c2, c3, c4}
  <2>1. /\ r \in Seq(Char) /\ Len(r) \in Nat
        /\ 1 <= c1 /\ c1 < c2 /\ c2 < c3 /\ c3 < c4 /\ c4 = Len(r)
        /\ \A i \in 1..Len(r) : r[i] = SPR_CHAR_ATTR <=> i \in {c1, c2, c3, c4}
      BY DEF RecordShape
  <2>2. QED
      BY <2>1
<1>3. /\ Whole(r)
      /\ Decode(r).fd = Atoi(SubSeq(r, c1 + 1, c2 - 1))
      /\ Decode(r).info = [name |-> SubSeq(r, 1, c1 - 1),
                           stat |-> Atoi(SubSeq(r, c2 + 1, c3 - 1)),
                           vsfd |-> Atoi(SubSeq(r, c3 + 1, c4 - 1))]
    BY <1>2, DecodeFields
<1>4. fd \in Nat \cup {NoFd} /\ info.stat \in Nat \cup {NoFd} /\ info.vsfd \in Nat \cup {NoFd}
    BY NumbersOfInfo
<1>5. Decode(r).fd = fd
    BY <1>3, <1>4, AtoiOfDecimal DEF RecordShape
<1>6. Decode(r).info = [name |-> info.name, stat |-> info.stat, vsfd |-> info.vsfd]
    BY <1>3, <1>4, AtoiOfDecimal DEF RecordShape
<1>7. Decode(r).info = info
    BY <1>6 DEF Info
<1>8. Decode(r) = [fd |-> Decode(r).fd, info |-> Decode(r).info]
    BY DEF Decode
<1>9. QED
    BY <1>2, <1>3, <1>5, <1>7, <1>8

\* decode undoes encode.
LEMMA PrintedDecoded ==
    ASSUME NEW fd \in Fds, NEW info \in Info
    PROVE  /\ Printed(fd, info) \in Seq(Char)
           /\ Whole(Printed(fd, info))
           /\ Decode(Printed(fd, info)) = [fd |-> fd, info |-> info]
BY PrintedShape, RecordDecoded

\* No end of the item r is the record of a descriptor that D does not have.
Harmless(r, D) ==
    \A n \in 1..(Len(r) + 1) : Whole(End(r, n)) => Decode(End(r, n)).fd \in D

\* An end of a harmless item is harmless.
LEMMA EndIsHarmless ==
    ASSUME NEW r \in Seq(Char), NEW D, Harmless(r, D), NEW n \in 1..(Len(r) + 1)
    PROVE  Harmless(End(r, n), D)
<1>1. Len(r) \in Nat /\ Len(End(r, n)) = Len(r) - n + 1
    BY EndFacts
<1>2. SUFFICES ASSUME NEW k \in 1..(Len(r) - n + 1 + 1), Whole(End(End(r, n), k))
               PROVE  Decode(End(End(r, n), k)).fd \in D
    BY <1>1 DEF Harmless
<1>3. k \in 1..(Len(r) - n + 2) /\ n + k - 1 \in 1..(Len(r) + 1)
    BY <1>1
<1>4. End(End(r, n), k) = End(r, n + k - 1)
    BY <1>3, EndOfEnd
<1>5. QED
    BY <1>2, <1>3, <1>4 DEF Harmless

\* A record cut at its front is either the record of the same descriptor or
\* none: its four commas are all that it has.
LEMMA PrintedIsHarmless ==
    ASSUME NEW fd \in Fds, NEW info \in Info, NEW D, fd \in D
    PROVE  Harmless(Printed(fd, info), D)
<1> DEFINE r == Printed(fd, info)
<1>1. PICK c1, c2, c3, c4 \in Nat : RecordShape(r, fd, info, c1, c2, c3, c4)
    BY PrintedShape
<1> HIDE DEF r
<1>2. /\ r \in Seq(Char) /\ Len(r) \in Nat
      /\ 1 <= c1 /\ c1 < c2 /\ c2 < c3 /\ c3 < c4 /\ c4 = Len(r)
      /\ \A i \in 1..Len(r) : r[i] = SPR_CHAR_ATTR <=> i \in {c1, c2, c3, c4}
      /\ SubSeq(r, c1 + 1, c2 - 1) = Decimal(fd)
    BY <1>1 DEF RecordShape
<1>3. SUFFICES ASSUME NEW n \in 1..(Len(r) + 1), Whole(End(r, n))
               PROVE  Decode(End(r, n)).fd = fd
    BY DEF Harmless, r
<1> DEFINE t == End(r, n)
<1>4. /\ t \in Seq(Char) /\ Len(t) = Len(r) - n + 1
      /\ \A i \in 1..Len(t) : t[i] = r[n + i - 1]
    BY <1>2, EndFacts, ZenonT(60)
<1>5. Whole(t)
    BY <1>3
<1>6. \A i \in 1..(Len(r) - n + 2), j \in 0..(Len(r) - n + 1) :
          SubSeq(t, i, j) = SubSeq(r, n + i - 1, n + j - 1)
    BY <1>2, SubSeqOfEnd
<1> HIDE DEF t
<1>7. PICK d1, d2, d3, d4 \in 1..Len(t) :
          /\ d1 < d2 /\ d2 < d3 /\ d3 < d4
          /\ \A d \in {d1, d2, d3, d4} : t[d] = SPR_CHAR_ATTR
    BY <1>4, <1>5, WholeHasFour
<1>8. ASSUME NEW d \in {d1, d2, d3, d4}
      PROVE  n + d - 1 \in {c1, c2, c3, c4}
  <2>1. t[d] = SPR_CHAR_ATTR /\ d \in 1..Len(t)
      BY <1>7
  <2>2. n + d - 1 \in 1..Len(r)
      BY <1>2, <1>4, <2>1
  <2>3. QED
      BY <1>2, <1>4, <2>1, <2>2
<1>9. n <= c1
  <2>1. n + d1 - 1 \in {c1, c2, c3, c4} /\ n + d2 - 1 \in {c1, c2, c3, c4}
        /\ n + d3 - 1 \in {c1, c2, c3, c4} /\ n + d4 - 1 \in {c1, c2, c3, c4}
      BY <1>8
  <2>2. d1 \in Nat /\ d2 \in Nat /\ d3 \in Nat /\ d4 \in Nat /\ 1 <= d1
      BY <1>2, <1>4, <1>7
  <2>3. n + d1 - 1 = c1
      BY <1>2, <1>7, <2>1, <2>2
  <2>4. QED
      BY <2>2, <2>3
<1> DEFINE e1 == c1 - n + 1  e2 == c2 - n + 1  e3 == c3 - n + 1  e4 == c4 - n + 1
<1>10. /\ e1 \in 1..Len(t) /\ e2 \in 1..Len(t) /\ e3 \in 1..Len(t) /\ e4 \in 1..Len(t)
       /\ e1 < e2 /\ e2 < e3 /\ e3 < e4
    BY <1>2, <1>4, <1>9
<1>11. ASSUME NEW i \in 1..Len(t)
       PROVE  t[i] = SPR_CHAR_ATTR <=> i \in {e1, e2, e3, e4}
  <2>1. t[i] = r[n + i - 1] /\ n + i - 1 \in 1..Len(r)
      BY <1>2, <1>4, SMTT(30)
  <2>2. n + i - 1 \in {c1, c2, c3, c4} <=> i \in {e1, e2, e3, e4}
      BY <1>2, <1>4
  <2>3. QED
      BY <1>2, <2>1, <2>2
<1>12. Decode(t).fd = Atoi(SubSeq(t, e1 + 1, e2 - 1))
  <2> HIDE DEF e1, e2, e3, e4
  <2>1. QED
      BY <1>4, <1>10, <1>11, DecodeFields
<1>13. SubSeq(t, e1 + 1, e2 - 1) = Decimal(fd)
  <2>1. /\ e1 + 1 \in 1..(Len(r) - n + 2) /\ e2 - 1 \in 0..(Len(r) - n + 1)
        /\ n + (e1 + 1) - 1 = c1 + 1 /\ n + (e2 - 1) - 1 = c2 - 1
      BY <1>2, <1>4, <1>9
  <2>2. SubSeq(t, e1 + 1, e2 - 1) = SubSeq(r, n + (e1 + 1) - 1, n + (e2 - 1) - 1)
      BY <1>6, <2>1
  <2>3. QED
      BY <1>2, <2>1, <2>2
<1>14. fd \in Nat \cup {NoFd}
    BY FdsAssumption
<1>15. QED
    BY <1>12, <1>13, <1>14, AtoiOfDecimal DEF t

-----------------------------------------------------------------------------
(* The items of a text.                                                     *)

\* A piece of a text, character by character.
LEMMA Window ==
    ASSUME NEW x \in Seq(Char), NEW i \in 1..(Len(x) + 1), NEW j \in (i - 1)..Len(x)
    PROVE  /\ SubSeq(x, i, j) \in Seq(Char)
           /\ Len(SubSeq(x, i, j)) = j - i + 1
           /\ \A h \in 1..(j - i + 1) : SubSeq(x, i, j)[h] = x[i + h - 1]
<1>1. Len(x) \in Nat
    OBVIOUS
<1>2. QED
    BY <1>1

\* The same characters at two places are the same text.
LEMMA SameWindow ==
    ASSUME NEW x \in Seq(Char), NEW i \in 1..(Len(x) + 1), NEW j \in (i - 1)..Len(x),
           NEW y \in Seq(Char), NEW k \in Int, 1 <= i + k, j + k <= Len(y),
           \A h \in i..j : x[h] = y[h + k]
    PROVE  SubSeq(x, i, j) = SubSeq(y, i + k, j + k)
<1> DEFINE u == SubSeq(x, i, j)  v == SubSeq(y, i + k, j + k)  m == j - i + 1
<1>1. Len(x) \in Nat /\ Len(y) \in Nat
    OBVIOUS
<1>2. u \in Seq(Char) /\ Len(u) = m /\ \A h \in 1..m : u[h] = x[i + h - 1]
    BY Window
<1>3. i + k \in 1..(Len(y) + 1) /\ j + k \in (i + k - 1)..Len(y) /\ (j + k) - (i + k) + 1 = m
    BY <1>1
<1>4. v \in Seq(Char) /\ Len(v) = m /\ \A h \in 1..m : v[h] = y[i + k + h - 1]
    BY <1>3, Window
<1>5. ASSUME NEW h \in 1..m
      PROVE  x[i + h - 1] = y[i + k + h - 1]
  <2>1. i + h - 1 \in i..j /\ (i + h - 1) + k = i + k + h - 1
      BY <1>1
  <2>2. QED
      BY <2>1
<1> HIDE DEF u, v, m
<1>6. \A h \in 1..m : u[h] = v[h]
    BY <1>2, <1>4, <1>5
<1>7. u = v
    BY <1>2, <1>4, <1>6, SeqEqual
<1>8. QED
    BY <1>7 DEF u, v

\* The item before the bar b begins behind q: there the text begins or
\* another item ends, and there is no bar between the two.
Begins(s, q, b) ==
    /\ q \in 0..(b - 1)
    /\ q # 0 => s[q] = SPR_CHAR_ITEM
    /\ \A i \in (q + 1)..(b - 1) : s[i] # SPR_CHAR_ITEM

\* Every item begins somewhere.
LEMMA ItemBegins ==
    ASSUME NEW s \in Seq(Char), NEW b \in Bars(s)
    PROVE  \E q \in 0..(b - 1) : Begins(s, q, b) /\ ItemAt(s, b) = SubSeq(s, q + 1, b - 1)
<1> DEFINE S == {0} \cup {a \in Bars(s) : a < b}
<1>1. b \in 1..Len(s) /\ Len(s) \in Nat
    BY DEF Bars
<1>2. b - 1 \in Nat /\ S \in SUBSET (0..(b - 1)) /\ S # {}
    BY <1>1 DEF Bars
<1>3. Max(S) \in S /\ \A k \in S : k <= Max(S)
  <2> HIDE DEF S
  <2>1. QED
      BY <1>2, MaxIsGreatest
<1> DEFINE q == Max(S)
<1>4. ItemAt(s, b) = SubSeq(s, q + 1, b - 1)
    BY DEF ItemAt
<1> HIDE DEF q
<1>5. q \in 0..(b - 1) /\ (q # 0 => s[q] = SPR_CHAR_ITEM)
    BY <1>1, <1>2, <1>3 DEF Bars, q
<1>6. ASSUME NEW i \in (q + 1)..(b - 1)
      PROVE  s[i] # SPR_CHAR_ITEM
  <2>1. i \in 1..Len(s) /\ i < b /\ q < i
      BY <1>1, <1>5
  <2>2. s[i] = SPR_CHAR_ITEM => i \in S
      BY <2>1 DEF Bars
  <2>3. i \notin S
    <3>1. i \in S => i <= q
        BY <1>3 DEF q
    <3>2. QED
        BY <1>5, <2>1, <3>1
  <2>4. QED
      BY <2>2, <2>3
<1>7. QED
    BY <1>4, <1>5, <1>6 DEF Begins

\* It begins in one place only.
LEMMA ItemFrom ==
    ASSUME NEW s \in Seq(Char), NEW b \in Bars(s), NEW q, Begins(s, q, b)
    PROVE  ItemAt(s, b) = SubSeq(s, q + 1, b - 1)
<1>1. PICK p \in 0..(b - 1) : Begins(s, p, b) /\ ItemAt(s, b) = SubSeq(s, p + 1, b - 1)
    BY ItemBegins
<1>2. b \in Nat
    BY DEF Bars
<1>3. p = q
  <2>1. ~(p < q)
      BY <1>1, <1>2 DEF Begins
  <2>2. ~(q < p)
      BY <1>1, <1>2 DEF Begins
  <2>3. q \in Int /\ p \in Int
      BY <1>1, <1>2 DEF Begins
  <2>4. QED
      BY <2>1, <2>2, <2>3
<1>4. QED
    BY <1>1, <1>3

\* An item is a text.
LEMMA ItemType ==
    ASSUME NEW s \in Seq(Char), NEW b \in Bars(s)
    PROVE  ItemAt(s, b) \in Seq(Char)
<1>1. PICK q \in 0..(b - 1) : ItemAt(s, b) = SubSeq(s, q + 1, b - 1)
    BY ItemBegins
<1>2. b \in 1..Len(s) /\ Len(s) \in Nat
    BY DEF Bars
<1>3. q + 1 \in 1..(Len(s) + 1) /\ b - 1 \in (q + 1 - 1)..Len(s)
    BY <1>2
<1>4. QED
    BY <1>1, <1>3, Window

\* Text in which every item has ended.
Closed(s) == s \in Seq(Char) /\ (s # <<>> => s[Len(s)] = SPR_CHAR_ITEM)

\* Text behind a closed text keeps its items, and changes none of the others.
LEMMA ItemsOfConcat ==
    ASSUME NEW X, Closed(X), NEW T \in Seq(Char)
    PROVE  /\ X \o T \in Seq(Char)
           /\ Bars(X \o T) = Bars(X) \cup {Len(X) + b : b \in Bars(T)}
           /\ \A b \in Bars(X) : ItemAt(X \o T, b) = ItemAt(X, b)
           /\ \A b \in Bars(T) : ItemAt(X \o T, Len(X) + b) = ItemAt(T, b)
<1> DEFINE s == X \o T  n == Len(X)
<1>1. /\ X \in Seq(Char) /\ n \in Nat /\ Len(T) \in Nat
      /\ s \in Seq(Char) /\ Len(s) = n + Len(T)
      /\ \A i \in 1..n : s[i] = X[i]
      /\ \A i \in 1..Len(T) : s[n + i] = T[i]
    BY DEF Closed
<1> HIDE DEF s
<1>2. n # 0 => X[n] = SPR_CHAR_ITEM
    BY <1>1 DEF Closed
<1> HIDE DEF n
<1>3. n = Len(X)
    BY DEF n
<1>4. ASSUME NEW b \in Bars(X)
      PROVE  b \in Bars(s) /\ ItemAt(s, b) = ItemAt(X, b)
  <2>1. b \in 1..n /\ X[b] = SPR_CHAR_ITEM
      BY <1>3 DEF Bars
  <2>2. b \in Bars(s)
      BY <1>1, <2>1 DEF Bars
  <2>3. PICK q \in 0..(b - 1) : Begins(X, q, b) /\ ItemAt(X, b) = SubSeq(X, q + 1, b - 1)
      BY <1>1, ItemBegins
  <2>4. Begins(s, q, b)
      BY <1>1, <2>1, <2>3, SMTT(30) DEF Begins
  <2>5. ItemAt(s, b) = SubSeq(s, q + 1, b - 1)
      BY <1>1, <2>2, <2>4, ItemFrom
  <2>6. SubSeq(X, q + 1, b - 1) = SubSeq(s, q + 1 + 0, b - 1 + 0)
    <3>1. /\ q + 1 \in 1..(Len(X) + 1) /\ b - 1 \in (q + 1 - 1)..Len(X) /\ 0 \in Int
          /\ 1 <= q + 1 + 0 /\ b - 1 + 0 <= Len(s)
        BY <1>1, <1>3, <2>1
    <3>2. \A h \in (q + 1)..(b - 1) : X[h] = s[h + 0]
        BY <1>1, <2>1
    <3>3. QED
        BY <1>1, <3>1, <3>2, SameWindow
  <2>7. q + 1 + 0 = q + 1 /\ b - 1 + 0 = b - 1
      BY <2>1
  <2>8. QED
      BY <2>2, <2>3, <2>5, <2>6, <2>7
<1>5. ASSUME NEW b \in Bars(T)
      PROVE  n + b \in Bars(s) /\ ItemAt(s, n + b) = ItemAt(T, b)
  <2>1. b \in 1..Len(T) /\ T[b] = SPR_CHAR_ITEM
      BY DEF Bars
  <2>2. PICK q \in 0..(b - 1) : Begins(T, q, b) /\ ItemAt(T, b) = SubSeq(T, q + 1, b - 1)
      BY ItemBegins
  <2> DEFINE c == n + b  p == n + q
  <2>3. c \in 1..Len(s) /\ p \in 0..(c - 1) /\ c - n = b /\ p - n = q /\ p \in Int /\ c \in Int
      BY <1>1, <2>1
  <2>4. s[c] = SPR_CHAR_ITEM
      BY <1>1, <2>1
  <2>5. p # 0 => s[p] = SPR_CHAR_ITEM
    <3>1. CASE q = 0
      <4>1. p # 0 => n \in 1..n /\ n # 0 /\ p = n
          BY <1>1, <3>1
      <4>2. QED
          BY <1>1, <1>2, <4>1
    <3>2. CASE q # 0
      <4>1. T[q] = SPR_CHAR_ITEM /\ q \in 1..Len(T)
          BY <2>1, <2>2, <3>2 DEF Begins
      <4>2. QED
          BY <1>1, <4>1
    <3>3. QED
        BY <3>1, <3>2
  <2> HIDE DEF c, p
  <2>6. ASSUME NEW i \in (p + 1)..(c - 1)
        PROVE  s[i] # SPR_CHAR_ITEM
    <3>1. i - n \in (q + 1)..(b - 1) /\ i - n \in 1..Len(T) /\ n + (i - n) = i
        BY <1>1, <2>1, <2>3
    <3>2. T[i - n] # SPR_CHAR_ITEM /\ s[i] = T[i - n]
        BY <1>1, <2>2, <3>1 DEF Begins
    <3>3. QED
        BY <3>2
  <2>7. c \in Bars(s) /\ Begins(s, p, c)
      BY <2>3, <2>4, <2>5, <2>6 DEF Bars, Begins
  <2>8. ItemAt(s, c) = SubSeq(s, p + 1, c - 1)
      BY <1>1, <2>7, ItemFrom
  <2> DEFINE i == p + 1  j == c - 1
  <2>9. /\ i \in 1..(Len(s) + 1) /\ j \in (i - 1)..Len(s) /\ 0 - n \in Int
        /\ 1 <= i + (0 - n) /\ j + (0 - n) <= Len(T) /\ i + (0 - n) = q + 1 /\ j + (0 - n) = b - 1
      BY <1>1, <2>1, <2>3
  <2>10. ASSUME NEW h \in i..j
         PROVE  s[h] = T[h + (0 - n)]
    <3>1. h + (0 - n) \in 1..Len(T) /\ n + (h + (0 - n)) = h
        BY <1>1, <2>1, <2>3
    <3>2. QED
        BY <1>1, <3>1
  <2>11. SubSeq(s, i, j) = SubSeq(T, i + (0 - n), j + (0 - n))
    <3> HIDE DEF i, j
    <3>1. QED
        BY <1>1, <2>9, <2>10, SameWindow
  <2>12. ItemAt(s, c) = ItemAt(T, b)
      BY <2>2, <2>8, <2>9, <2>11
  <2>13. QED
      BY <2>7, <2>12 DEF c
<1>6. ASSUME NEW c \in Bars(s)
      PROVE  c \in Bars(X) \cup {n + b : b \in Bars(T)}
  <2>1. c \in 1..(n + Len(T)) /\ s[c] = SPR_CHAR_ITEM
      BY <1>1 DEF Bars
  <2>2. CASE c <= n
    <3>1. c \in 1..n
        BY <1>1, <2>1, <2>2
    <3>2. QED
        BY <1>1, <1>3, <2>1, <3>1 DEF Bars
  <2>3. CASE c > n
    <3>1. c - n \in 1..Len(T) /\ n + (c - n) = c
        BY <1>1, <2>1, <2>3
    <3>2. c - n \in Bars(T)
        BY <1>1, <2>1, <3>1 DEF Bars
    <3>3. QED
        BY <3>1, <3>2
  <2>4. QED
      BY <1>1, <2>1, <2>2, <2>3
<1>7. Bars(s) = Bars(X) \cup {n + b : b \in Bars(T)}
    BY <1>4, <1>5, <1>6
<1>8. QED
    BY <1>1, <1>4, <1>5, <1>7 DEF s, n

\* However much of its front is overwritten, a text whose items are all
\* harmless shows no record of a descriptor that D does not have.
Familiar(s, D) == \A b \in Bars(s) : Harmless(ItemAt(s, b), D)

\* The items of the end of a text are items of the text, the first perhaps cut.
LEMMA ItemsOfEnd ==
    ASSUME NEW s \in Seq(Char), NEW n \in 1..(Len(s) + 1), NEW b \in Bars(End(s, n))
    PROVE  /\ n + b - 1 \in Bars(s)
           /\ \E k \in 1..(Len(ItemAt(s, n + b - 1)) + 1) :
                 ItemAt(End(s, n), b) = End(ItemAt(s, n + b - 1), k)
<1> DEFINE t == End(s, n)  c == n + b - 1
<1>1. /\ t \in Seq(Char) /\ Len(s) \in Nat /\ Len(t) = Len(s) - n + 1
      /\ \A i \in 1..Len(t) : t[i] = s[n + i - 1]
  <2>1. /\ t \in Seq(Char) /\ Len(t) = Len(s) - n + 1
        /\ \A i \in 1..(Len(s) - n + 1) : t[i] = s[n + i - 1]
      BY EndFacts
  <2> HIDE DEF t
  <2>2. QED
      BY <2>1
<1>2. b \in 1..Len(t) /\ t[b] = SPR_CHAR_ITEM
    BY DEF Bars
<1>3. \A i \in 1..(Len(s) - n + 2), j \in 0..(Len(s) - n + 1) :
          SubSeq(t, i, j) = SubSeq(s, n + i - 1, n + j - 1)
    BY SubSeqOfEnd
<1>4. PICK q \in 0..(b - 1) : Begins(t, q, b) /\ ItemAt(t, b) = SubSeq(t, q + 1, b - 1)
    BY <1>1, ItemBegins
<1> HIDE DEF t
<1>5. c \in 1..Len(s) /\ s[c] = SPR_CHAR_ITEM /\ c \in Int /\ c - n + 1 = b
    BY <1>1, <1>2
<1> HIDE DEF c
<1>6. c \in Bars(s)
    BY <1>5 DEF Bars
<1>7. PICK p \in 0..(c - 1) : Begins(s, p, c) /\ ItemAt(s, c) = SubSeq(s, p + 1, c - 1)
    BY <1>6, ItemBegins
<1>8. p <= n + q - 1
  <2>1. SUFFICES ASSUME p > n + q - 1 PROVE FALSE
      BY <1>1, <1>2, <1>5
  <2>2. p \in 1..Len(s) /\ s[p] = SPR_CHAR_ITEM
      BY <1>1, <1>5, <1>7, <2>1 DEF Begins
  <2>3. p - n + 1 \in (q + 1)..(b - 1) /\ p - n + 1 \in 1..Len(t) /\ n + (p - n + 1) - 1 = p
      BY <1>1, <1>2, <1>5, <2>1
  <2>4. t[p - n + 1] = s[p]
      BY <1>1, <2>3
  <2>5. QED
      BY <1>4, <2>2, <2>3, <2>4 DEF Begins
<1>9. ItemAt(t, b) = SubSeq(s, n + q, c - 1)
  <2>1. q + 1 \in 1..(Len(s) - n + 2) /\ b - 1 \in 0..(Len(s) - n + 1)
        /\ n + (q + 1) - 1 = n + q /\ n + (b - 1) - 1 = c - 1
      BY <1>1, <1>2, <1>5
  <2>2. QED
      BY <1>3, <1>4, <2>1
<1> DEFINE r == ItemAt(s, c)  k == n + q - p
<1>10. /\ r \in Seq(Char) /\ Len(r) = c - p - 1
       /\ \A h \in 1..(c - p - 1) : r[h] = s[p + h]
  <2>1. p + 1 \in 1..(Len(s) + 1) /\ c - 1 \in (p + 1 - 1)..Len(s) /\ (c - 1) - (p + 1) + 1 = c - p - 1
      BY <1>1, <1>5
  <2>2. \A h \in 1..(c - p - 1) : p + 1 + h - 1 = p + h
      BY <1>5
  <2>3. QED
      BY <1>7, <2>1, <2>2, Window
<1> HIDE DEF r
<1>11. k \in 1..(Len(r) + 1) /\ k \in Int /\ k + p = n + q
    BY <1>1, <1>2, <1>5, <1>8, <1>10
<1> HIDE DEF k
<1>12. SubSeq(r, k, Len(r)) = SubSeq(s, k + p, Len(r) + p)
  <2>1. Len(r) \in (k - 1)..Len(r) /\ p \in Int /\ 1 <= k + p /\ Len(r) + p <= Len(s)
      BY <1>1, <1>5, <1>10, <1>11
  <2>2. \A h \in k..Len(r) : r[h] = s[h + p]
    <3>1. \A h \in k..Len(r) : h \in 1..(c - p - 1) /\ h + p = p + h
        BY <1>5, <1>10, <1>11
    <3>2. QED
        BY <1>10, <3>1
  <2>3. QED
      BY <1>10, <1>11, <2>1, <2>2, SameWindow
<1>13. ItemAt(t, b) = End(r, k)
  <2>1. Len(r) + p = c - 1
      BY <1>5, <1>10
  <2>2. QED
      BY <1>9, <1>11, <1>12, <2>1 DEF End
<1>14. QED
    BY <1>6, <1>11, <1>13 DEF t, c, r

\* Cutting a text at its front keeps it familiar.
LEMMA EndIsFamiliar ==
    ASSUME NEW s \in Seq(Char), NEW D, Familiar(s, D), NEW n \in 1..(Len(s) + 1)
    PROVE  Familiar(End(s, n), D)
<1>1. SUFFICES ASSUME NEW b \in Bars(End(s, n))
               PROVE  Harmless(ItemAt(End(s, n), b), D)
    BY DEF Familiar
<1> DEFINE r == ItemAt(s, n + b - 1)
<1>2. /\ n + b - 1 \in Bars(s)
      /\ \E k \in 1..(Len(r) + 1) : ItemAt(End(s, n), b) = End(r, k)
    BY ItemsOfEnd
<1>3. Harmless(r, D) /\ r \in Seq(Char)
    BY <1>2, ItemType DEF Familiar
<1> HIDE DEF r
<1>4. QED
    BY <1>2, <1>3, EndIsHarmless

\* So does putting a closed text in front of it.
LEMMA ConcatIsFamiliar ==
    ASSUME NEW X, Closed(X), NEW T \in Seq(Char), NEW D, Familiar(X, D), Familiar(T, D)
    PROVE  Familiar(X \o T, D)
<1>1. /\ Bars(X \o T) = Bars(X) \cup {Len(X) + b : b \in Bars(T)}
      /\ \A b \in Bars(X) : ItemAt(X \o T, b) = ItemAt(X, b)
      /\ \A b \in Bars(T) : ItemAt(X \o T, Len(X) + b) = ItemAt(T, b)
    BY ItemsOfConcat
<1>2. \A b \in Bars(X) : Harmless(ItemAt(X \o T, b), D)
    BY <1>1 DEF Familiar
<1>3. \A b \in Bars(T) : Harmless(ItemAt(X \o T, Len(X) + b), D)
    BY <1>1 DEF Familiar
<1>4. QED
    BY <1>1, <1>2, <1>3 DEF Familiar

\* A text that is familiar is so for more descriptors.
LEMMA MoreIsFamiliar ==
    ASSUME NEW s, NEW D, NEW E, D \subseteq E, Familiar(s, D)
    PROVE  Familiar(s, E)
BY DEF Familiar, Harmless

\* A harmless item that decodes decodes to a descriptor of D.
LEMMA FamiliarRecords ==
    ASSUME NEW s \in Seq(Char), NEW D, Familiar(s, D), NEW b \in Bars(s), Whole(ItemAt(s, b))
    PROVE  Decode(ItemAt(s, b)).fd \in D
<1> DEFINE r == ItemAt(s, b)
<1>1. r \in Seq(Char) /\ Harmless(r, D)
    BY ItemType DEF Familiar
<1>2. Whole(r)
    OBVIOUS
<1> HIDE DEF r
<1>3. 1 \in 1..(Len(r) + 1) /\ End(r, 1) = r
    BY <1>1, SubSeqFull DEF End
<1>4. Decode(End(r, 1)).fd \in D
    BY <1>1, <1>2, <1>3 DEF Harmless
<1>5. QED
    BY <1>3, <1>4 DEF r

-----------------------------------------------------------------------------
(* The text of a map.                                                       *)

\* No record is cut by encode's buffer.
RecordsFit == \A fd \in Fds, info \in OnlineInfo : Len(Printed(fd, info)) < TmpSize

\* A map whose names may be others than those of Names.
IsPlainMap(m) == DOMAIN m \subseteq Fds /\ m \in [DOMAIN m -> Info]

\* What is a map of players is such a map.
LEMMA OnlineMapIsPlain ==
    ASSUME NEW m, IsOnlineMap(m)
    PROVE  IsPlainMap(m)
BY NamesArePlain DEF IsOnlineMap, IsPlainMap

\* What encode writes of an entry is text without a bar, the printed record or
\* its front.
LEMMA Encoded ==
    ASSUME NEW fd \in Fds, NEW info \in Info
    PROVE  /\ Encode(fd, info) \in Seq(Char)
           /\ \A i \in 1..Len(Encode(fd, info)) : Encode(fd, info)[i] # SPR_CHAR_ITEM
           /\ Len(Encode(fd, info)) < TmpSize
           /\ Len(Printed(fd, info)) < TmpSize => Encode(fd, info) = Printed(fd, info)
           /\ ~(Len(Printed(fd, info)) < TmpSize) =>
                 /\ TmpSize - 1 \in 0..(Len(Printed(fd, info)) - 1)
                 /\ Encode(fd, info) = SubSeq(Printed(fd, info), 1, TmpSize - 1)
<1> DEFINE r == Printed(fd, info)  e == Encode(fd, info)
<1>1. r \in Seq(Char) /\ Len(r) \in Nat /\ \A i \in 1..Len(r) : r[i] # SPR_CHAR_ITEM
  <2>1. PICK c1, c2, c3, c4 \in Nat : RecordShape(Printed(fd, info), fd, info, c1, c2, c3, c4)
      BY PrintedShape
  <2>2. QED
      BY <2>1 DEF RecordShape
<1>2. e = IF Len(r) < TmpSize THEN r ELSE SubSeq(r, 1, TmpSize - 1)
    BY DEF Encode
<1> HIDE DEF r, e
<1>3. CASE Len(r) < TmpSize
    BY <1>1, <1>2, <1>3 DEF r, e
<1>4. CASE ~(Len(r) < TmpSize)
  <2>1. TmpSize - 1 \in 0..(Len(r) - 1) /\ TmpSize \in Nat
      BY <1>1, <1>4, TmpSizeAssumption
  <2>2. e = SubSeq(r, 1, TmpSize - 1)
      BY <1>2, <1>4
  <2>3. e \in Seq(Char) /\ Len(e) = TmpSize - 1 /\ \A i \in 1..(TmpSize - 1) : e[i] = r[i]
      BY <1>1, <2>1, <2>2, Window
  <2>4. \A i \in 1..Len(e) : e[i] # SPR_CHAR_ITEM
      BY <1>1, <2>1, <2>3
  <2>5. Len(e) < TmpSize
      BY <2>1, <2>3
  <2>6. QED
      BY <1>4, <2>1, <2>2, <2>3, <2>4, <2>5 DEF r, e
<1>5. QED
    BY <1>3, <1>4

\* One record and its bar.
LEMMA OneItem ==
    ASSUME NEW r \in Seq(Char), \A i \in 1..Len(r) : r[i] # SPR_CHAR_ITEM,
           NEW t, t = r \o <<SPR_CHAR_ITEM>>
    PROVE  /\ Closed(t) /\ Len(t) = Len(r) + 1
           /\ Bars(t) = {Len(r) + 1}
           /\ ItemAt(t, Len(r) + 1) = r
<1> DEFINE c == SPR_CHAR_ITEM  n == Len(r)
<1>1. c \in Char /\ n \in Nat
    BY DEF Char
<1>2. /\ t \in Seq(Char) /\ Len(t) = n + 1 /\ t[n + 1] = c
      /\ \A i \in 1..n : t[i] = r[i]
  <2> HIDE DEF c
  <2>1. t = r \o <<c>>
      BY DEF c
  <2>2. QED
      BY <1>1, <2>1
<1>3. Bars(t) = {n + 1}
  <2>1. \A i \in 1..(n + 1) : t[i] = c <=> i = n + 1
      BY <1>1, <1>2
  <2>2. QED
      BY <1>1, <1>2, <2>1 DEF Bars
<1>4. Begins(t, 0, n + 1)
    BY <1>1, <1>2 DEF Begins
<1>5. ItemAt(t, n + 1) = SubSeq(t, 0 + 1, n + 1 - 1)
  <2> DEFINE b == n + 1  q == 0
  <2>1. b \in Bars(t) /\ Begins(t, q, b)
      BY <1>3, <1>4
  <2>2. ItemAt(t, b) = SubSeq(t, q + 1, b - 1)
    <3> HIDE DEF b, q
    <3>1. QED
        BY <1>2, <2>1, ItemFrom
  <2>3. QED
      BY <2>2
<1>6. SubSeq(t, 1, n) = r
  <2>1. 1 \in 1..(Len(t) + 1) /\ n \in (1 - 1)..Len(t) /\ 0 \in Int /\ 1 <= 1 + 0 /\ n + 0 <= Len(r)
        /\ 1 + 0 = 1 /\ n + 0 = n
      BY <1>1, <1>2
  <2>2. \A h \in 1..n : t[h] = r[h + 0]
      BY <1>1, <1>2
  <2>3. SubSeq(t, 1, n) = SubSeq(r, 1 + 0, n + 0)
      BY <1>2, <2>1, <2>2, SameWindow
  <2>4. SubSeq(r, 1, n) = r
      BY SubSeqFull
  <2>5. QED
      BY <2>1, <2>3, <2>4
<1>7. ItemAt(t, n + 1) = r
    BY <1>1, <1>5, <1>6
<1>8. t # <<>> /\ t[Len(t)] = SPR_CHAR_ITEM
    BY <1>1, <1>2
<1>9. QED
    BY <1>2, <1>3, <1>7, <1>8 DEF Closed

\* The text s holds the map m: the bar end[f] closes the record of the entry
\* f, in the order of the keys, and there is nothing else in it.
Holds(s, m, end) ==
    /\ Closed(s)
    /\ end \in [DOMAIN m -> Bars(s)]
    /\ \A b \in Bars(s) : \E f \in DOMAIN m : b = end[f]
    /\ \A f, g \in DOMAIN m : f < g => end[f] < end[g]
    /\ \A f \in DOMAIN m : ItemAt(s, end[f]) = Encode(f, m[f])

\* What calOnlineShmatBuffer writes holds the map, record by record.
LEMMA ContentHolds ==
    ASSUME NEW m, IsPlainMap(m), IsFiniteSet(DOMAIN m)
    PROVE  \E end : Holds(Content(m), m, end)
<1> DEFINE D == DOMAIN m  key == InOrder(D)  n == Cardinality(D)
           rec(k) == Encode(key[k], m[key[k]])
           ss == [k \in 1..n |-> rec(k) \o <<SPR_CHAR_ITEM>>]
<1>1. D \in SUBSET Nat /\ D \subseteq Fds /\ \A f \in D : m[f] \in Info
    BY FdsAssumption DEF IsPlainMap
<1>2. /\ n \in Nat /\ key \in [1..n -> D]
      /\ \A k \in 1..n : Rank(D, key[k]) = k - 1
      /\ \A f \in D : Rank(D, f) + 1 \in 1..n /\ key[Rank(D, f) + 1] = f
  <2> HIDE DEF D
  <2>1. IsFiniteSet(D)
      BY DEF D
  <2>2. QED
      BY <1>1, <2>1, InOrderEnumerates
<1>3. ASSUME NEW k \in 1..n
      PROVE  /\ rec(k) \in Seq(Char) /\ \A i \in 1..Len(rec(k)) : rec(k)[i] # SPR_CHAR_ITEM
  <2> DEFINE fd == key[k]  info == m[fd]
  <2>1. fd \in Fds /\ info \in Info
    <3> HIDE DEF D, key, n
    <3>1. key[k] \in D
        BY <1>2
    <3>2. QED
        BY <1>1, <3>1
  <2> HIDE DEF fd, info
  <2>2. QED
      BY <2>1, Encoded DEF fd, info
<1>4. Content(m) = FlattenSeq(ss)
  <2>1. DOMAIN key = 1..n
    <3> HIDE DEF key, n, D
    <3>1. QED
        BY <1>2
  <2>2. Content(m) = FlattenSeq([k \in DOMAIN key |-> Encode(key[k], m[key[k]]) \o <<SPR_CHAR_ITEM>>])
      BY DEF Content
  <2>3. [k \in DOMAIN key |-> Encode(key[k], m[key[k]]) \o <<SPR_CHAR_ITEM>>] = ss
    <3> HIDE DEF key, n
    <3>1. QED
        BY <2>1
  <2>4. QED
      BY <2>2, <2>3
<1>5. \A k \in 1..n : ss[k] = rec(k) \o <<SPR_CHAR_ITEM>>
    OBVIOUS
<1>6. ss \in [1..n -> Seq(Char)]
  <2> HIDE DEF n, rec
  <2>1. \A k \in 1..n : rec(k) \o <<SPR_CHAR_ITEM>> \in Seq(Char)
    <3>1. ASSUME NEW k \in 1..n PROVE rec(k) \o <<SPR_CHAR_ITEM>> \in Seq(Char)
        BY <1>3, OneItem DEF Closed
    <3>2. QED
        BY <3>1
  <2>2. QED
      BY <2>1
<1> HIDE DEF ss, rec
<1>7. PICK F \in [0..n -> Seq(Char)] : Flattened(F, n, ss)
  <2> HIDE DEF n
  <2>1. QED
      BY <1>2, <1>6, FlattenSteps
<1> HIDE DEF n, key, D
<1>f. F[0] = <<>> /\ (\A k \in 1..n : F[k] = F[k - 1] \o ss[k]) /\ FlattenSeq(ss) = F[n]
    BY <1>7 DEF Flattened
<1> DEFINE L(k) == Len(F[k])
           Good(k) == /\ Closed(F[k])
                      /\ Bars(F[k]) = {L(j) : j \in 1..k}
                      /\ \A j \in 1..k : ItemAt(F[k], L(j)) = rec(j)
                      /\ \A j \in 0..(k - 1) : L(j) < L(k)
           T == {k \in 0..n : Good(k)}
<1>8. 0 \in T
  <2>1. Len(F[0]) = 0 /\ 0 \in 0..n
      BY <1>2, <1>f
  <2>2. Closed(F[0])
      BY <1>f DEF Closed
  <2>3. Bars(F[0]) = {} /\ 1..0 = {} /\ 0..(0 - 1) = {}
      BY <2>1 DEF Bars
  <2>4. QED
      BY <2>1, <2>2, <2>3
<1>9. ASSUME NEW k \in 0..(n - 1), k \in T
      PROVE  k + 1 \in T
  <2> DEFINE X == F[k]  r == rec(k + 1)  t == ss[k + 1]  Y == F[k + 1]
  <2>1. k + 1 \in 1..n /\ (k + 1) - 1 = k /\ k \in 0..n /\ k + 1 \in 0..n
      BY <1>2
  <2>2. Good(k)
      BY <1>9
  <2>3. Y = X \o t
      BY <1>f, <2>1
  <2>4. /\ Closed(t) /\ Len(t) = Len(r) + 1 /\ Bars(t) = {Len(r) + 1}
        /\ ItemAt(t, Len(r) + 1) = r
      BY <1>3, <1>5, <2>1, OneItem
  <2>5. r \in Seq(Char) /\ Len(r) \in Nat
      BY <1>3, <2>1
  <2> HIDE DEF r, t
  <2>6. /\ Closed(X) /\ X \in Seq(Char) /\ Len(X) \in Nat /\ t \in Seq(Char) /\ Y \in Seq(Char)
        /\ Len(Y) = Len(X) + Len(t)
    <3>1. X \in Seq(Char) /\ t \in Seq(Char)
        BY <1>7, <2>1, <2>4 DEF Closed
    <3>2. QED
        BY <2>2, <2>3, <3>1
  <2>7. /\ Bars(Y) = Bars(X) \cup {Len(X) + b : b \in Bars(t)}
        /\ \A b \in Bars(X) : ItemAt(Y, b) = ItemAt(X, b)
        /\ \A b \in Bars(t) : ItemAt(Y, Len(X) + b) = ItemAt(t, b)
      BY <2>3, <2>6, ItemsOfConcat
  <2>8. Len(Y) = Len(X) + (Len(r) + 1) /\ Len(X) < Len(Y)
    <3> HIDE DEF X, Y
    <3>1. QED
        BY <2>4, <2>5, <2>6
  <2>9. Bars(Y) = Bars(X) \cup {Len(Y)}
      BY <2>4, <2>7, <2>8
  <2>10. Closed(Y)
    <3>1. Len(Y) \in Bars(Y)
        BY <2>9
    <3>2. QED
        BY <2>6, <3>1 DEF Closed, Bars
  <2>11. ItemAt(Y, Len(Y)) = r
      BY <2>4, <2>7, <2>8
  <2>12. \A j \in 1..(k + 1) : j \in 1..k \/ j = k + 1
      BY <2>1
  <2>13. \A j \in 1..k : ItemAt(Y, L(j)) = rec(j)
    <3>1. \A j \in 1..k : L(j) \in Bars(X)
        BY <2>2
    <3>2. QED
        BY <2>2, <2>7, <3>1
  <2>14. \A j \in 1..(k + 1) : ItemAt(Y, L(j)) = rec(j)
      BY <2>11, <2>12, <2>13 DEF r
  <2>15. Bars(Y) = {L(j) : j \in 1..(k + 1)}
    <3>1. 1..(k + 1) = (1..k) \cup {k + 1}
        BY <2>1
    <3>2. {L(j) : j \in 1..(k + 1)} = {L(j) : j \in 1..k} \cup {L(k + 1)}
      <4> HIDE DEF L
      <4>1. QED
          BY <3>1
    <3>3. QED
        BY <2>2, <2>9, <3>2
  <2>16. \A j \in 0..((k + 1) - 1) : L(j) < L(k + 1)
    <3>1. ASSUME NEW j \in 0..k PROVE L(j) < L(k + 1)
      <4>1. CASE j = k
          BY <2>8, <4>1
      <4>2. CASE j # k
        <5>1. j \in 0..(k - 1) /\ j \in 0..n
            BY <1>2, <2>1, <4>2
        <5>2. L(j) < L(k) /\ L(j) \in Nat
            BY <1>7, <2>2, <5>1
        <5>3. QED
            BY <2>6, <2>8, <5>2
      <4>3. QED
          BY <4>1, <4>2
    <3>2. QED
        BY <2>1, <3>1
  <2>17. Good(k + 1)
      BY <2>10, <2>14, <2>15, <2>16
  <2>18. QED
      BY <2>1, <2>17
<1>10. T = 0..n
  <2>1. T \in SUBSET (0..n)
      OBVIOUS
  <2> HIDE DEF T
  <2>2. QED
      BY <1>2, <1>8, <1>9, <2>1, InductionUpTo
<1>11. \A k \in 0..n : Good(k)
  <2> HIDE DEF Good
  <2>1. QED
      BY <1>10
<1> HIDE DEF T
<1>12. Good(n)
  <2>1. n \in 0..n
      BY <1>2
  <2> HIDE DEF Good
  <2>2. QED
      BY <1>11, <2>1
<1> DEFINE end == [f \in D |-> L(Rank(D, f) + 1)]
<1>13. \A f \in D : end[f] = L(Rank(D, f) + 1) /\ Rank(D, f) + 1 \in 1..n
    BY <1>2
<1>14. ASSUME NEW f \in D
       PROVE  end[f] \in Bars(F[n]) /\ ItemAt(F[n], end[f]) = Encode(f, m[f])
  <2>1. ItemAt(F[n], L(Rank(D, f) + 1)) = rec(Rank(D, f) + 1)
      BY <1>12, <1>13
  <2>2. rec(Rank(D, f) + 1) = Encode(f, m[f])
      BY <1>2 DEF rec
  <2>3. L(Rank(D, f) + 1) \in Bars(F[n])
      BY <1>12, <1>13
  <2>4. QED
      BY <1>13, <2>1, <2>2, <2>3
<1>15. ASSUME NEW b \in Bars(F[n])
       PROVE  \E f \in D : b = end[f]
  <2>1. PICK k \in 1..n : b = L(k)
      BY <1>12
  <2>2. key[k] \in D /\ Rank(D, key[k]) = k - 1
      BY <1>2
  <2>3. Rank(D, key[k]) + 1 = k
      BY <1>2, <2>2
  <2>4. QED
      BY <1>13, <2>1, <2>2, <2>3
<1>16. ASSUME NEW f \in D, NEW g \in D, f < g
       PROVE  end[f] < end[g]
  <2>1. Rank(D, f) < Rank(D, g)
      BY <1>1, <1>16, RankGrows DEF D
  <2>2. Rank(D, f) \in Nat /\ Rank(D, g) \in Nat
      BY <1>1, RankType DEF D
  <2> DEFINE i == Rank(D, f) + 1  j == Rank(D, g) + 1
  <2>3. i \in Nat /\ i < j /\ j \in 1..n
    <3>1. j \in 1..n
        BY <1>2
    <3>2. QED
        BY <2>1, <2>2, <3>1
  <2>4. end[f] = L(i) /\ end[g] = L(j)
      BY <1>13
  <2> HIDE DEF i, j
  <2>5. i \in 0..(j - 1) /\ j \in 0..n
      BY <1>2, <2>3
  <2>6. L(i) < L(j)
      BY <1>11, <2>5
  <2>7. QED
      BY <2>4, <2>6
<1>17. end \in [D -> Bars(F[n])]
    BY <1>14
<1>18. Holds(F[n], m, end)
  <2> HIDE DEF end
  <2>1. QED
      BY <1>12, <1>14, <1>15, <1>16, <1>17 DEF Holds, D
<1>19. QED
    BY <1>4, <1>f, <1>18

\* What the loop over the items of s finds: up to position n the entries of
\* the map m, in the order of their keys, and behind it nothing about a
\* descriptor that m does not have.
Shows(s, m, end, n) ==
    /\ DOMAIN Records(s) \in SUBSET (1..Len(s))
    /\ \A f \in DOMAIN m : /\ end[f] \in DOMAIN Records(s) /\ end[f] <= n
                           /\ Records(s)[end[f]] = [fd |-> f, info |-> m[f]]
    /\ \A f, g \in DOMAIN m : f < g => end[f] < end[g]
    /\ \A b \in DOMAIN Records(s) :
          /\ b <= n => \E f \in DOMAIN m : b = end[f]
          /\ Records(s)[b].fd \in DOMAIN m

\* The text of a map names nobody but its entries.
LEMMA ContentIsFamiliar ==
    ASSUME RecordsFit, NEW m, IsOnlineMap(m), NEW C, NEW end, Holds(C, m, end),
           NEW D, DOMAIN m \subseteq D
    PROVE  Familiar(C, D)
<1>1. SUFFICES ASSUME NEW b \in Bars(C) PROVE Harmless(ItemAt(C, b), D)
    BY DEF Familiar
<1>2. PICK f \in DOMAIN m : b = end[f]
    BY DEF Holds
<1>3. f \in Fds /\ m[f] \in OnlineInfo /\ m[f] \in Info /\ f \in D
    BY <1>2, NamesArePlain DEF IsOnlineMap
<1>4. ItemAt(C, b) = Printed(f, m[f])
    BY <1>2, <1>3, Encoded DEF Holds, RecordsFit
<1>5. QED
    BY <1>3, <1>4, PrintedIsHarmless

\* Behind the text of a map a familiar rest adds no record of its own.
LEMMA TextShows ==
    ASSUME RecordsFit, NEW m, IsOnlineMap(m), NEW C, NEW end, Holds(C, m, end),
           NEW T \in Seq(Char), Familiar(C \o T, DOMAIN m)
    PROVE  C \o T \in Seq(Char) /\ Shows(C \o T, m, end, Len(C))
<1> DEFINE s == C \o T
<1>1. Closed(C)
    BY DEF Holds
<1>2. /\ s \in Seq(Char)
      /\ Bars(s) = Bars(C) \cup {Len(C) + b : b \in Bars(T)}
      /\ \A b \in Bars(C) : ItemAt(s, b) = ItemAt(C, b)
    BY <1>1, ItemsOfConcat
<1>3. Familiar(s, DOMAIN m)
    OBVIOUS
<1>4. Len(C) \in Nat
    BY <1>1 DEF Closed
<1> HIDE DEF s
<1>5. DOMAIN Records(s) = {b \in Bars(s) : Whole(ItemAt(s, b))}
      /\ \A b \in DOMAIN Records(s) : Records(s)[b] = Decode(ItemAt(s, b))
    BY DEF Records
<1>6. ASSUME NEW f \in DOMAIN m
      PROVE  /\ end[f] \in DOMAIN Records(s) /\ end[f] <= Len(C)
             /\ Records(s)[end[f]] = [fd |-> f, info |-> m[f]]
  <2>1. f \in Fds /\ m[f] \in OnlineInfo /\ m[f] \in Info
      BY NamesArePlain DEF IsOnlineMap
  <2>2. end[f] \in Bars(C) /\ ItemAt(C, end[f]) = Printed(f, m[f])
      BY <2>1, Encoded DEF Holds, RecordsFit
  <2>3. ItemAt(s, end[f]) = Printed(f, m[f]) /\ end[f] \in Bars(s)
      BY <1>2, <2>2
  <2>4. Whole(Printed(f, m[f])) /\ Decode(Printed(f, m[f])) = [fd |-> f, info |-> m[f]]
      BY <2>1, PrintedDecoded
  <2>5. end[f] <= Len(C)
      BY <1>4, <2>2 DEF Bars
  <2>6. QED
      BY <1>5, <2>3, <2>4, <2>5
<1>7. ASSUME NEW b \in DOMAIN Records(s), b <= Len(C)
      PROVE  \E f \in DOMAIN m : b = end[f]
  <2>1. b \in Bars(C)
    <3>1. b \in Bars(C) \cup {Len(C) + a : a \in Bars(T)}
        BY <1>2, <1>5
    <3>2. \A a \in Bars(T) : a \in Nat /\ a >= 1
        BY DEF Bars
    <3>3. \A a \in Bars(T) : Len(C) + a > Len(C)
        BY <1>4, <3>2
    <3>4. QED
        BY <1>4, <1>7, <3>1, <3>2, <3>3
  <2>2. QED
      BY <2>1 DEF Holds
<1>8. ASSUME NEW b \in DOMAIN Records(s)
      PROVE  Records(s)[b].fd \in DOMAIN m
    BY <1>2, <1>3, <1>5, FamiliarRecords
<1>9. DOMAIN Records(s) \in SUBSET (1..Len(s))
    BY <1>5 DEF Bars
<1>10. \A f, g \in DOMAIN m : f < g => end[f] < end[g]
    BY DEF Holds
<1>11. Shows(s, m, end, Len(C))
    BY <1>6, <1>7, <1>8, <1>9, <1>10 DEF Shows
<1>12. QED
    BY <1>2, <1>11 DEF s

\* rebuildOnlineShmat finds the map: of every descriptor the first record is
\* the entry, and no other descriptor has one.
LEMMA RebuildFindsMap ==
    ASSUME NEW m, IsOnlineMap(m), NEW s \in Seq(Char), NEW end, NEW n \in Nat, Shows(s, m, end, n)
    PROVE  Rebuild(s) = m
<1> DEFINE r == Records(s)  D == DOMAIN m
           B(f) == {b \in DOMAIN r : r[b].fd = f}
<1>1. D \subseteq Nat /\ m = [f \in D |-> m[f]]
    BY FdsAssumption DEF IsOnlineMap
<1>2. /\ DOMAIN r \in SUBSET (1..Len(s))
      /\ \A f \in D : end[f] \in DOMAIN r /\ end[f] <= n /\ r[end[f]] = [fd |-> f, info |-> m[f]]
      /\ \A f, g \in D : f < g => end[f] < end[g]
      /\ \A b \in DOMAIN r : (b <= n => \E f \in D : b = end[f]) /\ r[b].fd \in D
    BY DEF Shows
<1>3. Rebuild(s) = [f \in {r[b].fd : b \in DOMAIN r} |-> r[Min(B(f))].info]
    BY DEF Rebuild
<1> HIDE DEF r, D
<1>r. ASSUME NEW f \in D
      PROVE  end[f] \in DOMAIN r /\ r[end[f]].fd = f /\ r[end[f]].info = m[f]
  <2>1. end[f] \in DOMAIN r /\ r[end[f]] = [fd |-> f, info |-> m[f]]
      BY <1>2
  <2>2. QED
      BY <2>1
<1>4. {r[b].fd : b \in DOMAIN r} = D
    BY <1>2, <1>r
<1>5. ASSUME NEW f \in D
      PROVE  Min(B(f)) = end[f]
  <2>1. end[f] \in B(f) /\ B(f) \in SUBSET Nat
      BY <1>2, <1>r
  <2>2. B(f) # {}
      BY <2>1
  <2>3. Min(B(f)) \in B(f) /\ Min(B(f)) <= end[f]
    <3>1. Min(B(f)) \in B(f) /\ \A k \in B(f) : Min(B(f)) <= k
      <4> HIDE DEF B
      <4>1. QED
          BY <2>1, <2>2, MinIsLeast
    <3>2. QED
        BY <2>1, <3>1
  <2> DEFINE b == Min(B(f))
  <2>4. b \in DOMAIN r /\ r[b].fd = f /\ b <= end[f] /\ b \in Nat /\ end[f] \in Nat
      BY <2>1, <2>3
  <2> HIDE DEF b
  <2>5. end[f] <= n
      BY <1>2
  <2>6. b <= n
      BY <2>4, <2>5
  <2>7. PICK g \in D : b = end[g]
      BY <1>2, <2>4, <2>6
  <2>8. g = f
      BY <1>r, <2>4, <2>7
  <2>9. QED
      BY <2>7, <2>8 DEF b
<1>6. ASSUME NEW f \in D PROVE r[Min(B(f))].info = m[f]
    BY <1>r, <1>5
<1>7. QED
  <2> HIDE DEF B
  <2>1. Rebuild(s) = [f \in D |-> m[f]]
      BY <1>3, <1>4, <1>6
  <2>2. QED
      BY <1>1, <2>1

\* The names of the players who are on, in the order of their keys.
NamesOf(m) ==
    LET on == InOrder(OnlineIn(m)) IN [k \in DOMAIN on |-> m[on[k]].name]

\* A one-to-one image that keeps the order keeps the rank.
LEMMA RankOfImage ==
    ASSUME NEW S \in SUBSET Nat, IsFiniteSet(S), NEW T \in SUBSET Nat, NEW e \in [S -> T],
           \A f, g \in S : f < g => e[f] < e[g],
           NEW x \in S, \A b \in T : b <= e[x] => \E f \in S : b = e[f]
    PROVE  Rank(T, e[x]) = Rank(S, x)
<1> DEFINE A == {g \in S : g < x}  B == {b \in T : b < e[x]}
           h == [g \in A |-> e[g]]
<1>1. A \in SUBSET S /\ x \in Nat /\ e[x] \in T /\ e[x] \in Nat
    OBVIOUS
<1>2. IsFiniteSet(A)
  <2> HIDE DEF A
  <2>1. QED
      BY <1>1, FS_Subset
<1>3. h \in [A -> B]
  <2>1. \A g \in A : e[g] \in B
      BY <1>1
  <2> HIDE DEF A, B
  <2>2. QED
      BY <2>1
<1>4. \A f, g \in S : e[f] = e[g] => f = g
  <2>1. SUFFICES ASSUME NEW f \in S, NEW g \in S, e[f] = e[g], f # g PROVE FALSE
      OBVIOUS
  <2>2. f \in Nat /\ g \in Nat /\ e[f] \in Nat /\ e[g] \in Nat
      OBVIOUS
  <2>3. f < g \/ g < f
      BY <2>1, <2>2
  <2>4. e[f] < e[g] \/ e[g] < e[f]
      BY <2>3
  <2>5. QED
      BY <2>1, <2>2, <2>4
<1>5. \A b \in B : \E g \in A : h[g] = b
  <2>1. SUFFICES ASSUME NEW b \in B PROVE \E g \in A : e[g] = b
      OBVIOUS
  <2>2. b \in Nat /\ b \in T /\ b < e[x] /\ b <= e[x]
      BY <1>1
  <2>3. PICK f \in S : b = e[f]
      BY <2>2
  <2>4. f \in Nat /\ ~(x < f) /\ f # x
      BY <1>1, <2>2, <2>3
  <2>5. f < x
      BY <1>1, <2>4
  <2>6. QED
      BY <2>3, <2>5
<1>6. h \in Bijection(A, B)
  <2>1. \A f, g \in A : h[f] = h[g] => f = g
      BY <1>1, <1>4
  <2> HIDE DEF A, B, h
  <2>2. DOMAIN h = A
      BY <1>3
  <2>3. h \in Injection(A, B)
      BY <1>3, <2>1, <2>2 DEF Injection, IsInjective
  <2>4. h \in Surjection(A, B)
      BY <1>3, <1>5 DEF Surjection
  <2>5. QED
      BY <2>3, <2>4 DEF Bijection
<1>7. Cardinality(B) = Cardinality(A)
  <2> HIDE DEF A, B, h
  <2>1. ExistsBijection(A, B)
      BY <1>6 DEF ExistsBijection
  <2>2. QED
      BY <1>2, <2>1, FS_Bijection
<1>8. QED
    BY <1>7 DEF Rank

\* getOnlineList finds the players of the map who are on, in their order,
\* before anything else.
LEMMA ListBegins ==
    ASSUME NEW m, IsOnlineMap(m), IsFiniteSet(DOMAIN m), NEW s \in Seq(Char), NEW end,
           NEW n \in Nat, Shows(s, m, end, n)
    PROVE  IsPrefix(NamesOf(m), OnlineList(s))
<1> DEFINE r == Records(s)  D == DOMAIN m  S == OnlineIn(m)
           T == {b \in DOMAIN r : r[b].info.stat = ONLINE_STAT_ON}
           e == [f \in S |-> end[f]]
           i == InOrder(S)  j == InOrder(T)
<1>1. S \in SUBSET D /\ S \in SUBSET Nat /\ IsFiniteSet(S)
  <2>1. S \in SUBSET D /\ D \subseteq Nat
      BY FdsAssumption DEF IsOnlineMap, OnlineIn
  <2> HIDE DEF S
  <2>2. QED
      BY <2>1, FS_Subset
<1>2. /\ DOMAIN r \in SUBSET (1..Len(s))
      /\ \A f \in D : end[f] \in DOMAIN r /\ end[f] <= n /\ r[end[f]] = [fd |-> f, info |-> m[f]]
      /\ \A f, g \in D : f < g => end[f] < end[g]
      /\ \A b \in DOMAIN r : b <= n => \E f \in D : b = end[f]
    BY DEF Shows
<1>3. OnlineList(s) = [k \in DOMAIN j |-> r[j[k]].info.name]
    BY DEF OnlineList
<1>4. NamesOf(m) = [k \in DOMAIN i |-> m[i[k]].name]
    BY DEF NamesOf
<1> HIDE DEF r
<1>5. ASSUME NEW f \in D
      PROVE  end[f] \in DOMAIN r /\ r[end[f]].fd = f /\ r[end[f]].info = m[f]
  <2>1. end[f] \in DOMAIN r /\ r[end[f]] = [fd |-> f, info |-> m[f]]
      BY <1>2
  <2>2. QED
      BY <2>1
<1>6. T \in SUBSET Nat /\ IsFiniteSet(T)
  <2>1. Len(s) \in Nat /\ T \in SUBSET (1..Len(s))
      BY <1>2
  <2> DEFINE U == 1..Len(s)
  <2>2. T \in SUBSET U /\ U \in SUBSET Nat
      BY <2>1
  <2>3. IsFiniteSet(U)
      BY <2>1, FS_Interval
  <2> HIDE DEF T, U
  <2>4. QED
      BY <2>2, <2>3, FS_Subset
<1>7. e \in [S -> T]
  <2>1. \A f \in S : f \in D /\ m[f].stat = ONLINE_STAT_ON
      BY DEF OnlineIn
  <2>2. \A f \in S : end[f] \in T
      BY <1>5, <2>1
  <2> HIDE DEF S, T
  <2>3. QED
      BY <2>2
<1>8. \A f, g \in S : f < g => e[f] < e[g]
    BY <1>1, <1>2
<1>9. ASSUME NEW x \in S, NEW b \in T, b <= e[x]
      PROVE  \E f \in S : b = e[f]
  <2>1. x \in D /\ e[x] = end[x] /\ end[x] <= n
      BY <1>1, <1>2
  <2>2. b \in Nat /\ end[x] \in Nat /\ b \in DOMAIN r
      BY <1>2, <1>5, <1>6, <2>1
  <2>3. b <= n
      BY <1>9, <2>1, <2>2
  <2>4. PICK f \in D : b = end[f]
      BY <1>2, <2>2, <2>3
  <2>5. m[f].stat = ONLINE_STAT_ON
      BY <1>5, <2>4
  <2>6. f \in S
      BY <2>5 DEF OnlineIn
  <2>7. QED
      BY <2>4, <2>6
<1> HIDE DEF S, T, e
<1>10. \A x \in S : Rank(T, e[x]) = Rank(S, x)
    BY <1>1, <1>6, <1>7, <1>8, <1>9, RankOfImage
<1> DEFINE ns == Cardinality(S)  nt == Cardinality(T)
<1>11. /\ ns \in Nat /\ i \in [1..ns -> S]
       /\ \A k \in 1..ns : Rank(S, i[k]) = k - 1
       /\ \A x \in S : Rank(S, x) + 1 \in 1..ns /\ i[Rank(S, x) + 1] = x
    BY <1>1, InOrderEnumerates
<1>12. /\ nt \in Nat /\ j \in [1..nt -> T]
       /\ \A k \in 1..nt : Rank(T, j[k]) = k - 1
       /\ \A x \in T : Rank(T, x) + 1 \in 1..nt /\ j[Rank(T, x) + 1] = x
    BY <1>6, InOrderEnumerates
<1> HIDE DEF i, j, ns, nt
<1>13. ASSUME NEW k \in 1..ns
       PROVE  /\ k \in 1..nt /\ j[k] = e[i[k]]
              /\ r[j[k]].info.name = m[i[k]].name
  <2>1. i[k] \in S /\ Rank(S, i[k]) = k - 1
      BY <1>11
  <2>2. e[i[k]] \in T /\ Rank(T, e[i[k]]) = k - 1
      BY <1>7, <1>10, <2>1
  <2>3. (k - 1) + 1 = k
      BY <1>11
  <2>4. k \in 1..nt /\ j[k] = e[i[k]]
      BY <1>12, <2>2, <2>3
  <2>5. e[i[k]] = end[i[k]] /\ i[k] \in D
      BY <1>1, <2>1 DEF e
  <2>6. QED
      BY <1>5, <2>4, <2>5
<1> DEFINE A == NamesOf(m)  B == OnlineList(s)
           V == {m[f].name : f \in D} \cup {r[b].info.name : b \in DOMAIN r}
<1>14. /\ A = [k \in 1..ns |-> m[i[k]].name]
       /\ B = [k \in 1..nt |-> r[j[k]].info.name]
    BY <1>3, <1>4, <1>11, <1>12
<1>15. A \in [1..ns -> V] /\ B \in [1..nt -> V]
  <2>1. \A k \in 1..ns : m[i[k]].name \in V
      BY <1>1, <1>11
  <2>2. \A k \in 1..nt : r[j[k]].info.name \in V
      BY <1>12 DEF T
  <2> HIDE DEF V, A, B
  <2>3. QED
      BY <1>14, <2>1, <2>2
<1>16. \A k \in 1..ns : A[k] = B[k] /\ k \in 1..nt
  <2> HIDE DEF A, B
  <2>1. QED
      BY <1>13, <1>14
<1> HIDE DEF A, B, V
<1>17. A \in Seq(V) /\ B \in Seq(V) /\ Len(A) = ns /\ Len(B) = nt
    BY <1>11, <1>12, <1>15
<1>18. ns <= nt
  <2>1. CASE ns = 0
      BY <1>12, <2>1
  <2>2. CASE ns # 0
    <3>1. ns \in 1..ns
        BY <1>11, <2>2
    <3>2. ns \in 1..nt
        BY <1>16, <3>1
    <3>3. QED
        BY <1>12, <3>2
  <2>3. QED
      BY <2>1, <2>2
<1>19. SubSeq(A, 1, ns) = SubSeq(B, 1, ns)
  <2> DEFINE u == SubSeq(A, 1, ns)  v == SubSeq(B, 1, ns)
  <2>1. u \in Seq(V) /\ Len(u) = ns /\ \A k \in 1..ns : u[k] = A[k]
      BY <1>11, <1>17
  <2>2. v \in Seq(V) /\ Len(v) = ns /\ \A k \in 1..ns : v[k] = B[k]
      BY <1>11, <1>12, <1>17, <1>18
  <2> HIDE DEF u, v
  <2>3. \A k \in 1..ns : u[k] = v[k]
      BY <1>16, <2>1, <2>2
  <2>4. u = v
      BY <2>1, <2>2, <2>3, SeqEqual
  <2>5. QED
      BY <2>4 DEF u, v
<1>20. QED
    BY <1>17, <1>18, <1>19 DEF IsPrefix, A, B

-----------------------------------------------------------------------------
(* The text in the segment: the newest text, and behind it what older,      *)
(* longer ones have left.                                                   *)

Keeps(s, m) ==
    /\ s \in Seq(Char)
    /\ s = Content(m) \o End(s, Len(Content(m)) + 1)
    /\ Familiar(s, DOMAIN m)

\* The text of a map is closed by a bar.
LEMMA ContentIsText ==
    ASSUME NEW m, IsPlainMap(m), IsFiniteSet(DOMAIN m)
    PROVE  Closed(Content(m)) /\ Content(m) \in Seq(Char) /\ Len(Content(m)) \in Nat
<1>1. PICK end : Holds(Content(m), m, end)
    BY ContentHolds
<1>2. Closed(Content(m)) /\ Content(m) \in Seq(Char)
    BY <1>1 DEF Holds, Closed
<1>3. QED
    BY <1>2

\* What is left behind the end of a text is nothing.
LEMMA EndType ==
    ASSUME NEW s \in Seq(Char), NEW n \in Nat \ {0}
    PROVE  /\ End(s, n) \in Seq(Char)
           /\ n > Len(s) => End(s, n) = <<>>
           /\ n <= Len(s) => n \in 1..(Len(s) + 1)
<1>1. Len(s) \in Nat
    OBVIOUS
<1>2. CASE n > Len(s)
  <2>1. End(s, n) = <<>>
      BY <1>1, <1>2, SubSeqEmpty DEF End
  <2>2. QED
      BY <1>2, <2>1
<1>3. CASE n <= Len(s)
  <2>1. n \in 1..(Len(s) + 1)
      BY <1>1, <1>3
  <2>2. QED
      BY <1>1, <1>3, <2>1, EndFacts
<1>4. QED
    BY <1>1, <1>2, <1>3

\* Whatever is left behind the newest text, decoding the segment gives the map
\* it was written from, and its list begins with the map's players.
LEMMA KeepsTheMap ==
    ASSUME NEW s, NEW m, IsOnlineMap(m), IsFiniteSet(DOMAIN m), RecordsFit, Keeps(s, m)
    PROVE  Rebuild(s) = m /\ IsPrefix(NamesOf(m), OnlineList(s))
<1> DEFINE C == Content(m)  T == End(s, Len(C) + 1)
<1>1. PICK end : Holds(C, m, end)
    BY ContentHolds, OnlineMapIsPlain
<1>2. Len(C) \in Nat
    BY ContentIsText, OnlineMapIsPlain
<1>3. T \in Seq(Char)
  <2>1. Len(C) + 1 \in Nat \ {0}
      BY <1>2
  <2>2. QED
      BY <2>1, EndType DEF Keeps
<1>4. s = C \o T /\ s \in Seq(Char) /\ Familiar(s, DOMAIN m)
    BY DEF Keeps
<1> HIDE DEF C, T
<1>5. Shows(s, m, end, Len(C))
    BY <1>1, <1>3, <1>4, TextShows
<1>6. QED
    BY <1>2, <1>4, <1>5, RebuildFindsMap, ListBegins

\* The text of a map with more entries over such a text.
LEMMA KeepsNewest ==
    ASSUME NEW s, NEW m, Keeps(s, m), RecordsFit,
           NEW n, IsOnlineMap(n), IsFiniteSet(DOMAIN n), DOMAIN m \subseteq DOMAIN n
    PROVE  Keeps(Content(n) \o End(s, Len(Content(n)) + 1), n)
<1> DEFINE C == Content(n)  T == End(s, Len(C) + 1)  t == C \o T
<1>1. C \in Seq(Char) /\ Closed(C) /\ Len(C) \in Nat
    BY ContentIsText, OnlineMapIsPlain
<1>2. PICK end : Holds(C, n, end)
    BY ContentHolds, OnlineMapIsPlain
<1>3. s \in Seq(Char) /\ Len(s) \in Nat /\ Familiar(s, DOMAIN m)
    BY DEF Keeps
<1> HIDE DEF C
<1>4. Len(C) + 1 \in Nat \ {0}
    BY <1>1
<1>5. T \in Seq(Char) /\ Familiar(T, DOMAIN n)
  <2>1. T \in Seq(Char)
      BY <1>3, <1>4, EndType
  <2>2. CASE Len(C) + 1 > Len(s)
    <3>1. T = <<>>
        BY <1>3, <1>4, <2>2, EndType
    <3>2. Bars(T) = {}
        BY <3>1 DEF Bars
    <3>3. QED
        BY <2>1, <3>2 DEF Familiar
  <2>3. CASE Len(C) + 1 <= Len(s)
    <3>1. Len(C) + 1 \in 1..(Len(s) + 1)
        BY <1>3, <1>4, <2>3
    <3>2. Familiar(T, DOMAIN m)
        BY <1>3, <3>1, EndIsFamiliar
    <3>3. QED
        BY <2>1, <3>2, MoreIsFamiliar
  <2>4. QED
      BY <1>3, <1>4, <2>2, <2>3
<1> HIDE DEF T
<1>6. Familiar(C, DOMAIN n)
    BY <1>2, ContentIsFamiliar
<1>7. t \in Seq(Char) /\ Familiar(t, DOMAIN n)
  <2>1. t \in Seq(Char)
      BY <1>1, <1>5
  <2>2. QED
      BY <1>1, <1>5, <1>6, <2>1, ConcatIsFamiliar
<1>8. End(t, Len(C) + 1) = T
  <2>1. /\ t \in Seq(Char) /\ Len(t) = Len(C) + Len(T) /\ Len(T) \in Nat
        /\ \A i \in 1..Len(T) : t[Len(C) + i] = T[i]
      BY <1>1, <1>5
  <2> HIDE DEF t
  <2>2. Len(C) + 1 \in 1..(Len(t) + 1) /\ Len(t) - (Len(C) + 1) + 1 = Len(T)
      BY <1>1, <2>1
  <2>3. /\ End(t, Len(C) + 1) \in Seq(Char) /\ Len(End(t, Len(C) + 1)) = Len(T)
        /\ \A i \in 1..Len(T) : End(t, Len(C) + 1)[i] = t[Len(C) + 1 + i - 1]
      BY <2>1, <2>2, EndFacts
  <2>4. \A i \in 1..Len(T) : Len(C) + 1 + i - 1 = Len(C) + i
      BY <1>1, <2>1
  <2>5. \A i \in 1..Len(T) : End(t, Len(C) + 1)[i] = T[i]
      BY <2>1, <2>3, <2>4
  <2>6. QED
      BY <1>5, <2>3, <2>5, SeqEqual
<1>9. Keeps(t, n)
    BY <1>7, <1>8 DEF Keeps, C
<1>10. QED
    BY <1>9 DEF t, T, C

\* The segment that shm_create has just zeroed.
LEMMA KeepsNothing ==
    ASSUME RecordsFit
    PROVE  IsOnlineMap(EmptyMap) /\ IsFiniteSet(DOMAIN EmptyMap) /\ Keeps(<<>>, EmptyMap)
<1>1. DOMAIN EmptyMap = {} /\ IsOnlineMap(EmptyMap)
    BY DEF EmptyMap, IsOnlineMap
<1>2. IsFiniteSet(DOMAIN EmptyMap)
    BY <1>1, FS_EmptySet
<1>3. PICK end : Holds(Content(EmptyMap), EmptyMap, end)
    BY <1>1, <1>2, ContentHolds, OnlineMapIsPlain
<1>4. Content(EmptyMap) = <<>>
  <2>1. Bars(Content(EmptyMap)) = {}
      BY <1>1, <1>3 DEF Holds
  <2>2. Closed(Content(EmptyMap))
      BY <1>3 DEF Holds
  <2>3. Content(EmptyMap) # <<>> => Len(Content(EmptyMap)) \in Bars(Content(EmptyMap))
      BY <2>2 DEF Closed, Bars
  <2>4. QED
      BY <2>1, <2>3
<1>5. <<>> \in Seq(Char) /\ Len(<<>>) = 0
    OBVIOUS
<1>6. End(<<>>, Len(<<>>) + 1) = <<>>
  <2>1. 1 \in Nat \ {0} /\ 1 > Len(<<>>) /\ Len(<<>>) + 1 = 1
      BY <1>5
  <2>2. End(<<>>, 1) = <<>>
      BY <1>5, <2>1, EndType
  <2>3. QED
      BY <2>1, <2>2
<1>7. Bars(<<>>) = {}
    BY <1>5 DEF Bars
<1>8. Keeps(<<>>, EmptyMap)
    BY <1>4, <1>5, <1>6, <1>7 DEF Keeps, Familiar
<1>9. QED
    BY <1>1, <1>2, <1>8

-----------------------------------------------------------------------------
(* Records that encode cuts.                                                *)

\* Four numbers are not three.
LEMMA FourAreNotThree ==
    ASSUME NEW x1 \in Int, NEW x2 \in Int, NEW x3 \in Int, NEW x4 \in Int,
           x1 < x2, x2 < x3, x3 < x4, NEW S, {x1, x2, x3, x4} \subseteq S,
           NEW c1, NEW c2, NEW c3, S = {c1, c2, c3}
    PROVE  FALSE
OBVIOUS

\* Text with at most three commas has no end that decodes.
LEMMA FewCommas ==
    ASSUME NEW r \in Seq(Char), NEW c1 \in Int, NEW c2 \in Int, NEW c3 \in Int,
           \A i \in 1..Len(r) : r[i] = SPR_CHAR_ATTR => i \in {c1, c2, c3}
    PROVE  Harmless(r, {})
<1>1. SUFFICES ASSUME NEW n \in 1..(Len(r) + 1), Whole(End(r, n))
               PROVE  FALSE
    BY DEF Harmless
<1> DEFINE t == End(r, n)
<1>2. /\ t \in Seq(Char) /\ Len(t) = Len(r) - n + 1 /\ Len(r) \in Nat
      /\ \A i \in 1..Len(t) : t[i] = r[n + i - 1]
    BY EndFacts, SMTT(30)
<1>3. Whole(t)
    BY <1>1
<1> HIDE DEF t
<1>4. PICK d1, d2, d3, d4 \in 1..Len(t) :
          /\ d1 < d2 /\ d2 < d3 /\ d3 < d4
          /\ \A d \in {d1, d2, d3, d4} : t[d] = SPR_CHAR_ATTR
    BY <1>2, <1>3, WholeHasFour
<1>5. ASSUME NEW d \in {d1, d2, d3, d4}
      PROVE  n + d - 1 \in {c1, c2, c3}
  <2>1. t[d] = SPR_CHAR_ATTR /\ d \in 1..Len(t)
      BY <1>4
  <2>2. n + d - 1 \in 1..Len(r)
      BY <1>2, <2>1
  <2>3. QED
      BY <1>2, <2>1, <2>2
<1>6. PICK x1, x2, x3, x4 \in Int :
          x1 = n + d1 - 1 /\ x2 = n + d2 - 1 /\ x3 = n + d3 - 1 /\ x4 = n + d4 - 1
    OBVIOUS
<1>7. x1 < x2 /\ x2 < x3 /\ x3 < x4
    BY <1>4, <1>6
<1>8. {x1, x2, x3, x4} \subseteq {c1, c2, c3}
    BY <1>5, <1>6
<1>9. QED
    BY <1>7, <1>8, FourAreNotThree

\* r is a record of the descriptor fd.
IsRecord(r, fd, info) == \E c1, c2, c3, c4 \in Nat : RecordShape(r, fd, info, c1, c2, c3, c4)

\* A record that has lost its last comma is none, whatever it loses in front.
LEMMA CutIsNone ==
    ASSUME NEW r, NEW fd, NEW info, IsRecord(r, fd, info), NEW k \in 0..(Len(r) - 1)
    PROVE  Harmless(SubSeq(r, 1, k), {})
<1>1. PICK c1, c2, c3, c4 \in Nat :
          /\ r \in Seq(Char) /\ c4 = Len(r)
          /\ \A i \in 1..Len(r) : r[i] = SPR_CHAR_ATTR <=> i \in {c1, c2, c3, c4}
    BY ZenonT(60) DEF IsRecord, RecordShape
<1> DEFINE u == SubSeq(r, 1, k)
<1>2. u \in Seq(Char) /\ Len(u) = k /\ \A i \in 1..k : u[i] = r[i]
    BY <1>1
<1> HIDE DEF u
<1>3. ASSUME NEW i \in 1..Len(u), u[i] = SPR_CHAR_ATTR
      PROVE  i \in {c1, c2, c3}
  <2>1. i \in 1..Len(r) /\ r[i] = SPR_CHAR_ATTR /\ i < c4
      BY <1>1, <1>2, <1>3
  <2>2. QED
      BY <1>1, <2>1
<1>4. Harmless(u, {})
  <2>1. c1 \in Int /\ c2 \in Int /\ c3 \in Int
      OBVIOUS
  <2>2. QED
      BY <1>2, <1>3, <2>1, FewCommas
<1>5. QED
    BY <1>4 DEF u

\* A record that has lost some of its front is a record of the same descriptor
\* with a shorter name, or none.
LEMMA EndOfRecord ==
    ASSUME NEW r, NEW fd, NEW info \in Info, IsRecord(r, fd, info), NEW n \in 1..(Len(r) + 1)
    PROVE  Harmless(End(r, n), {}) \/ \E j \in Info : IsRecord(End(r, n), fd, j)
<1>1. PICK c1, c2, c3, c4 \in Nat : RecordShape(r, fd, info, c1, c2, c3, c4)
    BY DEF IsRecord
<1>2. /\ r \in Seq(Char) /\ Len(r) \in Nat
      /\ 1 <= c1 /\ c1 < c2 /\ c2 < c3 /\ c3 < c4 /\ c4 = Len(r)
      /\ \A i \in 1..Len(r) : r[i] = SPR_CHAR_ATTR <=> i \in {c1, c2, c3, c4}
      /\ \A i \in 1..Len(r) : r[i] # SPR_CHAR_ITEM
      /\ SubSeq(r, c1 + 1, c2 - 1) = Decimal(fd)
      /\ SubSeq(r, c2 + 1, c3 - 1) = Decimal(info.stat)
      /\ SubSeq(r, c3 + 1, c4 - 1) = Decimal(info.vsfd)
    BY <1>1 DEF RecordShape
<1> DEFINE t == End(r, n)
           e1 == c1 - n + 1  e2 == c2 - n + 1  e3 == c3 - n + 1  e4 == c4 - n + 1
<1>3. /\ t \in Seq(Char) /\ Len(t) = Len(r) - n + 1
      /\ \A i \in 1..Len(t) : t[i] = r[n + i - 1]
    BY <1>2, EndFacts, ZenonT(60)
<1>4. \A i \in 1..(Len(r) - n + 2), j \in 0..(Len(r) - n + 1) :
          SubSeq(t, i, j) = SubSeq(r, n + i - 1, n + j - 1)
    BY <1>2, SubSeqOfEnd
<1> HIDE DEF t
<1>5. ASSUME NEW i \in 1..Len(t)
      PROVE  (t[i] = SPR_CHAR_ATTR <=> i \in {e1, e2, e3, e4}) /\ t[i] # SPR_CHAR_ITEM
  <2>0. Len(r) \in Nat /\ Len(t) = Len(r) - n + 1
      BY <1>2, <1>3
  <2>1. t[i] = r[n + i - 1]
      BY <1>3
  <2>2. n + i - 1 \in 1..Len(r)
      BY <2>0
  <2>3. n + i - 1 \in {c1, c2, c3, c4} <=> i \in {e1, e2, e3, e4}
      BY <2>0
  <2>4. QED
      BY <1>2, <2>1, <2>2, <2>3
<1>6. CASE n > c1
  <2>1. ASSUME NEW i \in 1..Len(t), t[i] = SPR_CHAR_ATTR
        PROVE  i \in {e2, e3, e4}
    <3>1. i \in {e1, e2, e3, e4}
        BY <1>5, <2>1
    <3>2. i # e1
        BY <1>2, <1>3, <1>6
    <3>3. QED
        BY <3>1, <3>2
  <2>2. e2 \in Int /\ e3 \in Int /\ e4 \in Int
      BY <1>2
  <2> HIDE DEF e2, e3, e4
  <2>3. Harmless(t, {})
      BY <1>3, <2>1, <2>2, FewCommas
  <2>4. QED
      BY <2>3 DEF t
<1>7. CASE n <= c1
  <2> DEFINE a == SubSeq(t, 1, e1 - 1)
             j == [name |-> a, stat |-> info.stat, vsfd |-> info.vsfd]
  <2>1. /\ e1 \in Nat /\ e2 \in Nat /\ e3 \in Nat /\ e4 \in Nat
        /\ 1 <= e1 /\ e1 < e2 /\ e2 < e3 /\ e3 < e4 /\ e4 = Len(t)
      BY <1>2, <1>3, <1>7
  <2>2. SubSeq(t, e1 + 1, e2 - 1) = Decimal(fd)
    <3>1. /\ e1 + 1 \in 1..(Len(r) - n + 2) /\ e2 - 1 \in 0..(Len(r) - n + 1)
          /\ n + (e1 + 1) - 1 = c1 + 1 /\ n + (e2 - 1) - 1 = c2 - 1
        BY <1>2, <1>7
    <3>2. SubSeq(t, e1 + 1, e2 - 1) = SubSeq(r, n + (e1 + 1) - 1, n + (e2 - 1) - 1)
        BY <1>4, <3>1
    <3>3. QED
        BY <1>2, <3>1, <3>2
  <2>3. SubSeq(t, e2 + 1, e3 - 1) = Decimal(info.stat)
    <3>1. /\ e2 + 1 \in 1..(Len(r) - n + 2) /\ e3 - 1 \in 0..(Len(r) - n + 1)
          /\ n + (e2 + 1) - 1 = c2 + 1 /\ n + (e3 - 1) - 1 = c3 - 1
        BY <1>2, <1>7
    <3>2. SubSeq(t, e2 + 1, e3 - 1) = SubSeq(r, n + (e2 + 1) - 1, n + (e3 - 1) - 1)
        BY <1>4, <3>1
    <3>3. QED
        BY <1>2, <3>1, <3>2
  <2>4. SubSeq(t, e3 + 1, e4 - 1) = Decimal(info.vsfd)
    <3>1. /\ e3 + 1 \in 1..(Len(r) - n + 2) /\ e4 - 1 \in 0..(Len(r) - n + 1)
          /\ n + (e3 + 1) - 1 = c3 + 1 /\ n + (e4 - 1) - 1 = c4 - 1
        BY <1>2, <1>7
    <3>2. SubSeq(t, e3 + 1, e4 - 1) = SubSeq(r, n + (e3 + 1) - 1, n + (e4 - 1) - 1)
        BY <1>4, <3>1
    <3>3. QED
        BY <1>2, <3>1, <3>2
  <2>5. \A i \in 1..Len(t) : (t[i] = SPR_CHAR_ATTR <=> i \in {e1, e2, e3, e4})
                             /\ t[i] # SPR_CHAR_ITEM
      BY <1>5
  <2> HIDE DEF e1, e2, e3, e4
  <2>6. a \in Seq(Char) /\ Len(a) = e1 - 1 /\ \A i \in 1..(e1 - 1) : a[i] = t[i]
      BY <1>3, <2>1
  <2>7. Plain(a)
    <3>1. ASSUME NEW i \in 1..Len(a)
          PROVE  a[i] \notin {SPR_CHAR_ITEM, SPR_CHAR_ATTR}
      <4>1. i \in 1..Len(t) /\ a[i] = t[i] /\ i < e1
          BY <2>1, <2>6
      <4>2. i \notin {e1, e2, e3, e4}
          BY <2>1, <4>1
      <4>3. QED
          BY <2>5, <4>1, <4>2
    <3>2. QED
        BY <2>6, <3>1 DEF Plain
  <2> HIDE DEF a
  <2>8. j \in Info
      BY <2>6, <2>7 DEF Info
  <2>9. j.name = a /\ j.stat = info.stat /\ j.vsfd = info.vsfd
      OBVIOUS
  <2> HIDE DEF j
  <2>10. RecordShape(t, fd, j, e1, e2, e3, e4)
      BY <1>3, <2>1, <2>2, <2>3, <2>4, <2>5, <2>9 DEF RecordShape, a
  <2>11. QED
      BY <2>1, <2>8, <2>10 DEF IsRecord, t
<1>8. QED
    BY <1>2, <1>6, <1>7

\* The places of the commas in a record are those the lengths of its fields give.
FieldLengths(s, fd, info, b1, b2, b3, b4) ==
    /\ Len(s) = b4
    /\ Len(info.name) = b1 - 1
    /\ Len(Decimal(fd)) = b2 - b1 - 1
    /\ Len(Decimal(info.stat)) = b3 - b2 - 1
    /\ Len(Decimal(info.vsfd)) = b4 - b3 - 1

LEMMA RecordFields ==
    ASSUME NEW s, NEW fd, NEW info, NEW b1 \in Nat, NEW b2 \in Nat, NEW b3 \in Nat, NEW b4 \in Nat,
           RecordShape(s, fd, info, b1, b2, b3, b4)
    PROVE  FieldLengths(s, fd, info, b1, b2, b3, b4)
<1>1. /\ s \in Seq(Char) /\ Len(s) \in Nat
      /\ 1 <= b1 /\ b1 < b2 /\ b2 < b3 /\ b3 < b4 /\ b4 = Len(s)
      /\ SubSeq(s, 1, b1 - 1) = info.name
      /\ SubSeq(s, b1 + 1, b2 - 1) = Decimal(fd)
      /\ SubSeq(s, b2 + 1, b3 - 1) = Decimal(info.stat)
      /\ SubSeq(s, b3 + 1, b4 - 1) = Decimal(info.vsfd)
    BY DEF RecordShape
<1>2. ASSUME NEW i \in 1..(Len(s) + 1), NEW j \in (i - 1)..Len(s)
      PROVE  Len(SubSeq(s, i, j)) = j - i + 1
    BY <1>1, Window
<1>3. Len(SubSeq(s, 1, b1 - 1)) = b1 - 1
    BY <1>1, <1>2
<1>4. Len(SubSeq(s, b1 + 1, b2 - 1)) = b2 - b1 - 1
    BY <1>1, <1>2
<1>5. Len(SubSeq(s, b2 + 1, b3 - 1)) = b3 - b2 - 1
    BY <1>1, <1>2
<1>6. Len(SubSeq(s, b3 + 1, b4 - 1)) = b4 - b3 - 1
    BY <1>1, <1>2
<1>7. QED
    BY <1>1, <1>3, <1>4, <1>5, <1>6 DEF FieldLengths

\* Records that say the same are equally long.
LEMMA RecordLength ==
    ASSUME NEW r, NEW q, NEW fd, NEW info, IsRecord(r, fd, info), IsRecord(q, fd, info)
    PROVE  Len(r) = Len(q)
<1>1. PICK c1, c2, c3, c4 \in Nat : RecordShape(r, fd, info, c1, c2, c3, c4)
    BY DEF IsRecord
<1>2. PICK d1, d2, d3, d4 \in Nat : RecordShape(q, fd, info, d1, d2, d3, d4)
    BY DEF IsRecord
<1>3. FieldLengths(r, fd, info, c1, c2, c3, c4)
    BY <1>1, RecordFields
<1>4. FieldLengths(q, fd, info, d1, d2, d3, d4)
    BY <1>2, RecordFields
<1>5. QED
    BY <1>3, <1>4 DEF FieldLengths

\* An item of the segment is not longer than what encode writes, and it is a
\* record of a descriptor of D or none, and none if it loses some of its front.
Sound(r, D) ==
    /\ Len(r) < TmpSize
    /\ Harmless(r, {}) \/ \E fd \in D, info \in Info : IsRecord(r, fd, info)

\* An item that loses some of its front stays one.
LEMMA EndIsSound ==
    ASSUME NEW r \in Seq(Char), NEW D, Sound(r, D), NEW n \in 1..(Len(r) + 1)
    PROVE  Sound(End(r, n), D)
<1>1. Len(End(r, n)) < TmpSize
  <2>1. Len(End(r, n)) = Len(r) - n + 1 /\ Len(r) \in Nat
      BY EndFacts
  <2>2. QED
      BY <2>1, TmpSizeAssumption DEF Sound
<1>2. CASE Harmless(r, {})
  <2>1. Harmless(End(r, n), {})
      BY <1>2, EndIsHarmless
  <2>2. QED
      BY <1>1, <2>1 DEF Sound
<1>3. CASE \E fd \in D, info \in Info : IsRecord(r, fd, info)
  <2>1. PICK fd \in D, info \in Info : IsRecord(r, fd, info)
      BY <1>3
  <2>2. Harmless(End(r, n), {}) \/ \E j \in Info : IsRecord(End(r, n), fd, j)
      BY <2>1, EndOfRecord
  <2>3. QED
      BY <1>1, <2>1, <2>2 DEF Sound
<1>4. QED
    BY <1>2, <1>3 DEF Sound

\* A text all of whose items are sound.
SoundText(s, D) == s \in Seq(Char) /\ \A b \in Bars(s) : Sound(ItemAt(s, b), D)

\* Cutting such a text at its front leaves one.
LEMMA EndIsSoundText ==
    ASSUME NEW s, NEW D, SoundText(s, D), NEW n \in Nat \ {0}
    PROVE  SoundText(End(s, n), D)
<1>1. s \in Seq(Char) /\ Len(s) \in Nat
    BY DEF SoundText
<1>2. End(s, n) \in Seq(Char)
    BY <1>1, EndType
<1>3. CASE n > Len(s)
  <2>1. End(s, n) = <<>>
      BY <1>1, <1>3, EndType
  <2>2. Bars(End(s, n)) = {}
      BY <2>1 DEF Bars
  <2>3. QED
      BY <1>2, <2>2 DEF SoundText
<1>4. CASE n <= Len(s)
  <2>1. n \in 1..(Len(s) + 1)
      BY <1>1, <1>4
  <2>2. ASSUME NEW b \in Bars(End(s, n))
        PROVE  Sound(ItemAt(End(s, n), b), D)
    <3>1. /\ n + b - 1 \in Bars(s)
          /\ \E k \in 1..(Len(ItemAt(s, n + b - 1)) + 1) :
                ItemAt(End(s, n), b) = End(ItemAt(s, n + b - 1), k)
        BY <1>1, <2>1, ItemsOfEnd
    <3>2. PICK k \in 1..(Len(ItemAt(s, n + b - 1)) + 1) :
              ItemAt(End(s, n), b) = End(ItemAt(s, n + b - 1), k)
        BY <3>1
    <3>3. ItemAt(s, n + b - 1) \in Seq(Char) /\ Sound(ItemAt(s, n + b - 1), D)
        BY <1>1, <3>1, ItemType DEF SoundText
    <3>4. Sound(End(ItemAt(s, n + b - 1), k), D)
        BY <3>3, EndIsSound
    <3>5. QED
        BY <3>2, <3>4
  <2>3. QED
      BY <1>2, <2>2 DEF SoundText
<1>5. QED
    BY <1>1, <1>3, <1>4

\* So does putting such a text in front of it.
LEMMA ConcatIsSound ==
    ASSUME NEW X, Closed(X), NEW T, NEW D, SoundText(X, D), SoundText(T, D)
    PROVE  SoundText(X \o T, D)
<1>1. T \in Seq(Char)
    BY DEF SoundText
<1>2. /\ X \o T \in Seq(Char)
      /\ Bars(X \o T) = Bars(X) \cup {Len(X) + b : b \in Bars(T)}
      /\ \A b \in Bars(X) : ItemAt(X \o T, b) = ItemAt(X, b)
      /\ \A b \in Bars(T) : ItemAt(X \o T, Len(X) + b) = ItemAt(T, b)
    BY <1>1, ItemsOfConcat
<1>3. ASSUME NEW b \in Bars(X \o T)
      PROVE  Sound(ItemAt(X \o T, b), D)
    BY <1>2, <1>3 DEF SoundText
<1>4. QED
    BY <1>2, <1>3 DEF SoundText

\* What is sound for some descriptors is so for more.
LEMMA MoreIsSound ==
    ASSUME NEW s, NEW D, NEW E, D \subseteq E, SoundText(s, D)
    PROVE  SoundText(s, E)
BY DEF SoundText, Sound

\* What calOnlineShmatBuffer writes is sound for the keys of the map.
LEMMA ContentIsSound ==
    ASSUME NEW m, IsPlainMap(m), NEW C, NEW end, Holds(C, m, end)
    PROVE  SoundText(C, DOMAIN m)
<1>1. C \in Seq(Char)
    BY DEF Holds, Closed
<1>2. ASSUME NEW b \in Bars(C)
      PROVE  Sound(ItemAt(C, b), DOMAIN m)
  <2>1. PICK f \in DOMAIN m : b = end[f]
      BY DEF Holds
  <2>2. f \in Fds /\ m[f] \in Info /\ ItemAt(C, b) = Encode(f, m[f])
      BY <2>1 DEF Holds, IsPlainMap
  <2>3. PICK info \in Info : info = m[f]
      BY <2>2
  <2>4. IsRecord(Printed(f, info), f, info)
      BY <2>2, PrintedShape DEF IsRecord
  <2>5. Len(Encode(f, info)) < TmpSize
      BY <2>2, Encoded
  <2>6. CASE Len(Printed(f, info)) < TmpSize
    <3>1. Encode(f, info) = Printed(f, info)
        BY <2>2, <2>6, Encoded
    <3>2. QED
        BY <2>2, <2>3, <2>4, <2>5, <3>1 DEF Sound
  <2>7. CASE ~(Len(Printed(f, info)) < TmpSize)
    <3>1. /\ TmpSize - 1 \in 0..(Len(Printed(f, info)) - 1)
          /\ Encode(f, info) = SubSeq(Printed(f, info), 1, TmpSize - 1)
        BY <2>2, <2>7, Encoded
    <3>2. Harmless(Encode(f, info), {})
        BY <2>4, <3>1, CutIsNone
    <3>3. QED
        BY <2>2, <2>3, <2>5, <3>2 DEF Sound
  <2>8. QED
      BY <2>6, <2>7
<1>3. QED
    BY <1>1, <1>2 DEF SoundText

\* A sound item that decodes is the record it decodes to.
LEMMA SoundDecoded ==
    ASSUME NEW r \in Seq(Char), NEW D \in SUBSET Fds, Sound(r, D), Whole(r)
    PROVE  \E fd \in D, info \in Info :
              /\ IsRecord(r, fd, info) /\ Decode(r) = [fd |-> fd, info |-> info]
              /\ Len(Printed(fd, info)) < TmpSize
<1>1. ~Harmless(r, {})
  <2>1. 1 \in 1..(Len(r) + 1) /\ End(r, 1) = r
      BY SubSeqFull DEF End
  <2>2. QED
      BY <2>1 DEF Harmless
<1>2. PICK fd \in D, info \in Info : IsRecord(r, fd, info)
    BY <1>1 DEF Sound
<1>3. fd \in Fds
    BY <1>2
<1>4. Decode(r) = [fd |-> fd, info |-> info]
    BY <1>2, <1>3, RecordDecoded DEF IsRecord
<1>5. IsRecord(Printed(fd, info), fd, info)
    BY <1>3, PrintedShape DEF IsRecord
<1>6. Len(Printed(fd, info)) = Len(r)
    BY <1>2, <1>5, RecordLength
<1>7. QED
    BY <1>2, <1>4, <1>6 DEF Sound


\* What rebuildOnlineShmat finds in a sound text: entries whose records fit,
\* for some of the descriptors, and the text is sound for just these.
LEMMA SoundRebuild ==
    ASSUME NEW s, NEW D \in SUBSET Fds, SoundText(s, D)
    PROVE  /\ DOMAIN Rebuild(s) \subseteq D
           /\ IsPlainMap(Rebuild(s))
           /\ SoundText(s, DOMAIN Rebuild(s))
           /\ \A f \in DOMAIN Rebuild(s) : Len(Printed(f, Rebuild(s)[f])) < TmpSize
<1> DEFINE r == Records(s)
           B(f) == {b \in DOMAIN r : r[b].fd = f}
           R == Rebuild(s)
<1>1. /\ DOMAIN r = {b \in Bars(s) : Whole(ItemAt(s, b))}
      /\ \A b \in DOMAIN r : r[b] = Decode(ItemAt(s, b))
    BY DEF Records
<1>2. R = [f \in {r[b].fd : b \in DOMAIN r} |-> r[Min(B(f))].info]
    BY DEF Rebuild
<1>3. s \in Seq(Char) /\ \A b \in Bars(s) : Sound(ItemAt(s, b), D) /\ ItemAt(s, b) \in Seq(Char)
    BY ItemType DEF SoundText
<1> HIDE DEF r, R
<1>4. ASSUME NEW b \in DOMAIN r
      PROVE  \E fd \in D, info \in Info :
                /\ IsRecord(ItemAt(s, b), fd, info) /\ r[b] = [fd |-> fd, info |-> info]
                /\ Len(Printed(fd, info)) < TmpSize
  <2>1. b \in Bars(s) /\ Whole(ItemAt(s, b)) /\ r[b] = Decode(ItemAt(s, b))
      BY <1>1
  <2>2. Sound(ItemAt(s, b), D) /\ ItemAt(s, b) \in Seq(Char)
      BY <1>3, <2>1
  <2>3. PICK fd \in D, info \in Info :
            /\ IsRecord(ItemAt(s, b), fd, info)
            /\ Decode(ItemAt(s, b)) = [fd |-> fd, info |-> info]
            /\ Len(Printed(fd, info)) < TmpSize
      BY <2>1, <2>2, SoundDecoded
  <2>4. QED
      BY <2>1, <2>3
<1>5. ASSUME NEW b \in DOMAIN r
      PROVE  /\ r[b].fd \in D /\ r[b].info \in Info
             /\ IsRecord(ItemAt(s, b), r[b].fd, r[b].info)
             /\ Len(Printed(r[b].fd, r[b].info)) < TmpSize
  <2>1. PICK fd \in D, info \in Info :
            /\ IsRecord(ItemAt(s, b), fd, info) /\ r[b] = [fd |-> fd, info |-> info]
            /\ Len(Printed(fd, info)) < TmpSize
      BY <1>4
  <2>2. r[b].fd = fd /\ r[b].info = info
      BY <2>1
  <2>3. QED
      BY <2>1, <2>2
<1>6. DOMAIN R = {r[b].fd : b \in DOMAIN r}
    BY <1>2
<1>7. ASSUME NEW f \in DOMAIN R
      PROVE  R[f] \in Info /\ Len(Printed(f, R[f])) < TmpSize
  <2>1. B(f) \in SUBSET Nat /\ B(f) # {}
      BY <1>1, <1>6 DEF Bars
  <2>2. Min(B(f)) \in B(f)
    <3> HIDE DEF B
    <3>1. QED
        BY <2>1, MinIsLeast
  <2>3. PICK b \in DOMAIN r : b = Min(B(f)) /\ r[b].fd = f
      BY <2>2
  <2>4. R[f] = r[b].info
    <3> HIDE DEF B
    <3>1. QED
        BY <1>2, <1>6, <2>3
  <2>5. QED
      BY <1>5, <2>3, <2>4
<1>8. DOMAIN R \subseteq D
    BY <1>5, <1>6
<1>9. IsPlainMap(R)
  <2>1. R = [f \in DOMAIN R |-> R[f]]
      BY <1>2, <1>6
  <2>2. QED
      BY <1>7, <1>8, <2>1 DEF IsPlainMap
<1>10. ASSUME NEW b \in Bars(s)
       PROVE  Sound(ItemAt(s, b), DOMAIN R)
  <2>1. CASE Harmless(ItemAt(s, b), {})
      BY <1>3, <2>1 DEF Sound
  <2>2. CASE \E fd \in D, info \in Info : IsRecord(ItemAt(s, b), fd, info)
    <3>1. PICK fd \in D, info \in Info : IsRecord(ItemAt(s, b), fd, info)
        BY <2>2
    <3>2. fd \in Fds
        OBVIOUS
    <3>3. Whole(ItemAt(s, b)) /\ Decode(ItemAt(s, b)) = [fd |-> fd, info |-> info]
        BY <3>1, <3>2, RecordDecoded DEF IsRecord
    <3>4. b \in DOMAIN r /\ r[b].fd = fd
        BY <1>1, <3>3
    <3>5. fd \in DOMAIN R
        BY <1>6, <3>4
    <3>6. QED
        BY <1>3, <3>1, <3>5 DEF Sound
  <2>3. QED
      BY <1>3, <2>1, <2>2 DEF Sound
<1>11. QED
    BY <1>3, <1>7, <1>8, <1>9, <1>10 DEF SoundText, R

\* An entry whose record fits is the one that is found, whatever is left behind
\* the text of its map: what stands before it are records of other descriptors
\* and records that are cut.
LEMMA FittingIsFound ==
    ASSUME NEW m, IsPlainMap(m), NEW C, NEW end, Holds(C, m, end),
           NEW T \in Seq(Char), NEW f \in DOMAIN m, Len(Printed(f, m[f])) < TmpSize
    PROVE  f \in DOMAIN Rebuild(C \o T) /\ Rebuild(C \o T)[f] = m[f]
<1> DEFINE s == C \o T  r == Records(s)  B == {b \in DOMAIN r : r[b].fd = f}
<1>1. Closed(C) /\ C \in Seq(Char) /\ Len(C) \in Nat
    BY DEF Holds, Closed
<1>2. /\ s \in Seq(Char)
      /\ Bars(s) = Bars(C) \cup {Len(C) + b : b \in Bars(T)}
      /\ \A b \in Bars(C) : ItemAt(s, b) = ItemAt(C, b)
    BY <1>1, ItemsOfConcat
<1> HIDE DEF s
<1>3. /\ DOMAIN r = {b \in Bars(s) : Whole(ItemAt(s, b))}
      /\ \A b \in DOMAIN r : r[b] = Decode(ItemAt(s, b))
    BY DEF Records
<1>4. /\ DOMAIN Rebuild(s) = {r[b].fd : b \in DOMAIN r}
      /\ f \in DOMAIN Rebuild(s) => Rebuild(s)[f] = r[Min(B)].info
    BY DEF Rebuild
<1> HIDE DEF r
<1>5. ASSUME NEW g \in DOMAIN m
      PROVE  /\ end[g] \in Bars(s) /\ end[g] \in Nat /\ end[g] <= Len(C)
             /\ ItemAt(s, end[g]) = Encode(g, m[g]) /\ g \in Fds /\ m[g] \in Info
  <2>1. end[g] \in Bars(C) /\ ItemAt(C, end[g]) = Encode(g, m[g])
      BY DEF Holds
  <2>2. g \in Fds /\ m[g] \in Info
      BY DEF IsPlainMap
  <2>3. end[g] \in 1..Len(C)
      BY <2>1 DEF Bars
  <2>4. QED
      BY <1>1, <1>2, <2>1, <2>2, <2>3
<1>6. end[f] \in DOMAIN r /\ r[end[f]].fd = f /\ r[end[f]].info = m[f]
  <2>1. Encode(f, m[f]) = Printed(f, m[f])
      BY <1>5, Encoded
  <2>2. Whole(Printed(f, m[f])) /\ Decode(Printed(f, m[f])) = [fd |-> f, info |-> m[f]]
      BY <1>5, PrintedDecoded
  <2>3. QED
      BY <1>3, <1>5, <2>1, <2>2
<1>7. B \in SUBSET Nat /\ end[f] \in B
    BY <1>3, <1>6 DEF Bars
<1>8. Min(B) \in B /\ Min(B) <= end[f]
  <2> HIDE DEF B
  <2>1. B # {}
      BY <1>7
  <2>2. Min(B) \in B /\ \A k \in B : Min(B) <= k
      BY <1>7, <2>1, MinIsLeast
  <2>3. QED
      BY <1>7, <2>2
<1>9. PICK b \in DOMAIN r : b = Min(B) /\ r[b].fd = f /\ b <= end[f] /\ b \in Nat
    BY <1>7, <1>8
<1> HIDE DEF B
<1>10. PICK g \in DOMAIN m : b = end[g]
  <2>1. b \in Bars(s) /\ b <= Len(C)
      BY <1>3, <1>5, <1>9
  <2>2. \A a \in Bars(T) : Len(C) + a > Len(C)
      BY <1>1 DEF Bars
  <2>3. b \in Bars(C)
    <3>1. b \in Bars(C) \cup {Len(C) + a : a \in Bars(T)}
        BY <1>2, <2>1
    <3>2. ASSUME NEW a \in Bars(T) PROVE b # Len(C) + a
        BY <1>1, <1>9, <2>1, <2>2
    <3>3. QED
        BY <3>1, <3>2
  <2>4. QED
      BY <2>3 DEF Holds
<1>11. Whole(Encode(g, m[g])) /\ r[b] = Decode(Encode(g, m[g]))
    BY <1>3, <1>5, <1>9, <1>10
<1>12. Len(Printed(g, m[g])) < TmpSize
  <2>1. SUFFICES ASSUME ~(Len(Printed(g, m[g])) < TmpSize) PROVE FALSE
      OBVIOUS
  <2>2. PICK info \in Info : info = m[g]
      BY <1>5
  <2>3. /\ TmpSize - 1 \in 0..(Len(Printed(g, info)) - 1)
        /\ Encode(g, info) = SubSeq(Printed(g, info), 1, TmpSize - 1)
        /\ Encode(g, info) \in Seq(Char)
      BY <1>5, <2>1, <2>2, Encoded
  <2>4. IsRecord(Printed(g, info), g, info)
      BY <1>5, PrintedShape DEF IsRecord
  <2>5. Harmless(Encode(g, info), {})
      BY <2>3, <2>4, CutIsNone
  <2>6. 1 \in 1..(Len(Encode(g, info)) + 1) /\ End(Encode(g, info), 1) = Encode(g, info)
      BY <2>3, SubSeqFull DEF End
  <2>7. QED
      BY <1>11, <2>2, <2>5, <2>6 DEF Harmless
<1>13. g = f
  <2>1. Encode(g, m[g]) = Printed(g, m[g])
      BY <1>5, <1>12, Encoded
  <2>2. Decode(Printed(g, m[g])) = [fd |-> g, info |-> m[g]]
      BY <1>5, PrintedDecoded
  <2>3. QED
      BY <1>9, <1>11, <2>1, <2>2
<1>14. b = end[f]
    BY <1>10, <1>13
<1>15. QED
    BY <1>4, <1>6, <1>9, <1>14 DEF s


=============================================================================
