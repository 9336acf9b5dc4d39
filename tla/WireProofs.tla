----------------------------- MODULE WireProofs -----------------------------
(***************************************************************************)
(* What is read is what was written, and so a client and a server of the    *)
(* bulletin board stay in step and the board is the client's adds.          *)
(*                                                                         *)
(* The readers are recursions and loops over the bytes; that they end, and  *)
(* where, is the first part.  The second is what they find behind the bytes *)
(* of each writer, from integers and strings up to whole calls and answers; *)
(* the third, the invariant WInv of the connection and the six theorems.    *)
(***************************************************************************)
EXTENDS Wire, SequenceTheorems, TLAPS

-----------------------------------------------------------------------------
(* Recursion.                                                               *)

\* The lemmas on numbers and recursion do not depend on the constants of the
\* module they are in.
G == INSTANCE OnlineCodecLemmas WITH Fds <- {}, Names <- {}, TmpSize <- 1

\* So a buffer of one byte will do.
LEMMA OneByte == 1 \in Nat \ {0}
OBVIOUS

\* A value of the function after the step depends on those of lower rank only.
DependsDownwards(D, rank, Fs, Step) ==
    \A g, h \in Fs : \A d \in D :
        (\A e \in D : rank[e] < rank[d] => g[e] = h[e]) => Step[g][d] = Step[h][d]

\* There is a function that the step does not change.
Settles(Fs, Step) == \E f \in Fs : f = Step[f]

\* A recursion in which each value depends on those of lower rank only has a
\* solution: the steps, done one rank after the other, come to rest.
LEMMA RankedRecursion ==
    ASSUME NEW D, NEW V, NEW n \in Nat, NEW rank \in [D -> 0..n],
           NEW Fs \in SUBSET [D -> V], Fs # {}, NEW Step \in [Fs -> Fs],
           DependsDownwards(D, rank, Fs, Step)
    PROVE  Settles(Fs, Step)
<1> DEFINE step == [k \in 1..(n + 1) |-> Step]
<1>1. PICK x0 \in Fs : TRUE
    OBVIOUS
<1>2. PICK F \in [0..(n + 1) -> Fs] : G!Steps(F, n + 1, x0, step)
  <2>1. step \in [1..(n + 1) -> [Fs -> Fs]] /\ n + 1 \in Nat
      OBVIOUS
  <2> HIDE DEF step
  <2>2. QED
      BY <1>1, <2>1, OneByte, G!Recursion
<1>3. ASSUME NEW k \in 0..n
      PROVE  F[k + 1] = Step[F[k]] /\ F[k] \in Fs /\ F[k + 1] \in Fs
  <2>1. k + 1 \in 1..(n + 1) /\ (k + 1) - 1 = k /\ k \in 0..(n + 1) /\ k + 1 \in 0..(n + 1)
      OBVIOUS
  <2>2. F[k + 1] = step[k + 1][F[(k + 1) - 1]]
      BY <1>2, <2>1 DEF G!Steps
  <2>3. QED
      BY <1>2, <2>1, <2>2
<1> DEFINE Settled(k) == \A d \in D : rank[d] < k => Step[F[k]][d] = F[k][d]
           T == {k \in 0..(n + 1) : Settled(k)}
<1>4. 0 \in T
  <2>1. \A d \in D : rank[d] \in 0..n
      OBVIOUS
  <2>2. \A d \in D : ~(rank[d] < 0)
      BY <2>1
  <2>3. QED
      BY <2>2
<1>5. ASSUME NEW k \in 0..n, k \in T
      PROVE  k + 1 \in T
  <2>1. ASSUME NEW d \in D, rank[d] < k + 1
        PROVE  Step[F[k + 1]][d] = F[k + 1][d]
    <3>1. ASSUME NEW e \in D, rank[e] < rank[d]
          PROVE  F[k + 1][e] = F[k][e]
      <4>1. rank[e] \in 0..n /\ rank[d] \in 0..n
          OBVIOUS
      <4>2. rank[e] < k
          BY <2>1, <3>1, <4>1
      <4>3. QED
          BY <1>3, <1>5, <4>2
    <3>2. Step[F[k + 1]][d] = Step[F[k]][d]
        BY <1>3, <3>1 DEF DependsDownwards
    <3>3. QED
        BY <1>3, <3>2
  <2>2. k + 1 \in 0..(n + 1)
      OBVIOUS
  <2>3. QED
      BY <2>1, <2>2
<1>6. T = 0..(n + 1)
  <2>1. T \in SUBSET (0..(n + 1)) /\ n + 1 \in Nat /\ (n + 1) - 1 = n
      OBVIOUS
  <2> HIDE DEF T
  <2>2. QED
      BY <1>4, <1>5, <2>1, OneByte, G!InductionUpTo
<1>7. F[n + 1] \in Fs /\ Step[F[n + 1]] \in Fs
    BY <1>3
<1>8. \A d \in D : Step[F[n + 1]][d] = F[n + 1][d]
  <2>1. Settled(n + 1)
    <3>1. n + 1 \in T
      <4>1. n + 1 \in 0..(n + 1)
          OBVIOUS
      <4> HIDE DEF T
      <4>2. QED
          BY <1>6, <4>1
    <3>2. QED
        BY <3>1
  <2>2. \A d \in D : rank[d] < n + 1
    <3>1. \A d \in D : rank[d] \in 0..n
        OBVIOUS
    <3>2. QED
        BY <3>1
  <2>3. QED
      BY <2>1, <2>2
<1>9. Step[F[n + 1]] = F[n + 1]
  <2>1. F[n + 1] \in [D -> V] /\ Step[F[n + 1]] \in [D -> V]
      BY <1>7
  <2>2. QED
      BY <1>8, <2>1
<1>10. QED
    BY <1>7, <1>9 DEF Settles

\* The values of a loop, up to its n-th round.
Rounds(F, n, start, step) == F[0] = start /\ \A k \in 1..n : F[k] = step[F[k - 1]]

\* There are such values.
LEMMA RepeatUpTo ==
    ASSUME NEW X, NEW step \in [X -> X], NEW start \in X, NEW n \in Nat
    PROVE  \E F \in [0..n -> X] : Rounds(F, n, start, step)
<1> DEFINE steps == [k \in 1..n |-> step]
<1>1. steps \in [1..n -> [X -> X]]
    OBVIOUS
<1>2. \E F \in [0..n -> X] : G!Steps(F, n, start, steps)
  <2> HIDE DEF steps
  <2>1. QED
      BY <1>1, OneByte, G!Recursion
<1>3. QED
    BY <1>2 DEF G!Steps, Rounds

\* A loop does a step more than a loop that is one round shorter.
LEMMA RepeatSteps ==
    ASSUME NEW X, NEW step \in [X -> X], NEW start \in X
    PROVE  \A n \in Int : /\ Repeat(step, start, n) \in X
                          /\ n <= 0 => Repeat(step, start, n) = start
                          /\ n > 0 => Repeat(step, start, n) = step[Repeat(step, start, n - 1)]
<1> DEFINE Good(F, n) == Rounds(F, n, start, step)
           f(n) == CHOOSE F \in [0..n -> X] : Good(F, n)
           h == [i \in Nat |-> f(i)[i]]
           Step(g) == [i \in Nat |-> IF i = 0 THEN start ELSE step[g[i - 1]]]
           at == CHOOSE g : g = Step(g)
<1>1. ASSUME NEW n \in Nat
      PROVE  f(n) \in [0..n -> X] /\ Good(f(n), n)
  <2>1. \E F \in [0..n -> X] : Good(F, n)
      BY RepeatUpTo
  <2> HIDE DEF Good
  <2>2. QED
      BY <2>1
<1>2. ASSUME NEW n \in Nat, NEW m \in Nat, m <= n
      PROVE  f(n)[m] = f(m)[m]
  <2>1. PICK a : a = f(n)
      OBVIOUS
  <2>2. PICK b : b = f(m)
      OBVIOUS
  <2>3. a \in [0..n -> X] /\ Good(a, n)
      BY <1>1, <2>1
  <2>4. b \in [0..m -> X] /\ Good(b, m)
      BY <1>1, <2>2
  <2> DEFINE T == {k \in 0..m : a[k] = b[k]}
  <2>5. 0 \in T
      BY <2>3, <2>4 DEF Rounds
  <2>6. ASSUME NEW k \in 0..(m - 1), k \in T
        PROVE  k + 1 \in T
    <3>1. k + 1 \in 1..n /\ k + 1 \in 1..m /\ (k + 1) - 1 = k
        BY <1>2
    <3>2. a[k + 1] = step[a[k]] /\ b[k + 1] = step[b[k]]
        BY <2>3, <2>4, <3>1 DEF Rounds
    <3>3. QED
        BY <2>6, <3>1, <3>2
  <2>7. T = 0..m
    <3>1. T \in SUBSET (0..m)
        OBVIOUS
    <3> HIDE DEF T
    <3>2. QED
        BY <2>5, <2>6, <3>1, OneByte, G!InductionUpTo
  <2>8. m \in T
    <3> HIDE DEF T
    <3>1. QED
        BY <2>7
  <2>9. QED
      BY <2>1, <2>2, <2>8
<1>3. ASSUME NEW n \in Nat, n > 0
      PROVE  f(n)[n] = step[f(n - 1)[n - 1]]
  <2>1. n - 1 \in Nat /\ n - 1 <= n /\ n \in 1..n
      BY <1>3
  <2>2. f(n)[n] = step[f(n)[n - 1]]
    <3>1. PICK a : a = f(n)
        OBVIOUS
    <3>2. Good(a, n)
        BY <1>1, <3>1
    <3>3. a[n] = step[a[n - 1]]
        BY <2>1, <3>2 DEF Rounds
    <3>4. QED
        BY <3>1, <3>3
  <2>3. f(n)[n - 1] = f(n - 1)[n - 1]
    <3> HIDE DEF f
    <3>1. QED
        BY <1>2, <2>1
  <2>4. QED
      BY <2>2, <2>3
<1>4. ASSUME NEW n \in Nat
      PROVE  f(n)[n] \in X
  <2> HIDE DEF f
  <2>1. QED
      BY <1>1
<1>5. f(0)[0] = start
    BY <1>1 DEF Rounds
<1> HIDE DEF f
<1>6. h \in [Nat -> X]
    BY <1>4
<1>7. ASSUME NEW n \in Nat, n > 0
      PROVE  h[n] = step[h[n - 1]]
  <2>1. n - 1 \in Nat
      BY <1>7
  <2>2. h[n] = f(n)[n] /\ h[n - 1] = f(n - 1)[n - 1]
      BY <2>1
  <2>3. QED
      BY <1>3, <1>7, <2>2
<1>8. h[0] = start
    BY <1>5
<1> HIDE DEF h
<1>9. h = Step(h)
  <2>1. \A n \in Nat : h[n] = Step(h)[n]
      BY <1>7, <1>8
  <2>2. QED
      BY <1>6, <2>1
<1>10. at = Step(at)
  <2> HIDE DEF Step
  <2>1. QED
      BY <1>9
<1>11. \A n \in Nat : at[n] = IF n = 0 THEN start ELSE step[at[n - 1]]
  <2> HIDE DEF at
  <2>1. QED
      BY <1>10
<1>12. \A n \in Int : Repeat(step, start, n) = IF n <= 0 THEN start ELSE at[n]
    BY DEF Repeat
<1> HIDE DEF at
<1> DEFINE T == {k \in Nat : at[k] \in X}
<1>13. T = Nat
  <2>1. 0 \in T
      BY <1>11
  <2>2. ASSUME NEW k \in T PROVE k + 1 \in T
    <3>1. k + 1 # 0 /\ (k + 1) - 1 = k /\ k + 1 \in Nat
        OBVIOUS
    <3>2. at[k + 1] = step[at[k]]
        BY <1>11, <3>1
    <3>3. QED
        BY <3>1, <3>2
  <2>3. T \in SUBSET Nat
      OBVIOUS
  <2> HIDE DEF T
  <2>4. QED
      BY <2>1, <2>2, <2>3, OneByte, G!Induction
<1>14. \A k \in Nat : at[k] \in X
    BY <1>13
<1>15. ASSUME NEW n \in Int
       PROVE  /\ Repeat(step, start, n) \in X
              /\ n <= 0 => Repeat(step, start, n) = start
              /\ n > 0 => Repeat(step, start, n) = step[Repeat(step, start, n - 1)]
  <2>1. CASE n <= 0
      BY <1>12, <2>1
  <2>2. CASE n > 0
    <3>1. n \in Nat /\ n # 0 /\ ~(n <= 0) /\ n - 1 \in Nat /\ n - 1 \in Int
        BY <2>2
    <3>2. Repeat(step, start, n) = at[n] /\ at[n] = step[at[n - 1]] /\ at[n] \in X
        BY <1>11, <1>12, <1>14, <3>1
    <3>3. Repeat(step, start, n - 1) = at[n - 1]
      <4>1. CASE n - 1 = 0
          BY <1>11, <1>12, <4>1
      <4>2. CASE n - 1 # 0
        <5>1. ~(n - 1 <= 0)
            BY <3>1, <4>2
        <5>2. QED
            BY <1>12, <3>1, <5>1
      <4>3. QED
          BY <4>1, <4>2
    <3>4. QED
        BY <2>2, <3>2, <3>3
  <2>3. QED
      BY <2>1, <2>2
<1>16. QED
    BY <1>15

\* The same of loops over natural numbers.
LEMMA RepeatOnNat ==
    ASSUME NEW f \in [Nat -> Nat], NEW start \in Nat
    PROVE  \A n \in Int : /\ Repeat(f, start, n) \in Nat
                          /\ n <= 0 => Repeat(f, start, n) = start
                          /\ n > 0 => Repeat(f, start, n) = f[Repeat(f, start, n - 1)]
<1>1. PICK X : X = Nat
    OBVIOUS
<1>2. f \in [X -> X] /\ start \in X
    BY <1>1
<1>3. \A n \in Int : /\ Repeat(f, start, n) \in X
                     /\ n <= 0 => Repeat(f, start, n) = start
                     /\ n > 0 => Repeat(f, start, n) = f[Repeat(f, start, n - 1)]
    BY <1>2, RepeatSteps
<1>4. QED
    BY <1>1, <1>3

\* A loop whose steps go forward goes forward, and depends on the steps from
\* where it starts only.
LEMMA RepeatForward ==
    ASSUME NEW f \in [Nat -> Nat], \A q \in Nat : f[q] >= q, NEW start \in Nat, NEW n \in Int
    PROVE  Repeat(f, start, n) \in Nat /\ Repeat(f, start, n) >= start
<1> DEFINE R(k) == Repeat(f, start, k)
           T == {k \in Nat : R(k) >= start}
<1>1. \A k \in Int : R(k) \in Nat /\ (k <= 0 => R(k) = start) /\ (k > 0 => R(k) = f[R(k - 1)])
    BY RepeatOnNat
<1> HIDE DEF R
<1>2. 0 \in T
    BY <1>1
<1>3. ASSUME NEW k \in T PROVE k + 1 \in T
  <2>1. k + 1 \in Int /\ k + 1 > 0 /\ (k + 1) - 1 = k /\ k + 1 \in Nat /\ k \in Int
      OBVIOUS
  <2>2. R(k + 1) = f[R(k)] /\ R(k) \in Nat /\ R(k) >= start
      BY <1>1, <2>1
  <2>3. f[R(k)] >= R(k) /\ f[R(k)] \in Nat
      BY <2>2
  <2>4. QED
      BY <2>1, <2>2, <2>3
<1>4. T = Nat
  <2>1. T \in SUBSET Nat
      OBVIOUS
  <2> HIDE DEF T
  <2>2. QED
      BY <1>2, <1>3, <2>1, OneByte, G!Induction
<1>5. CASE n \in Nat
    BY <1>1, <1>4, <1>5 DEF R
<1>6. CASE n \notin Nat
  <2>1. R(n) = start
      BY <1>1, <1>6
  <2>2. QED
      BY <2>1 DEF R
<1>7. QED
    BY <1>5, <1>6

\* Two loops whose steps are the same from the start on.  Of the second nothing
\* else need be known.
LEMMA RepeatAgrees ==
    ASSUME NEW f \in [Nat -> Nat], \A q \in Nat : f[q] >= q, NEW g, NEW start \in Nat,
           \A q \in Nat : q >= start => f[q] = g[q], NEW n \in Int
    PROVE  Repeat(f, start, n) = Repeat(g, start, n)
<1> DEFINE R(k) == Repeat(f, start, k)
           h == [i \in Nat |-> R(i)]
           Step(x) == [i \in Nat |-> IF i = 0 THEN start ELSE g[x[i - 1]]]
           at == CHOOSE x : x = Step(x)
           T == {k \in Nat : R(k) = at[k]}
<1>1. \A k \in Int : R(k) \in Nat /\ (k <= 0 => R(k) = start) /\ (k > 0 => R(k) = f[R(k - 1)])
    BY RepeatOnNat
<1>2. \A k \in Int : R(k) >= start
    BY RepeatForward
<1>3. Repeat(g, start, n) = IF n <= 0 THEN start ELSE at[n]
    BY DEF Repeat
<1>4. R(n) = Repeat(f, start, n)
    OBVIOUS
<1> HIDE DEF R
<1>5. \A k \in Nat : h[k] = R(k)
    OBVIOUS
<1>6. ASSUME NEW k \in Nat PROVE h[k] = Step(h)[k]
  <2>1. CASE k = 0
      BY <1>1, <2>1
  <2>2. CASE k # 0
    <3>1. k > 0 /\ k - 1 \in Nat /\ k \in Int /\ k - 1 \in Int
        BY <2>2
    <3>2. h[k] = f[R(k - 1)] /\ h[k - 1] = R(k - 1) /\ R(k - 1) \in Nat /\ R(k - 1) >= start
        BY <1>1, <1>2, <1>5, <3>1
    <3>3. f[R(k - 1)] = g[R(k - 1)]
        BY <3>2
    <3>4. QED
        BY <2>2, <3>2, <3>3
  <2>3. QED
      BY <2>1, <2>2
<1>7. h = Step(h)
    BY <1>6
<1> HIDE DEF h
<1>8. at = Step(at)
  <2> HIDE DEF Step
  <2>1. QED
      BY <1>7
<1>9. \A k \in Nat : at[k] = IF k = 0 THEN start ELSE g[at[k - 1]]
  <2> HIDE DEF at
  <2>1. QED
      BY <1>8
<1> HIDE DEF at
<1>10. 0 \in T
    BY <1>1, <1>9
<1>11. ASSUME NEW k \in T PROVE k + 1 \in T
  <2>1. /\ k + 1 \in Int /\ k + 1 > 0 /\ k + 1 # 0 /\ (k + 1) - 1 = k /\ k + 1 \in Nat
        /\ k \in Int /\ R(k) = at[k]
      OBVIOUS
  <2>2. R(k + 1) = f[R(k)] /\ at[k + 1] = g[at[k]]
      BY <1>1, <1>9, <2>1
  <2>3. f[R(k)] = g[R(k)]
      BY <1>1, <1>2, <2>1
  <2>4. QED
      BY <2>1, <2>2, <2>3
<1>12. T = Nat
  <2>1. T \in SUBSET Nat
      OBVIOUS
  <2> HIDE DEF T
  <2>2. QED
      BY <1>10, <1>11, <2>1, OneByte, G!Induction
<1>13. CASE n > 0
  <2>1. n \in T /\ ~(n <= 0)
    <3>1. n \in Nat /\ ~(n <= 0)
        BY <1>13
    <3> HIDE DEF T
    <3>2. QED
        BY <1>12, <3>1
  <2>2. QED
      BY <1>3, <1>4, <2>1
<1>14. CASE ~(n > 0)
    BY <1>1, <1>3, <1>4, <1>14
<1>15. QED
    BY <1>13, <1>14

\* A loop of no rounds, whatever its steps.
LEMMA RepeatNone ==
    ASSUME NEW f, NEW start, NEW n \in Int, n <= 0
    PROVE  Repeat(f, start, n) = start
BY DEF Repeat

-----------------------------------------------------------------------------
(* Readers of any bytes: what comes out of them, whatever comes in.         *)

\* A byte read is a byte, and 0 behind the end.
LEMMA ByteType ==
    ASSUME NEW s \in Seq(Byte), NEW p
    PROVE  ByteAt(s, p) \in Byte /\ (p \in Nat /\ p > Len(s) => ByteAt(s, p) = 0)
BY DEF ByteAt, Byte

\* Numbers of two and of four bytes.
LEMMA NumberType ==
    ASSUME NEW s \in Seq(Byte), NEW p
    PROVE  /\ I16At(s, p) \in Int
           /\ I32At(s, p) \in Int /\ I32At(s, p) >= -1
           /\ p \in Nat /\ p > Len(s) => I32At(s, p) = 0
<1>1. /\ ByteAt(s, p) \in Byte /\ ByteAt(s, p + 1) \in Byte
      /\ ByteAt(s, p + 2) \in Byte /\ ByteAt(s, p + 3) \in Byte
    BY ByteType
<1>2. I16At(s, p) \in Int
  <2>1. PICK a \in 0..255, b \in 0..255 : a = ByteAt(s, p) /\ b = ByteAt(s, p + 1)
      BY <1>1 DEF Byte
  <2>2. I16At(s, p) = IF 256 * a + b < 32768 THEN 256 * a + b ELSE 256 * a + b - 65536
      BY <2>1, SMT DEF I16At
  <2>3. QED
      BY <2>2, SMT
<1>3. I32At(s, p) \in Int /\ I32At(s, p) >= -1
  <2>1. PICK a \in 0..255, b \in 0..255, c \in 0..255, d \in 0..255 :
           /\ a = ByteAt(s, p) /\ b = ByteAt(s, p + 1)
           /\ c = ByteAt(s, p + 2) /\ d = ByteAt(s, p + 3)
      BY <1>1 DEF Byte
  <2>2. I32At(s, p) = IF a >= 128 THEN -1 ELSE 16777216 * a + 65536 * b + 256 * c + d
      BY <2>1, SMT DEF I32At, NegativeAt
  <2>3. QED
      BY <2>2, SMT
<1>4. ASSUME p \in Nat, p > Len(s)
      PROVE  I32At(s, p) = 0
  <2>1. p + 1 > Len(s) /\ p + 2 > Len(s) /\ p + 3 > Len(s)
      BY <1>4
  <2>2. /\ ByteAt(s, p) = 0 /\ ByteAt(s, p + 1) = 0 /\ ByteAt(s, p + 2) = 0
        /\ ByteAt(s, p + 3) = 0
      BY <1>4, <2>1, ByteType
  <2>3. QED
      BY <2>2 DEF I32At, NegativeAt
<1>5. QED
    BY <1>2, <1>3, <1>4

\* Behind a string.
LEMMA AfterStringType ==
    ASSUME NEW s \in Seq(Byte), NEW p \in Nat
    PROVE  AfterString(s, p) \in Nat /\ AfterString(s, p) >= p + 3
<1>1. I32At(s, p) \in Int /\ I32At(s, p) >= -1
    BY NumberType
<1>2. QED
    BY <1>1 DEF AfterString

\* The widths.
LEMMA WidthType ==
    /\ DOMAIN Width = {T_BOOL, T_BYTE, T_I16, T_I32, T_I64, T_DOUBLE}
    /\ \A t \in DOMAIN Width : Width[t] \in 1..8
    /\ \A t \in DOMAIN Width : t \in Byte /\ t \notin {T_STOP, T_STRING, T_STRUCT, T_SET, T_LIST, T_MAP}
BY DEF Width, T_BOOL, T_BYTE, T_I16, T_I32, T_I64, T_DOUBLE, T_STOP, T_STRING, T_STRUCT, T_SET,
       T_LIST, T_MAP, Byte

\* The types are bytes.
LEMMA TypesAreBytes ==
    {T_STOP, T_STRING, T_STRUCT, T_SET, T_LIST, T_MAP} \subseteq Byte
BY DEF T_STOP, T_STRING, T_STRUCT, T_SET, T_LIST, T_MAP, Byte

\* Functions that say where a value ends, which is never before it begins.
Forward == {g \in [Byte \X Nat -> Nat] : \A t \in Byte, p \in Nat : g[<<t, p>>] >= p}

\* The types have numbers of their own.
LEMMA TypesDiffer ==
    /\ T_STRING # T_STRUCT /\ T_STRING \notin {T_SET, T_LIST, T_MAP}
    /\ T_STRUCT \notin {T_SET, T_LIST, T_MAP} /\ T_MAP \notin {T_SET, T_LIST}
    /\ T_STRING \notin DOMAIN Width /\ T_STRUCT \notin DOMAIN Width
    /\ T_SET \notin DOMAIN Width /\ T_LIST \notin DOMAIN Width /\ T_MAP \notin DOMAIN Width
<1>1. /\ T_STRING # T_STRUCT /\ T_STRING \notin {T_SET, T_LIST, T_MAP}
      /\ T_STRUCT \notin {T_SET, T_LIST, T_MAP} /\ T_MAP \notin {T_SET, T_LIST}
    BY DEF T_STRING, T_STRUCT, T_SET, T_LIST, T_MAP
<1>2. QED
    BY <1>1, WidthType

\* The body for each type.
LEMMA SkipBodyCases ==
    ASSUME NEW s, NEW g, NEW t, NEW p
    PROVE  /\ t \in DOMAIN Width => SkipBody(s, g, t, p) = p + Width[t]
           /\ t = T_STRING => SkipBody(s, g, t, p) = AfterString(s, p)
           /\ t = T_STRUCT => SkipBody(s, g, t, p) = StructBody(s, g, p)
           /\ t \in {T_SET, T_LIST} => SkipBody(s, g, t, p) = ListBody(s, g, p)
           /\ t = T_MAP => SkipBody(s, g, t, p) = MapBody(s, g, p)
           /\ t \notin DOMAIN Width /\ t \notin {T_STRING, T_STRUCT, T_SET, T_LIST, T_MAP}
                  => SkipBody(s, g, t, p) = p
BY TypesDiffer DEF SkipBody

\* One and two values skipped, as the rounds of a loop.
LEMMA LoopSteps ==
    ASSUME NEW g \in Forward, NEW a \in Byte, NEW b \in Byte
    PROVE  /\ [q \in Nat |-> g[<<a, q>>]] \in [Nat -> Nat]
           /\ \A q \in Nat : g[<<a, q>>] >= q /\ g[<<a, q>>] \in Nat
           /\ [q \in Nat |-> g[<<b, g[<<a, q>>]>>]] \in [Nat -> Nat]
           /\ \A q \in Nat : g[<<b, g[<<a, q>>]>>] >= q
<1>1. \A q \in Nat : g[<<a, q>>] >= q /\ g[<<a, q>>] \in Nat
    BY DEF Forward
<1>2. \A q \in Nat : g[<<b, q>>] >= q /\ g[<<b, q>>] \in Nat
    BY DEF Forward
<1>3. \A q \in Nat : g[<<b, g[<<a, q>>]>>] \in Nat /\ g[<<b, g[<<a, q>>]>>] >= q
  <2>1. ASSUME NEW q \in Nat
        PROVE  g[<<b, g[<<a, q>>]>>] \in Nat /\ g[<<b, g[<<a, q>>]>>] >= q
    <3>1. PICK x \in Nat : x = g[<<a, q>>] /\ x >= q
        BY <1>1
    <3>2. g[<<b, x>>] \in Nat /\ g[<<b, x>>] >= x
        BY <1>2
    <3>3. QED
        BY <3>1, <3>2
  <2>2. QED
      BY <2>1
<1>4. QED
    BY <1>1, <1>3

\* A body that goes forward when what it calls does.
LEMMA BodyForward ==
    ASSUME NEW s \in Seq(Byte), NEW g \in Forward, NEW t \in Byte, NEW p \in Nat
    PROVE  SkipBody(s, g, t, p) \in Nat /\ SkipBody(s, g, t, p) >= p
<1>1. CASE t \in DOMAIN Width
  <2>1. Width[t] \in Nat
      BY <1>1, WidthType
  <2>2. SkipBody(s, g, t, p) = p + Width[t]
      BY <1>1, SkipBodyCases
  <2>3. QED
      BY <2>1, <2>2
<1>2. CASE t = T_STRING
  <2>1. AfterString(s, p) \in Nat /\ AfterString(s, p) >= p + 3
      BY AfterStringType
  <2>2. QED
      BY <1>2, <2>1, SkipBodyCases
<1>3. CASE t = T_STRUCT
  <2>1. CASE FieldTypeAt(s, p) = T_STOP
    <3>1. SkipBody(s, g, T_STRUCT, p) = p + 1
        BY <2>1, SkipBodyCases, ZenonT(60) DEF StructBody
    <3>2. QED
        BY <1>3, <3>1
  <2>2. CASE FieldTypeAt(s, p) # T_STOP
    <3>1. FieldTypeAt(s, p) \in Byte /\ T_STRUCT \in Byte
        BY ByteType, TypesAreBytes DEF FieldTypeAt
    <3>2. PICK f \in Byte : f = FieldTypeAt(s, p)
        BY <3>1
    <3>3. \A q \in Nat : g[<<T_STRUCT, g[<<f, q>>]>>] \in Nat /\ g[<<T_STRUCT, g[<<f, q>>]>>] >= q
      <4>1. [q \in Nat |-> g[<<T_STRUCT, g[<<f, q>>]>>]] \in [Nat -> Nat]
            /\ \A q \in Nat : g[<<T_STRUCT, g[<<f, q>>]>>] >= q
          BY <3>1, LoopSteps
      <4>2. QED
          BY <4>1
    <3>4. p + 3 \in Nat
        OBVIOUS
    <3>5. SkipBody(s, g, T_STRUCT, p) = g[<<T_STRUCT, g[<<f, p + 3>>]>>]
      <4>1. StructBody(s, g, p) = g[<<T_STRUCT, g[<<f, p + 3>>]>>]
          BY <2>2, <3>2 DEF StructBody, AfterFieldBegin
      <4>2. QED
          BY <4>1, SkipBodyCases
    <3>6. PICK x \in Nat : x = g[<<T_STRUCT, g[<<f, p + 3>>]>>] /\ x >= p + 3
        BY <3>3, <3>4
    <3>7. QED
        BY <1>3, <3>5, <3>6
  <2>3. QED
      BY <2>1, <2>2
<1>4. CASE t \in {T_SET, T_LIST}
  <2>1. PICK a \in Byte : a = ByteAt(s, p)
      BY ByteType
  <2>2. PICK f : f = [q \in Nat |-> g[<<a, q>>]]
      OBVIOUS
  <2>3. f \in [Nat -> Nat] /\ \A q \in Nat : f[q] >= q
      BY <2>2, LoopSteps
  <2>4. PICK n \in Int : n = I32At(s, p + 1)
      BY NumberType
  <2>5. p + 5 \in Nat
      OBVIOUS
  <2>6. Repeat(f, p + 5, n) \in Nat /\ Repeat(f, p + 5, n) >= p + 5
      BY <2>3, <2>5, RepeatForward
  <2>7. SkipBody(s, g, t, p) = Repeat(f, p + 5, n)
    <3>1. ListBody(s, g, p) = Repeat(f, p + 5, n)
        BY <2>1, <2>2, <2>4 DEF ListBody
    <3>2. QED
        BY <1>4, <3>1, SkipBodyCases
  <2>8. QED
      BY <2>6, <2>7
<1>5. CASE t = T_MAP
  <2>1. PICK a \in Byte : a = ByteAt(s, p)
      BY ByteType
  <2>2. PICK b \in Byte : b = ByteAt(s, p + 1)
      BY ByteType
  <2>3. PICK f : f = [q \in Nat |-> g[<<b, g[<<a, q>>]>>]]
      OBVIOUS
  <2>4. f \in [Nat -> Nat] /\ \A q \in Nat : f[q] >= q
      BY <2>3, LoopSteps
  <2>5. PICK n \in Int : n = I32At(s, p + 2)
      BY NumberType
  <2>6. p + 6 \in Nat
      OBVIOUS
  <2>7. Repeat(f, p + 6, n) \in Nat /\ Repeat(f, p + 6, n) >= p + 6
      BY <2>4, <2>6, RepeatForward
  <2>8. SkipBody(s, g, t, p) = Repeat(f, p + 6, n)
    <3>1. MapBody(s, g, p) = Repeat(f, p + 6, n)
        BY <2>1, <2>2, <2>3, <2>5 DEF MapBody
    <3>2. QED
        BY <1>5, <3>1, SkipBodyCases
  <2>9. QED
      BY <2>7, <2>8
<1>6. CASE t \notin DOMAIN Width /\ t \notin {T_STRING, T_STRUCT, T_SET, T_LIST, T_MAP}
  <2>1. SkipBody(s, g, t, p) = p
      BY <1>6, SkipBodyCases
  <2>2. QED
      BY <2>1
<1>7. QED
    BY <1>1, <1>2, <1>3, <1>4, <1>5, <1>6

\* A body depends only on what it calls behind its own beginning, and on
\* nothing behind the end of the bytes.
LEMMA BodyAgrees ==
    ASSUME NEW s \in Seq(Byte), NEW g \in Forward, NEW h, NEW t \in Byte, NEW p \in Nat,
           p <= Len(s) => \A a \in Byte, q \in Nat : q > p => g[<<a, q>>] = h[<<a, q>>]
    PROVE  SkipBody(s, g, t, p) = SkipBody(s, h, t, p)
<1>1. CASE t \in DOMAIN Width
    BY <1>1, SkipBodyCases
<1>2. CASE t = T_STRING
    BY <1>2, SkipBodyCases
<1>3. CASE t = T_STRUCT
  <2>1. CASE FieldTypeAt(s, p) = T_STOP
    <3>1. StructBody(s, g, p) = StructBody(s, h, p)
        BY <2>1 DEF StructBody
    <3>2. QED
        BY <1>3, <3>1, SkipBodyCases
  <2>2. CASE FieldTypeAt(s, p) # T_STOP
    <3>1. PICK f \in Byte : f = FieldTypeAt(s, p)
        BY ByteType DEF FieldTypeAt
    <3>2. p <= Len(s)
      <4>1. Len(s) \in Nat
          OBVIOUS
      <4>2. QED
          BY <2>2, <4>1, ByteType DEF FieldTypeAt, T_STOP
    <3>3. T_STRUCT \in Byte /\ p + 3 \in Nat /\ p + 3 > p
        BY TypesAreBytes
    <3>4. PICK x \in Nat : x = g[<<f, p + 3>>] /\ x >= p + 3
        BY <3>3, LoopSteps
    <3>5. h[<<f, p + 3>>] = x
        BY <3>2, <3>3, <3>4
    <3>6. x > p
        BY <3>3, <3>4
    <3>7. g[<<T_STRUCT, x>>] = h[<<T_STRUCT, x>>]
        BY <3>2, <3>3, <3>6
    <3>8. /\ SkipBody(s, g, T_STRUCT, p) = g[<<T_STRUCT, g[<<f, p + 3>>]>>]
          /\ SkipBody(s, h, T_STRUCT, p) = h[<<T_STRUCT, h[<<f, p + 3>>]>>]
      <4>1. /\ StructBody(s, g, p) = g[<<T_STRUCT, g[<<f, p + 3>>]>>]
            /\ StructBody(s, h, p) = h[<<T_STRUCT, h[<<f, p + 3>>]>>]
          BY <2>2, <3>1 DEF StructBody, AfterFieldBegin
      <4>2. QED
          BY <4>1, SkipBodyCases
    <3>9. QED
        BY <1>3, <3>4, <3>5, <3>7, <3>8
  <2>3. QED
      BY <2>1, <2>2
<1>4. CASE t \in {T_SET, T_LIST}
  <2>1. PICK a \in Byte : a = ByteAt(s, p)
      BY ByteType
  <2>2. PICK n \in Int : n = I32At(s, p + 1)
      BY NumberType
  <2>3. PICK f : f = [q \in Nat |-> g[<<a, q>>]]
      OBVIOUS
  <2>4. PICK k : k = [q \in Nat |-> h[<<a, q>>]]
      OBVIOUS
  <2>5. f \in [Nat -> Nat] /\ \A q \in Nat : f[q] >= q
      BY <2>3, LoopSteps
  <2>7. p + 5 \in Nat
      OBVIOUS
  <2>8. Repeat(f, p + 5, n) = Repeat(k, p + 5, n)
    <3>1. CASE p <= Len(s)
      <4>1. \A q \in Nat : q >= p + 5 => f[q] = k[q]
          BY <2>3, <2>4, <3>1
      <4>2. QED
          BY <2>5, <2>7, <4>1, RepeatAgrees
    <3>2. CASE ~(p <= Len(s))
      <4>1. n = 0
        <5>1. p + 1 \in Nat /\ p + 1 > Len(s)
            BY <3>2
        <5>2. QED
            BY <2>2, <5>1, NumberType
      <4>2. QED
        <5>1. n \in Int /\ n <= 0
            BY <4>1
        <5>2. QED
            BY <5>1, RepeatNone
    <3>3. QED
        BY <3>1, <3>2
  <2>9. /\ SkipBody(s, g, t, p) = Repeat(f, p + 5, n)
        /\ SkipBody(s, h, t, p) = Repeat(k, p + 5, n)
    <3>1. ListBody(s, g, p) = Repeat(f, p + 5, n)
        BY <2>1, <2>2, <2>3 DEF ListBody
    <3>2. ListBody(s, h, p) = Repeat(k, p + 5, n)
        BY <2>1, <2>2, <2>4 DEF ListBody
    <3>3. QED
        BY <1>4, <3>1, <3>2, SkipBodyCases
  <2>10. QED
      BY <2>8, <2>9
<1>5. CASE t = T_MAP
  <2>1. PICK a \in Byte : a = ByteAt(s, p)
      BY ByteType
  <2>2. PICK b \in Byte : b = ByteAt(s, p + 1)
      BY ByteType
  <2>3. PICK n \in Int : n = I32At(s, p + 2)
      BY NumberType
  <2>4. PICK f : f = [q \in Nat |-> g[<<b, g[<<a, q>>]>>]]
      OBVIOUS
  <2>5. PICK k : k = [q \in Nat |-> h[<<b, h[<<a, q>>]>>]]
      OBVIOUS
  <2>6. f \in [Nat -> Nat] /\ \A q \in Nat : f[q] >= q
      BY <2>4, LoopSteps
  <2>8. p + 6 \in Nat
      OBVIOUS
  <2>9. Repeat(f, p + 6, n) = Repeat(k, p + 6, n)
    <3>1. CASE p <= Len(s)
      <4>1. ASSUME NEW q \in Nat, q >= p + 6
            PROVE  f[q] = k[q]
        <5>1. PICK x \in Nat : x = g[<<a, q>>] /\ x >= q
            BY LoopSteps
        <5>2. q > p /\ x > p
            BY <4>1, <5>1
        <5>3. h[<<a, q>>] = x /\ g[<<b, x>>] = h[<<b, x>>]
            BY <3>1, <5>1, <5>2
        <5>4. f[q] = g[<<b, g[<<a, q>>]>>] /\ k[q] = h[<<b, h[<<a, q>>]>>]
            BY <2>4, <2>5
        <5>5. QED
            BY <5>1, <5>3, <5>4
      <4>2. QED
          BY <2>6, <2>8, <4>1, RepeatAgrees
    <3>2. CASE ~(p <= Len(s))
      <4>1. n = 0
        <5>1. p + 2 \in Nat /\ p + 2 > Len(s)
            BY <3>2
        <5>2. QED
            BY <2>3, <5>1, NumberType
      <4>2. QED
        <5>1. n \in Int /\ n <= 0
            BY <4>1
        <5>2. QED
            BY <5>1, RepeatNone
    <3>3. QED
        BY <3>1, <3>2
  <2>10. /\ SkipBody(s, g, t, p) = Repeat(f, p + 6, n)
         /\ SkipBody(s, h, t, p) = Repeat(k, p + 6, n)
    <3>1. MapBody(s, g, p) = Repeat(f, p + 6, n)
        BY <2>1, <2>2, <2>3, <2>4 DEF MapBody
    <3>2. MapBody(s, h, p) = Repeat(k, p + 6, n)
        BY <2>1, <2>2, <2>3, <2>5 DEF MapBody
    <3>3. QED
        BY <1>5, <3>1, <3>2, SkipBodyCases
  <2>11. QED
      BY <2>9, <2>10
<1>6. CASE t \notin DOMAIN Width /\ t \notin {T_STRING, T_STRUCT, T_SET, T_LIST, T_MAP}
    BY <1>6, SkipBodyCases
<1>7. QED
    BY <1>1, <1>2, <1>3, <1>4, <1>5, <1>6

\* How far a position is from the end.
Distance(s, p) == IF p > Len(s) THEN 0 ELSE Len(s) + 1 - p

\* What skipType calls is closer to the end.
LEMMA DistanceFalls ==
    ASSUME NEW s \in Seq(Byte), NEW p \in Nat, p <= Len(s), NEW q \in Nat, q > p
    PROVE  Distance(s, q) < Distance(s, p)
<1>1. Len(s) \in Nat
    OBVIOUS
<1>2. QED
    BY <1>1 DEF Distance

\* There is a function that does what the body of skipType says.
LEMMA SkipExists ==
    ASSUME NEW s \in Seq(Byte)
    PROVE  \E g \in Forward : g = [v \in Byte \X Nat |-> SkipBody(s, g, v[1], v[2])]
<1> DEFINE D == Byte \X Nat
           n == Len(s) + 1
           rank == [d \in D |-> Distance(s, d[2])]
           Step == [g \in Forward |-> [v \in Byte \X Nat |-> SkipBody(s, g, v[1], v[2])]]
<1>1. n \in Nat /\ rank \in [D -> 0..n]
  <2>1. \A d \in D : d[2] \in Nat
      OBVIOUS
  <2>2. Len(s) \in Nat
      OBVIOUS
  <2>3. QED
      BY <2>1, <2>2 DEF Distance
<1>2. Forward \in SUBSET [D -> Nat] /\ Forward # {}
  <2>1. [d \in D |-> d[2]] \in Forward
    <3>1. [d \in D |-> d[2]] \in [D -> Nat]
        OBVIOUS
    <3>2. \A t \in Byte, p \in Nat : [d \in D |-> d[2]][<<t, p>>] = p
        OBVIOUS
    <3>3. QED
        BY <3>1, <3>2 DEF Forward
  <2>2. QED
      BY <2>1 DEF Forward
<1>3. ASSUME NEW g \in Forward
      PROVE  [v \in Byte \X Nat |-> SkipBody(s, g, v[1], v[2])] \in Forward
  <2>1. \A t \in Byte, p \in Nat : SkipBody(s, g, t, p) \in Nat /\ SkipBody(s, g, t, p) >= p
      BY BodyForward
  <2>2. PICK f : f = [v \in Byte \X Nat |-> SkipBody(s, g, v[1], v[2])]
      OBVIOUS
  <2>3. f \in [D -> Nat]
      BY <2>1, <2>2
  <2>4. \A t \in Byte, p \in Nat : f[<<t, p>>] >= p
      BY <2>1, <2>2
  <2>5. QED
      BY <2>2, <2>3, <2>4 DEF Forward
<1>4. Step \in [Forward -> Forward]
    BY <1>3
<1>5. ASSUME NEW g \in Forward, NEW h \in Forward, NEW d \in D,
             \A e \in D : rank[e] < rank[d] => g[e] = h[e]
      PROVE  Step[g][d] = Step[h][d]
  <2>1. PICK t \in Byte, p \in Nat : d = <<t, p>>
      OBVIOUS
  <2>2. p <= Len(s) => \A a \in Byte, q \in Nat : q > p => g[<<a, q>>] = h[<<a, q>>]
    <3>1. SUFFICES ASSUME p <= Len(s), NEW a \in Byte, NEW q \in Nat, q > p
                   PROVE  g[<<a, q>>] = h[<<a, q>>]
        OBVIOUS
    <3>2. rank[<<a, q>>] = Distance(s, q) /\ rank[d] = Distance(s, p) /\ <<a, q>> \in D
        BY <2>1
    <3>3. Distance(s, q) < Distance(s, p)
        BY <3>1, DistanceFalls
    <3>4. QED
        BY <1>5, <3>2, <3>3
  <2>3. SkipBody(s, g, t, p) = SkipBody(s, h, t, p)
      BY <2>2, BodyAgrees
  <2>4. Step[g][d] = SkipBody(s, g, t, p) /\ Step[h][d] = SkipBody(s, h, t, p)
      BY <2>1
  <2>5. QED
      BY <2>3, <2>4
<1>6. PICK N : N = Nat
    OBVIOUS
<1>7. Settles(Forward, Step)
  <2>1. DependsDownwards(D, rank, Forward, Step)
      BY <1>5 DEF DependsDownwards
  <2> HIDE DEF D, n, rank, Step
  <2>2. Forward \in SUBSET [D -> N]
      BY <1>2, <1>6
  <2>3. QED
      BY <1>1, <1>2, <1>4, <2>1, <2>2, RankedRecursion
<1>8. QED
    BY <1>7 DEF Settles

\* skipType returns on any bytes, and never goes back: it is that function and
\* no other, for two could only differ where they differ closer to the end.
LEMMA SkipSteps ==
    ASSUME NEW s \in Seq(Byte)
    PROVE  /\ Ends(s) \in Forward
           /\ \A t \in Byte, p \in Nat : Ends(s)[<<t, p>>] = SkipBody(s, Ends(s), t, p)
<1> DEFINE D == Byte \X Nat
           fix == CHOOSE end : end = [v \in D |-> SkipBody(s, end, v[1], v[2])]
<1>1. Ends(s) = fix
    BY DEF Ends
<1>2. PICK g \in Forward : g = [v \in D |-> SkipBody(s, g, v[1], v[2])]
    BY SkipExists
<1>3. fix = [v \in D |-> SkipBody(s, fix, v[1], v[2])]
    BY <1>2
<1> HIDE DEF fix
<1>4. \A t \in Byte, p \in Nat : /\ g[<<t, p>>] = SkipBody(s, g, t, p)
                                /\ fix[<<t, p>>] = SkipBody(s, fix, t, p)
    BY <1>2, <1>3
<1> DEFINE n == Len(s) + 1
           T == {k \in 0..n : \A t \in Byte, p \in Nat :
                    Distance(s, p) = k => g[<<t, p>>] = fix[<<t, p>>]}
<1>5. n \in Nat /\ \A p \in Nat : Distance(s, p) \in 0..n
  <2>1. Len(s) \in Nat
      OBVIOUS
  <2>2. QED
      BY <2>1 DEF Distance
<1>6. ASSUME NEW k \in 0..n, 0..(k - 1) \subseteq T
      PROVE  k \in T
  <2>1. ASSUME NEW t \in Byte, NEW p \in Nat, Distance(s, p) = k
        PROVE  g[<<t, p>>] = fix[<<t, p>>]
    <3>1. p <= Len(s) => \A a \in Byte, q \in Nat : q > p => g[<<a, q>>] = fix[<<a, q>>]
      <4>1. SUFFICES ASSUME p <= Len(s), NEW a \in Byte, NEW q \in Nat, q > p
                     PROVE  g[<<a, q>>] = fix[<<a, q>>]
          OBVIOUS
      <4>2. Distance(s, q) < k
          BY <2>1, <4>1, DistanceFalls
      <4>3. Distance(s, q) \in 0..(k - 1)
          BY <1>5, <4>2
      <4>4. Distance(s, q) \in T
          BY <1>6, <4>3
      <4>5. QED
          BY <4>4
    <3>2. SkipBody(s, g, t, p) = SkipBody(s, fix, t, p)
        BY <3>1, BodyAgrees
    <3>3. QED
        BY <1>4, <3>2
  <2>2. QED
      BY <2>1
<1>7. T = 0..n
  <2>1. T \in SUBSET (0..n)
      OBVIOUS
  <2> HIDE DEF T, n
  <2>2. QED
      BY <1>5, <1>6, <2>1, OneByte, G!StrongInductionUpTo
<1>8. \A t \in Byte, p \in Nat : g[<<t, p>>] = fix[<<t, p>>]
  <2>1. ASSUME NEW t \in Byte, NEW p \in Nat
        PROVE  g[<<t, p>>] = fix[<<t, p>>]
    <3>1. Distance(s, p) \in T
        BY <1>5, <1>7
    <3>2. QED
        BY <3>1
  <2>2. QED
      BY <2>1
<1>9. g = fix
  <2>1. \A v \in D : g[v] = fix[v]
      BY <1>8
  <2>2. DOMAIN g = D /\ DOMAIN fix = D /\ g = [v \in D |-> g[v]] /\ fix = [v \in D |-> fix[v]]
      BY <1>2, <1>3
  <2>3. QED
      BY <2>1, <2>2
<1>10. QED
    BY <1>1, <1>4, <1>9

\* skipType, type by type.
LEMMA SkipTypeSteps ==
    ASSUME NEW s \in Seq(Byte), NEW t \in Byte, NEW p \in Nat
    PROVE  /\ SkipType(s, t, p) \in Nat /\ SkipType(s, t, p) >= p
           /\ t \in DOMAIN Width => SkipType(s, t, p) = p + Width[t]
           /\ t = T_STRING => SkipType(s, t, p) = AfterString(s, p)
           /\ t = T_STRUCT =>
                 /\ FieldTypeAt(s, p) = T_STOP => SkipType(s, t, p) = p + 1
                 /\ FieldTypeAt(s, p) # T_STOP =>
                       SkipType(s, t, p) =
                           SkipType(s, T_STRUCT, SkipType(s, FieldTypeAt(s, p), AfterFieldBegin(p)))
           /\ t \in {T_SET, T_LIST} =>
                 SkipType(s, t, p) =
                     Repeat([q \in Nat |-> SkipType(s, ByteAt(s, p), q)], p + 5, I32At(s, p + 1))
           /\ t = T_MAP =>
                 SkipType(s, t, p) =
                     Repeat([q \in Nat |-> SkipType(s, ByteAt(s, p + 1), SkipType(s, ByteAt(s, p), q))],
                            p + 6, I32At(s, p + 2))
<1>1. PICK g \in Forward : g = Ends(s) /\ g[<<t, p>>] = SkipBody(s, g, t, p)
    BY SkipSteps
<1>2. \A a, q : SkipType(s, a, q) = g[<<a, q>>]
    BY <1>1 DEF SkipType
<1>3. SkipType(s, t, p) = SkipBody(s, g, t, p)
    BY <1>1, <1>2
<1>4. SkipBody(s, g, t, p) \in Nat /\ SkipBody(s, g, t, p) >= p
    BY BodyForward
<1>5. /\ FieldTypeAt(s, p) = T_STOP => StructBody(s, g, p) = p + 1
      /\ FieldTypeAt(s, p) # T_STOP =>
            StructBody(s, g, p) =
                SkipType(s, T_STRUCT, SkipType(s, FieldTypeAt(s, p), AfterFieldBegin(p)))
    BY <1>2 DEF StructBody
<1>6. ListBody(s, g, p) =
          Repeat([q \in Nat |-> SkipType(s, ByteAt(s, p), q)], p + 5, I32At(s, p + 1))
    BY <1>2 DEF ListBody
<1>7. MapBody(s, g, p) =
          Repeat([q \in Nat |-> SkipType(s, ByteAt(s, p + 1), SkipType(s, ByteAt(s, p), q))],
                 p + 6, I32At(s, p + 2))
    BY <1>2 DEF MapBody
<1>8. QED
    BY <1>3, <1>4, <1>5, <1>6, <1>7, SkipBodyCases

\* The steps that skip a structure after the other.
LEMMA SkipIsAStep ==
    ASSUME NEW s \in Seq(Byte), NEW t \in Byte
    PROVE  /\ [q \in Nat |-> SkipType(s, t, q)] \in [Nat -> Nat]
           /\ \A q \in Nat : SkipType(s, t, q) >= q
BY SkipTypeSteps

-----------------------------------------------------------------------------
(* The loop of every read.                                                  *)

\* The next field, or what is behind the stop.
NextField(s, q) == SkipType(s, FieldTypeAt(s, q), AfterFieldBegin(q))
Hit(s, q, id, type) ==
    IF FieldIdAt(s, q) = id /\ FieldTypeAt(s, q) = type THEN <<AfterFieldBegin(q)>> ELSE <<>>
FieldsBody(s, g, id, type, q) ==
    IF FieldTypeAt(s, q) = T_STOP THEN <<>> ELSE Hit(s, q, id, type) \o g[NextField(s, q)]

\* The loop goes forward.
LEMMA NextFieldType ==
    ASSUME NEW s \in Seq(Byte), NEW q \in Nat
    PROVE  /\ NextField(s, q) \in Nat /\ NextField(s, q) > q
           /\ FieldTypeAt(s, q) # T_STOP => q <= Len(s)
<1>1. FieldTypeAt(s, q) \in Byte /\ (q > Len(s) => FieldTypeAt(s, q) = 0)
    BY ByteType DEF FieldTypeAt
<1>2. AfterFieldBegin(q) \in Nat /\ AfterFieldBegin(q) > q
    BY DEF AfterFieldBegin
<1>3. NextField(s, q) \in Nat /\ NextField(s, q) >= AfterFieldBegin(q)
    BY <1>1, <1>2, SkipTypeSteps DEF NextField
<1>4. Len(s) \in Nat
    OBVIOUS
<1>5. QED
    BY <1>1, <1>2, <1>3, <1>4 DEF T_STOP

\* What the loop adds is at most one position.
LEMMA HitType ==
    ASSUME NEW s \in Seq(Byte), NEW q \in Nat, NEW id, NEW type
    PROVE  Hit(s, q, id, type) \in Seq(Nat)
BY DEF Hit, AfterFieldBegin

\* There is a function that does what the loop says.
LEMMA FieldsExist ==
    ASSUME NEW s \in Seq(Byte), NEW id, NEW type
    PROVE  \E g \in [Nat -> Seq(Nat)] : \A q \in Nat : g[q] = FieldsBody(s, g, id, type, q)
<1> DEFINE n == Len(s) + 1
           Fs == [Nat -> Seq(Nat)]
           rank == [q \in Nat |-> Distance(s, q)]
           Step == [g \in Fs |-> [q \in Nat |-> FieldsBody(s, g, id, type, q)]]
<1>1. n \in Nat /\ rank \in [Nat -> 0..n]
  <2>1. Len(s) \in Nat
      OBVIOUS
  <2>2. QED
      BY <2>1 DEF Distance
<1>2. Fs # {}
  <2>1. [q \in Nat |-> <<>>] \in Fs
      OBVIOUS
  <2>2. QED
      BY <2>1
<1>3. ASSUME NEW g \in Fs, NEW q \in Nat
      PROVE  FieldsBody(s, g, id, type, q) \in Seq(Nat)
  <2>1. g[NextField(s, q)] \in Seq(Nat)
      BY NextFieldType
  <2>2. PICK u \in Seq(Nat) : u = Hit(s, q, id, type)
      BY HitType
  <2>3. QED
      BY <2>1, <2>2 DEF FieldsBody
<1>4. Step \in [Fs -> Fs]
    BY <1>3
<1>5. ASSUME NEW g \in Fs, NEW h \in Fs, NEW d \in Nat,
             \A e \in Nat : rank[e] < rank[d] => g[e] = h[e]
      PROVE  Step[g][d] = Step[h][d]
  <2>1. FieldTypeAt(s, d) # T_STOP => g[NextField(s, d)] = h[NextField(s, d)]
    <3>1. SUFFICES ASSUME FieldTypeAt(s, d) # T_STOP
                   PROVE  g[NextField(s, d)] = h[NextField(s, d)]
        OBVIOUS
    <3>2. PICK e \in Nat : e = NextField(s, d) /\ e > d /\ d <= Len(s)
        BY <3>1, NextFieldType
    <3>3. Distance(s, e) < Distance(s, d)
        BY <3>2, DistanceFalls
    <3>4. g[e] = h[e]
        BY <1>5, <3>3
    <3>5. QED
        BY <3>2, <3>4
  <2>2. FieldsBody(s, g, id, type, d) = FieldsBody(s, h, id, type, d)
      BY <2>1 DEF FieldsBody
  <2>3. QED
      BY <2>2
<1>6. PICK N : N = Nat
    OBVIOUS
<1>7. PICK V : V = Seq(Nat)
    OBVIOUS
<1>8. Settles(Fs, Step)
  <2>1. DependsDownwards(Nat, rank, Fs, Step)
      BY <1>5 DEF DependsDownwards
  <2>2. Fs \in SUBSET [Nat -> V]
      BY <1>7
  <2> HIDE DEF n, rank, Step, Fs
  <2>3. Fs \in SUBSET [N -> V] /\ rank \in [N -> 0..n] /\ DependsDownwards(N, rank, Fs, Step)
      BY <1>1, <1>6, <2>1, <2>2
  <2>4. QED
      BY <1>1, <1>2, <1>4, <2>3, RankedRecursion
<1>9. QED
    BY <1>8 DEF Settles

\* What FieldsOf finds: nothing behind the stop, and else what the field at p
\* is and what it finds behind it.
LEMMA FieldsOfSteps ==
    ASSUME NEW s \in Seq(Byte), NEW id, NEW type
    PROVE  \A p \in Nat :
              /\ FieldsOf(s, p, id, type) \in Seq(Nat)
              /\ FieldTypeAt(s, p) = T_STOP => FieldsOf(s, p, id, type) = <<>>
              /\ FieldTypeAt(s, p) # T_STOP =>
                    FieldsOf(s, p, id, type) =
                        Hit(s, p, id, type) \o FieldsOf(s, NextField(s, p), id, type)
<1> DEFINE fix == CHOOSE from : from =
               [q \in Nat |->
                   IF FieldTypeAt(s, q) = T_STOP THEN <<>>
                   ELSE (IF FieldIdAt(s, q) = id /\ FieldTypeAt(s, q) = type
                         THEN <<AfterFieldBegin(q)>> ELSE <<>>)
                        \o from[SkipType(s, FieldTypeAt(s, q), AfterFieldBegin(q))]]
<1>1. \A p : FieldsOf(s, p, id, type) = fix[p]
    BY DEF FieldsOf
<1>2. PICK g \in [Nat -> Seq(Nat)] : \A q \in Nat : g[q] = FieldsBody(s, g, id, type, q)
    BY FieldsExist, ZenonT(60)
<1>3. g = [q \in Nat |->
              IF FieldTypeAt(s, q) = T_STOP THEN <<>>
              ELSE (IF FieldIdAt(s, q) = id /\ FieldTypeAt(s, q) = type
                    THEN <<AfterFieldBegin(q)>> ELSE <<>>)
                   \o g[SkipType(s, FieldTypeAt(s, q), AfterFieldBegin(q))]]
    BY <1>2 DEF FieldsBody, Hit, NextField
<1>4. fix = [q \in Nat |->
              IF FieldTypeAt(s, q) = T_STOP THEN <<>>
              ELSE (IF FieldIdAt(s, q) = id /\ FieldTypeAt(s, q) = type
                    THEN <<AfterFieldBegin(q)>> ELSE <<>>)
                   \o fix[SkipType(s, FieldTypeAt(s, q), AfterFieldBegin(q))]]
    BY <1>3
<1> HIDE DEF fix
<1>5. \A q \in Nat : fix[q] = FieldsBody(s, fix, id, type, q)
    BY <1>4 DEF FieldsBody, Hit, NextField
<1>6. \A q \in Nat : g[q] = FieldsBody(s, g, id, type, q)
    BY <1>2
<1> DEFINE n == Len(s) + 1
           T == {k \in 0..n : \A q \in Nat : Distance(s, q) = k => g[q] = fix[q]}
<1>7. n \in Nat /\ \A q \in Nat : Distance(s, q) \in 0..n
  <2>1. Len(s) \in Nat
      OBVIOUS
  <2>2. QED
      BY <2>1, SMTT(30) DEF Distance
<1>8. ASSUME NEW k \in 0..n, 0..(k - 1) \subseteq T
      PROVE  k \in T
  <2>1. ASSUME NEW q \in Nat, Distance(s, q) = k
        PROVE  g[q] = fix[q]
    <3>1. CASE FieldTypeAt(s, q) = T_STOP
        BY <1>5, <1>6, <3>1 DEF FieldsBody
    <3>2. CASE FieldTypeAt(s, q) # T_STOP
      <4>1. PICK e \in Nat : e = NextField(s, q) /\ e > q /\ q <= Len(s)
          BY <3>2, NextFieldType
      <4>2. Distance(s, e) < k
          BY <2>1, <4>1, DistanceFalls
      <4>3. Distance(s, e) \in 0..(k - 1)
          BY <1>7, <4>2
      <4>4. Distance(s, e) \in T
          BY <1>8, <4>3
      <4>5. g[e] = fix[e]
          BY <4>4
      <4>6. FieldsBody(s, g, id, type, q) = FieldsBody(s, fix, id, type, q)
          BY <4>1, <4>5 DEF FieldsBody
      <4>7. QED
          BY <1>5, <1>6, <4>6
    <3>3. QED
        BY <3>1, <3>2
  <2>2. QED
      BY <2>1
<1>9. T = 0..n
  <2>1. T \in SUBSET (0..n)
      OBVIOUS
  <2> HIDE DEF T, n
  <2>2. QED
      BY <1>7, <1>8, <2>1, OneByte, G!StrongInductionUpTo
<1>10. \A q \in Nat : g[q] = fix[q]
  <2>1. ASSUME NEW q \in Nat
        PROVE  g[q] = fix[q]
    <3>1. Distance(s, q) \in T
        BY <1>7, <1>9
    <3>2. QED
        BY <3>1
  <2>2. QED
      BY <2>1
<1>11. \A q \in Nat : FieldsOf(s, q, id, type) = g[q]
    BY <1>1, <1>10
<1>12. ASSUME NEW p \in Nat
       PROVE  /\ FieldsOf(s, p, id, type) \in Seq(Nat)
              /\ FieldTypeAt(s, p) = T_STOP => FieldsOf(s, p, id, type) = <<>>
              /\ FieldTypeAt(s, p) # T_STOP =>
                    FieldsOf(s, p, id, type) =
                        Hit(s, p, id, type) \o FieldsOf(s, NextField(s, p), id, type)
  <2>1. NextField(s, p) \in Nat
      BY NextFieldType
  <2>2. FieldsOf(s, p, id, type) = g[p]
        /\ FieldsOf(s, NextField(s, p), id, type) = g[NextField(s, p)]
      BY <1>11, <2>1
  <2>3. QED
      BY <1>6, <2>2 DEF FieldsBody
<1>13. QED
    BY <1>12

\* Fields that are set or not, messages, and results of get.
Fields == {f \in Seq(Seq(Byte)) : Len(f) <= 1}
Message == [text : Fields, date : Fields]
Results == {f \in Seq(Seq(Message)) : Len(f) <= 1}

\* They are those of the type invariant.
LEMMA MessageType == \A m : IsMessage(m) <=> m \in Message
BY DEF IsMessage, IsField, Fields, Message

\* The least element.
LEMMA Least ==
    ASSUME NEW S \in SUBSET Nat, S # {}
    PROVE  Min(S) \in S /\ \A k \in S : Min(S) <= k
BY OneByte, G!LeastNumber DEF Min

\* Bytes that were read are bytes.
LEMMA BytesRead ==
    ASSUME NEW s \in Seq(Byte), NEW p \in Int, NEW n \in Int
    PROVE  [i \in 1..n |-> ByteAt(s, p + i)] \in Seq(Byte)
<1>1. \A i \in 1..n : ByteAt(s, p + i) \in Byte
    BY ByteType
<1>2. CASE n >= 0
  <2>1. [i \in 1..n |-> ByteAt(s, p + i)] \in [1..n -> Byte]
      BY <1>1
  <2>2. PICK m \in Nat : m = n
      BY <1>2
  <2>3. PICK f : f = [i \in 1..n |-> ByteAt(s, p + i)]
      OBVIOUS
  <2>4. f \in [1..m -> Byte]
      BY <2>1, <2>2, <2>3
  <2>5. f \in Seq(Byte)
      BY <2>4
  <2>6. QED
      BY <2>3, <2>5
<1>3. CASE ~(n >= 0)
  <2>1. [i \in 1..n |-> ByteAt(s, p + i)] = <<>>
      BY <1>3
  <2>2. QED
      BY <2>1
<1>4. QED
    BY <1>2, <1>3

\* CString ends at the first zero byte: what it gives has none, and is the
\* text when the text has none.
LEMMA CStringType ==
    ASSUME NEW t \in Seq(Byte)
    PROVE  /\ CString(t) \in Seq(Byte) /\ Len(CString(t)) <= Len(t)
           /\ \A i \in 1..Len(CString(t)) : CString(t)[i] # 0
           /\ (\A i \in 1..Len(t) : t[i] # 0) => CString(t) = t
           /\ CString(CString(t)) = CString(t)
<1> DEFINE zeros(u) == {i \in DOMAIN u : u[i] = 0}
<1>1. ASSUME NEW u \in Seq(Byte), \A i \in 1..Len(u) : u[i] # 0
      PROVE  CString(u) = u
  <2>1. zeros(u) = {}
      BY <1>1
  <2>2. QED
      BY <2>1 DEF CString
<1>2. CASE zeros(t) = {}
  <2>1. \A i \in 1..Len(t) : t[i] # 0
      BY <1>2
  <2>2. QED
      BY <1>1, <2>1
<1>3. CASE zeros(t) # {}
  <2>1. PICK k \in 1..Len(t) : k = Min(zeros(t)) /\ \A i \in 1..Len(t) : i < k => t[i] # 0
    <3>1. zeros(t) \in SUBSET Nat
        OBVIOUS
    <3>2. PICK k : k = Min(zeros(t)) /\ k \in zeros(t) /\ \A i \in zeros(t) : k <= i
      <4> HIDE DEF zeros
      <4>1. QED
          BY <1>3, <3>1, Least
    <3>3. k \in 1..Len(t)
        BY <3>2
    <3>4. ASSUME NEW i \in 1..Len(t), i < k, t[i] = 0
          PROVE  FALSE
      <4>1. i \in zeros(t)
          BY <3>4
      <4>2. k <= i
          BY <3>2, <4>1
      <4>3. QED
          BY <3>3, <3>4, <4>2
    <3>5. QED
        BY <3>2, <3>3, <3>4
  <2>2. CString(t) = SubSeq(t, 1, k - 1)
      BY <1>3, <2>1 DEF CString
  <2>3. SubSeq(t, 1, k - 1) \in Seq(Byte) /\ Len(SubSeq(t, 1, k - 1)) = k - 1
        /\ \A i \in 1..(k - 1) : SubSeq(t, 1, k - 1)[i] = t[i]
    <3>1. \A i \in 1..(k - 1) : t[i] \in Byte
        OBVIOUS
    <3>2. k - 1 \in Nat
        OBVIOUS
    <3>3. QED
        BY <3>1, <3>2
  <2>4. \A i \in 1..(k - 1) : t[i] # 0
      BY <2>1
  <2>5. CString(CString(t)) = CString(t)
      BY <1>1, <2>2, <2>3, <2>4
  <2>6. ~(\A i \in 1..Len(t) : t[i] # 0)
      BY <1>3
  <2>7. QED
      BY <2>2, <2>3, <2>4, <2>5, <2>6
<1>4. QED
    BY <1>2, <1>3

\* Strings read are texts.
LEMMA StringType ==
    ASSUME NEW s \in Seq(Byte), NEW p \in Nat
    PROVE  /\ StringAt(s, p) \in Seq(Byte)
           /\ LibStringAt(s, p) \in Seq(Byte)
           /\ CString(LibStringAt(s, p)) \in Seq(Byte)
<1>1. PICK n \in Int : n = I32At(s, p)
    BY NumberType
<1>2. LibStringAt(s, p) \in Seq(Byte)
  <2>1. [i \in 1..n |-> ByteAt(s, (p + 3) + i)] \in Seq(Byte)
    <3>1. p + 3 \in Int
        OBVIOUS
    <3>2. QED
        BY <3>1, BytesRead
  <2>2. QED
      BY <1>1, <2>1 DEF LibStringAt
<1>3. [i \in 1..n |-> ByteAt(s, p + 4 + i - 1)] \in Seq(Byte)
  <2>1. [i \in 1..n |-> ByteAt(s, (p + 3) + i)] \in Seq(Byte)
    <3>1. p + 3 \in Int
        OBVIOUS
    <3>2. QED
        BY <3>1, BytesRead
  <2>2. \A i \in 1..n : p + 4 + i - 1 = (p + 3) + i
      OBVIOUS
  <2>3. QED
      BY <2>1, <2>2
<1>4. StringAt(s, p) = CString([i \in 1..n |-> ByteAt(s, p + 4 + i - 1)])
    BY <1>1 DEF StringAt, StringBodyAt
<1>5. QED
    BY <1>2, <1>3, <1>4, CStringType

\* The last of a sequence of positions.
LEMMA LastType ==
    ASSUME NEW S, NEW u \in Seq(S), u # <<>>
    PROVE  Last(u) \in S
BY DEF Last

\* The messages read are messages.
LEMMA MessageAtType ==
    ASSUME NEW s \in Seq(Byte), NEW p \in Nat
    PROVE  /\ CocoaMessageAt(s, p) \in Message
           /\ GlibMessageAt(s, p) \in Message
           /\ JavaMessageAt(s, p) \in Message
<1>1. PICK t \in Seq(Nat) : t = FieldsOf(s, p, 1, T_STRING)
    BY FieldsOfSteps
<1>2. PICK d \in Seq(Nat) : d = FieldsOf(s, p, 2, T_STRING)
    BY FieldsOfSteps
<1>3. (t # <<>> => Last(t) \in Nat) /\ (d # <<>> => Last(d) \in Nat)
    BY LastType
<1>4. <<>> \in Fields /\ \A x \in Seq(Byte) : <<x>> \in Fields
    BY DEF Fields
<1>5. CocoaMessageAt(s, p) \in Message
  <2>1. CocoaMessageAt(s, p) =
            [text |-> IF t = <<>> THEN <<>> ELSE <<StringAt(s, Last(t))>>,
             date |-> IF d = <<>> THEN <<>> ELSE <<StringAt(s, Last(d))>>]
      BY <1>1, <1>2 DEF CocoaMessageAt, FieldAt, Latest
  <2>2. (t # <<>> => StringAt(s, Last(t)) \in Seq(Byte))
        /\ (d # <<>> => StringAt(s, Last(d)) \in Seq(Byte))
      BY <1>3, StringType
  <2>3. QED
      BY <1>4, <2>1, <2>2 DEF Message
<1>6. GlibMessageAt(s, p) \in Message
  <2>1. GlibMessageAt(s, p) =
            [text |-> IF t = <<>> THEN <<>> ELSE <<CString(LibStringAt(s, Last(t)))>>,
             date |-> IF d = <<>> THEN <<>> ELSE <<CString(LibStringAt(s, Last(d)))>>]
      BY <1>1, <1>2 DEF GlibMessageAt, FieldAt, Latest
  <2>2. (t # <<>> => CString(LibStringAt(s, Last(t))) \in Seq(Byte))
        /\ (d # <<>> => CString(LibStringAt(s, Last(d))) \in Seq(Byte))
      BY <1>3, StringType
  <2>3. QED
      BY <1>4, <2>1, <2>2 DEF Message
<1>7. JavaMessageAt(s, p) \in Message
  <2>1. JavaMessageAt(s, p) =
            [text |-> IF t = <<>> THEN <<>> ELSE <<LibStringAt(s, Last(t))>>,
             date |-> IF d = <<>> THEN <<>> ELSE <<LibStringAt(s, Last(d))>>]
      BY <1>1, <1>2 DEF JavaMessageAt, FieldAt, Latest
  <2>2. (t # <<>> => LibStringAt(s, Last(t)) \in Seq(Byte))
        /\ (d # <<>> => LibStringAt(s, Last(d)) \in Seq(Byte))
      BY <1>3, StringType
  <2>3. QED
      BY <1>4, <2>1, <2>2 DEF Message
<1>8. QED
    BY <1>5, <1>6, <1>7

\* A function over the first n numbers is a sequence.
LEMMA FunctionIsSeq ==
    ASSUME NEW S, NEW n \in Int, NEW f \in [1..n -> S]
    PROVE  f \in Seq(S) /\ Len(f) = IF n >= 0 THEN n ELSE 0
<1>1. CASE n >= 0
  <2>1. PICK m \in Nat : m = n
      BY <1>1
  <2>2. f \in [1..m -> S]
      BY <2>1
  <2>3. f \in Seq(S) /\ Len(f) = m
      BY <2>2
  <2>4. QED
      BY <1>1, <2>1, <2>3
<1>2. CASE ~(n >= 0)
  <2>1. f = <<>>
      BY <1>2
  <2>2. QED
      BY <1>2, <2>1
<1>3. QED
    BY <1>1, <1>2

\* FlattenSeq adds one sequence after the other.
Flattened(F, n, ss) ==
    /\ F[0] = <<>>
    /\ \A k \in 1..n : F[k] = F[k - 1] \o ss[k]
    /\ FlattenSeq(ss) = F[n]

\* The sums of the sequences of ss, one by one.
LEMMA FlattenSteps ==
    ASSUME NEW S, NEW n \in Nat, NEW ss \in [1..n -> Seq(S)]
    PROVE  \E F \in [0..n -> Seq(S)] : Flattened(F, n, ss)
<1>1. PICK F \in [0..n -> Seq(S)] : G!Flattened(F, n, ss)
    BY OneByte, G!FlattenSteps
<1>2. G!FlattenSeq(ss) = FlattenSeq(ss)
    BY DEF G!FlattenSeq, FlattenSeq
<1>3. QED
    BY <1>1, <1>2 DEF Flattened, G!Flattened

\* The places of the elements of a list.
ElementPlace(s, p, i) == Repeat([q \in Nat |-> SkipType(s, T_STRUCT, q)], p + 5, i - 1)

\* They are positions.
LEMMA ElementPlaceType ==
    ASSUME NEW s \in Seq(Byte), NEW p \in Nat, NEW i \in Int
    PROVE  ElementPlace(s, p, i) \in Nat
<1>1. T_STRUCT \in Byte
    BY TypesAreBytes
<1>2. PICK f : f = [q \in Nat |-> SkipType(s, T_STRUCT, q)]
    OBVIOUS
<1>3. f \in [Nat -> Nat] /\ \A q \in Nat : f[q] >= q
    BY <1>1, <1>2, SkipIsAStep
<1>4. p + 5 \in Nat /\ i - 1 \in Int
    OBVIOUS
<1>5. Repeat(f, p + 5, i - 1) \in Nat
    BY <1>3, <1>4, RepeatForward
<1>6. QED
    BY <1>2, <1>5 DEF ElementPlace

\* What the readers of get make of any bytes is a list of messages, or none.
LEMMA CocoaGetResultType ==
    ASSUME NEW s \in Seq(Byte), NEW p \in Nat
    PROVE  CocoaGetResultAt(s, p) \in Results
<1>1. PICK lists \in Seq(Nat) : lists = FieldsOf(s, p, 0, T_LIST)
    BY FieldsOfSteps
<1>2. CASE lists = <<>>
  <2>1. CocoaGetResultAt(s, p) = <<>>
      BY <1>1, <1>2 DEF CocoaGetResultAt, Latest
  <2>2. QED
      BY <2>1 DEF Results
<1>3. CASE lists # <<>>
  <2>1. PICK q \in Nat : q = Last(lists)
      BY <1>3, LastType
  <2>2. PICK n \in Int : n = I32At(s, q + 1)
      BY NumberType
  <2>3. PICK f : f = [i \in 1..n |-> CocoaMessageAt(s, ElementPlace(s, q, i))]
      OBVIOUS
  <2>4. CocoaGetResultAt(s, p) = <<f>>
      BY <1>1, <1>3, <2>1, <2>2, <2>3 DEF CocoaGetResultAt, Latest, ElementsAt, ElementPlace
  <2>5. \A i \in 1..n : CocoaMessageAt(s, ElementPlace(s, q, i)) \in Message
    <3>1. \A i \in 1..n : i \in Int
        OBVIOUS
    <3>2. \A i \in 1..n : ElementPlace(s, q, i) \in Nat
        BY <3>1, ElementPlaceType
    <3>3. QED
        BY <3>2, MessageAtType
  <2>6. f \in [1..n -> Message]
      BY <2>3, <2>5
  <2>7. f \in Seq(Message)
      BY <2>6, FunctionIsSeq
  <2>8. QED
      BY <2>4, <2>7 DEF Results
<1>4. QED
    BY <1>2, <1>3

\* The same of Java's.
LEMMA JavaGetResultType ==
    ASSUME NEW s \in Seq(Byte), NEW p \in Nat
    PROVE  JavaGetResultAt(s, p) \in Results
<1>1. PICK lists \in Seq(Nat) : lists = FieldsOf(s, p, 0, T_LIST)
    BY FieldsOfSteps
<1>2. CASE lists = <<>>
  <2>1. JavaGetResultAt(s, p) = <<>>
      BY <1>1, <1>2 DEF JavaGetResultAt, Latest
  <2>2. QED
      BY <2>1 DEF Results
<1>3. CASE lists # <<>>
  <2>1. PICK q \in Nat : q = Last(lists)
      BY <1>3, LastType
  <2>2. PICK n \in Int : n = I32At(s, q + 1)
      BY NumberType
  <2>3. PICK f : f = [i \in 1..n |-> JavaMessageAt(s, ElementPlace(s, q, i))]
      OBVIOUS
  <2>4. JavaGetResultAt(s, p) = <<f>>
      BY <1>1, <1>3, <2>1, <2>2, <2>3 DEF JavaGetResultAt, Latest, ElementsAt, ElementPlace
  <2>5. \A i \in 1..n : JavaMessageAt(s, ElementPlace(s, q, i)) \in Message
    <3>1. \A i \in 1..n : i \in Int
        OBVIOUS
    <3>2. \A i \in 1..n : ElementPlace(s, q, i) \in Nat
        BY <3>1, ElementPlaceType
    <3>3. QED
        BY <3>2, MessageAtType
  <2>6. f \in [1..n -> Message]
      BY <2>3, <2>5
  <2>7. f \in Seq(Message)
      BY <2>6, FunctionIsSeq
  <2>8. QED
      BY <2>4, <2>7 DEF Results
<1>4. QED
    BY <1>2, <1>3

\* The same of c_glib's, which puts all the lists it finds into one.
LEMMA GlibGetResultType ==
    ASSUME NEW s \in Seq(Byte), NEW p \in Nat
    PROVE  GlibGetResultAt(s, p) \in Seq(Message)
<1>1. PICK lists \in Seq(Nat) : lists = FieldsOf(s, p, 0, T_LIST)
    BY FieldsOfSteps
<1>2. PICK n \in Nat : n = Len(lists) /\ DOMAIN lists = 1..n
    OBVIOUS
<1> DEFINE elems(q) == [i \in 1..I32At(s, q + 1) |-> GlibMessageAt(s, ElementPlace(s, q, i))]
<1>3. ASSUME NEW q \in Nat
      PROVE  elems(q) \in Seq(Message)
  <2>1. PICK m \in Int : m = I32At(s, q + 1)
      BY NumberType
  <2>2. PICK f : f = [i \in 1..m |-> GlibMessageAt(s, ElementPlace(s, q, i))]
      OBVIOUS
  <2>3. \A i \in 1..m : GlibMessageAt(s, ElementPlace(s, q, i)) \in Message
    <3>1. \A i \in 1..m : i \in Int
        OBVIOUS
    <3>2. \A i \in 1..m : ElementPlace(s, q, i) \in Nat
        BY <3>1, ElementPlaceType
    <3>3. QED
        BY <3>2, MessageAtType
  <2>4. f \in [1..m -> Message]
      BY <2>2, <2>3
  <2>5. f \in Seq(Message)
      BY <2>4, FunctionIsSeq
  <2>6. QED
      BY <2>1, <2>2, <2>5
<1>4. PICK ss : ss = [i \in 1..n |-> elems(lists[i])]
    OBVIOUS
<1>5. GlibGetResultAt(s, p) = FlattenSeq(ss)
    BY <1>1, <1>2, <1>4 DEF GlibGetResultAt, ElementsAt, ElementPlace
<1> HIDE DEF elems
<1>6. ss \in [1..n -> Seq(Message)]
  <2>1. \A i \in 1..n : lists[i] \in Nat
      BY <1>2
  <2>2. \A i \in 1..n : elems(lists[i]) \in Seq(Message)
      BY <1>3, <2>1
  <2>3. QED
      BY <1>4, <2>2
<1>7. PICK F \in [0..n -> Seq(Message)] : Flattened(F, n, ss)
    BY <1>6, FlattenSteps
<1>8. FlattenSeq(ss) = F[n]
    BY <1>7 DEF Flattened
<1>9. QED
    BY <1>5, <1>7, <1>8

\* Where a message of the tuple scheme ends, and what it is.
LEMMA TupleType ==
    ASSUME NEW s \in Seq(Byte), NEW p \in Nat
    PROVE  /\ AfterMessageTuple(s, p) \in Nat /\ AfterMessageTuple(s, p) >= p
           /\ JavaMessageTupleAt(s, p) \in Message
<1>1. PICK a \in Nat : a = AfterText(s, p) /\ a >= p + 1
  <2>1. p + 1 \in Nat
      OBVIOUS
  <2>2. AfterString(s, p + 1) \in Nat /\ AfterString(s, p + 1) >= (p + 1) + 3
      BY <2>1, AfterStringType
  <2>3. QED
      BY <2>1, <2>2 DEF AfterText
<1>2. AfterString(s, a) \in Nat /\ AfterString(s, a) >= a + 3
    BY AfterStringType
<1>3. AfterMessageTuple(s, p) \in Nat /\ AfterMessageTuple(s, p) >= p
    BY <1>1, <1>2 DEF AfterMessageTuple
<1>4. LibStringAt(s, p + 1) \in Seq(Byte) /\ LibStringAt(s, a) \in Seq(Byte)
  <2>1. p + 1 \in Nat
      OBVIOUS
  <2>2. QED
      BY <2>1, StringType
<1>5. <<>> \in Fields /\ \A x \in Seq(Byte) : <<x>> \in Fields
    BY DEF Fields
<1>6. JavaMessageTupleAt(s, p) \in Message
    BY <1>1, <1>4, <1>5 DEF JavaMessageTupleAt, Message
<1>7. QED
    BY <1>3, <1>6

\* The result of the tuple scheme.
LEMMA TupleResultType ==
    ASSUME NEW s \in Seq(Byte), NEW p \in Nat
    PROVE  /\ AfterGetResultTuple(s, p) \in Nat /\ AfterGetResultTuple(s, p) >= p
           /\ JavaGetResultTupleAt(s, p) \in Results
<1>1. PICK n \in Int : n = I32At(s, p + 1)
    BY NumberType
<1>2. ASSUME NEW i \in Int
      PROVE  TupleElement(s, p, i) \in Nat /\ TupleElement(s, p, i) >= p + 5
  <2>1. PICK f : f = [q \in Nat |-> AfterMessageTuple(s, q)]
      OBVIOUS
  <2>2. f \in [Nat -> Nat] /\ \A q \in Nat : f[q] >= q
      BY <2>1, TupleType
  <2>3. p + 5 \in Nat /\ i - 1 \in Int
      OBVIOUS
  <2>4. Repeat(f, p + 5, i - 1) \in Nat /\ Repeat(f, p + 5, i - 1) >= p + 5
      BY <2>2, <2>3, RepeatForward
  <2>5. QED
      BY <2>1, <2>4 DEF TupleElement
<1>3. AfterGetResultTuple(s, p) \in Nat /\ AfterGetResultTuple(s, p) >= p
  <2>1. n + 1 \in Int
      OBVIOUS
  <2>2. TupleElement(s, p, n + 1) \in Nat /\ TupleElement(s, p, n + 1) >= p + 5
      BY <1>2, <2>1
  <2>3. QED
      BY <1>1, <2>2 DEF AfterGetResultTuple
<1>4. JavaGetResultTupleAt(s, p) \in Results
  <2>1. PICK f : f = [i \in 1..n |-> JavaMessageTupleAt(s, TupleElement(s, p, i))]
      OBVIOUS
  <2>2. \A i \in 1..n : JavaMessageTupleAt(s, TupleElement(s, p, i)) \in Message
      BY <1>2, TupleType
  <2>3. f \in [1..n -> Message]
      BY <2>1, <2>2
  <2>4. f \in Seq(Message)
      BY <2>3, FunctionIsSeq
  <2>5. JavaGetResultTupleAt(s, p) = IF BitAt(s, p, 1) THEN <<f>> ELSE <<>>
      BY <1>1, <2>1 DEF JavaGetResultTupleAt
  <2>6. QED
      BY <2>4, <2>5 DEF Results
<1>5. QED
    BY <1>3, <1>4

\* What a header and an answer may be.
IsHeader(h) ==
    /\ h.error \in {"none", "missing version", "bad version"}
    /\ h.error = "none" => h.end \in Nat /\ h.end >= 5
IsAnswer(r) == r.out \in Outcomes /\ r.end \in Nat /\ r.end >= 1 /\ r.val \in Results

\* The headers read of any bytes.
LEMMA HeaderType ==
    ASSUME NEW s \in Seq(Byte), NEW strict
    PROVE  IsHeader(MessageBegin(strict, s, 1)) /\ IsHeader(LibMessageBegin(strict, s, 1))
<1>1. PICK a \in Nat : a = AfterString(s, 1) /\ a >= 1 + 3
    BY AfterStringType
<1>2. PICK b \in Nat : b = AfterString(s, 1 + 4) /\ b >= 5
  <2>1. PICK c \in Nat : c = 1 + 4 /\ c = 5
      OBVIOUS
  <2>2. AfterString(s, c) \in Nat /\ AfterString(s, c) >= c + 3
      BY AfterStringType
  <2>3. AfterString(s, c) >= 5
      BY <2>1, <2>2
  <2>4. AfterString(s, c) = AfterString(s, 1 + 4)
      BY <2>1
  <2>5. QED
      BY <2>2, <2>3, <2>4
<1>3. PICK h : h = MessageBegin(strict, s, 1)
    OBVIOUS
<1>4. \/ h = [error |-> "bad version"]
      \/ h = [error |-> "missing version"]
      \/ h = [error |-> "none", type |-> 0, name |-> StringAt(s, 1 + 4), end |-> b + 4]
      \/ h = [error |-> "none", type |-> ByteAt(s, a), name |-> StringAt(s, 1), end |-> a + 5]
    BY <1>1, <1>2, <1>3 DEF MessageBegin
<1>5. /\ h.error \in {"none", "missing version", "bad version"}
      /\ h.error = "none" =>
            /\ h.end \in Nat /\ h.end >= 5
            /\ [h EXCEPT !.type = ByteAt(s, 1 + 3)].error = "none"
            /\ [h EXCEPT !.type = ByteAt(s, 1 + 3)].end = h.end
  <2>1. CASE h = [error |-> "bad version"]
      BY <2>1
  <2>2. CASE h = [error |-> "missing version"]
      BY <2>2
  <2>3. CASE h = [error |-> "none", type |-> 0, name |-> StringAt(s, 1 + 4), end |-> b + 4]
      BY <1>2, <2>3
  <2>4. CASE h = [error |-> "none", type |-> ByteAt(s, a), name |-> StringAt(s, 1), end |-> a + 5]
      BY <1>1, <2>4
  <2>5. QED
      BY <1>4, <2>1, <2>2, <2>3, <2>4
<1>6. IsHeader(h)
    BY <1>5 DEF IsHeader
<1>7. PICK k : k = LibMessageBegin(strict, s, 1)
    OBVIOUS
<1>8. k = h \/ (h.error = "none" /\ k = [h EXCEPT !.type = ByteAt(s, 1 + 3)])
    BY <1>3, <1>7 DEF LibMessageBegin, WithType
<1>9. IsHeader(k)
  <2>1. CASE k = h
      BY <1>6, <2>1
  <2>2. CASE h.error = "none" /\ k = [h EXCEPT !.type = ByteAt(s, 1 + 3)]
      BY <1>5, <2>2 DEF IsHeader
  <2>3. QED
      BY <1>8, <2>1, <2>2
<1>10. QED
    BY <1>3, <1>6, <1>7, <1>9

\* An answer with one of the outcomes.
LEMMA AnswerType ==
    ASSUME NEW o \in Outcomes, NEW end \in Nat, end >= 1, NEW val \in Results
    PROVE  IsAnswer(Answer(o, end, val))
BY DEF IsAnswer, Answer

\* None is a result.
LEMMA NoneIsAResult == <<>> \in Results
BY DEF Results

\* What comes of a header.
LEMMA HeadedType ==
    ASSUME NEW s \in Seq(Byte), NEW h, IsHeader(h), NEW rest, h.error = "none" => IsAnswer(rest)
    PROVE  IsAnswer(Headed(s, h, rest))
<1>1. T_STRUCT \in Byte
    BY TypesAreBytes
<1>2. CASE h.error # "none"
  <2>1. Headed(s, h, rest) = Answer(h.error, 5, <<>>)
      BY <1>2 DEF Headed, Refused
  <2>2. h.error \in Outcomes
      BY <1>2 DEF IsHeader, Outcomes
  <2>3. QED
      BY <2>1, <2>2, AnswerType, NoneIsAResult
<1>3. CASE h.error = "none" /\ h.type = T_EXCEPTION
  <2>1. PICK e \in Nat : e = h.end /\ e >= 5
      BY <1>3 DEF IsHeader
  <2>2. SkipType(s, T_STRUCT, e) \in Nat /\ SkipType(s, T_STRUCT, e) >= e
      BY <1>1, SkipTypeSteps
  <2>3. PICK f \in Nat : f = SkipType(s, T_STRUCT, e) /\ f >= 1
      BY <2>1, <2>2
  <2>4. Headed(s, h, rest) = Answer("exception", f, <<>>)
      BY <1>3, <2>1, <2>3 DEF Headed, AppException
  <2>5. "exception" \in Outcomes
      BY DEF Outcomes
  <2>6. IsAnswer(Answer("exception", f, <<>>))
      BY <2>3, <2>5, AnswerType, NoneIsAResult
  <2>7. QED
      BY <2>4, <2>6
<1>4. CASE h.error = "none" /\ h.type # T_EXCEPTION
    BY <1>4 DEF Headed
<1>5. QED
    BY <1>2, <1>3, <1>4

\* A result read.
LEMMA ResultType ==
    ASSUME NEW end \in Nat, end >= 1, NEW val \in Results
    PROVE  IsAnswer(Result(end, val))
<1>1. {"missing result", "ok"} \subseteq Outcomes
    BY DEF Outcomes
<1>2. CASE val = <<>>
    BY <1>1, <1>2, AnswerType DEF Result
<1>3. CASE val # <<>>
    BY <1>1, <1>3, AnswerType DEF Result
<1>4. QED
    BY <1>2, <1>3

\* What a Cocoa client makes of any bytes.
LEMMA CocoaReceivedType ==
    ASSUME NEW s \in Seq(Byte)
    PROVE  IsAnswer(CocoaRecvAdd(s)) /\ IsAnswer(CocoaRecvGet(s))
<1>1. PICK h : h = MessageBegin(link.strict, s, 1)
    OBVIOUS
<1>2. IsHeader(h)
    BY <1>1, HeaderType
<1>3. h.error = "none" =>
          /\ IsAnswer(Answer("ok", SkipType(s, T_STRUCT, h.end), <<>>))
          /\ IsAnswer(Result(SkipType(s, T_STRUCT, h.end), CocoaGetResultAt(s, h.end)))
  <2>1. SUFFICES ASSUME h.error = "none"
                 PROVE  /\ IsAnswer(Answer("ok", SkipType(s, T_STRUCT, h.end), <<>>))
                        /\ IsAnswer(Result(SkipType(s, T_STRUCT, h.end),
                                           CocoaGetResultAt(s, h.end)))
      OBVIOUS
  <2>2. PICK e \in Nat : e = h.end /\ e >= 5
      BY <1>2, <2>1 DEF IsHeader
  <2>3. SkipType(s, T_STRUCT, e) \in Nat /\ SkipType(s, T_STRUCT, e) >= e
      BY SkipTypeSteps, TypesAreBytes
  <2>4. PICK f \in Nat : f = SkipType(s, T_STRUCT, e) /\ f >= 1
      BY <2>2, <2>3
  <2>5. PICK val \in Results : val = CocoaGetResultAt(s, e)
      BY CocoaGetResultType
  <2>6. IsAnswer(Answer("ok", f, <<>>)) /\ IsAnswer(Result(f, val))
    <3>1. "ok" \in Outcomes
        BY DEF Outcomes
    <3>2. QED
        BY <2>4, <3>1, AnswerType, ResultType, NoneIsAResult
  <2>7. QED
      BY <2>2, <2>4, <2>5, <2>6
<1>4. IsAnswer(CocoaRecvAdd(s))
  <2>1. CocoaRecvAdd(s) = Headed(s, h, Answer("ok", SkipType(s, T_STRUCT, h.end), <<>>))
      BY <1>1 DEF CocoaRecvAdd, CocoaAdded
  <2>2. QED
      BY <1>2, <1>3, <2>1, HeadedType
<1>5. IsAnswer(CocoaRecvGet(s))
  <2>1. CocoaRecvGet(s) =
            Headed(s, h, Result(SkipType(s, T_STRUCT, h.end), CocoaGetResultAt(s, h.end)))
      BY <1>1 DEF CocoaRecvGet, CocoaGot
  <2>2. QED
      BY <1>2, <1>3, <2>1, HeadedType
<1>6. QED
    BY <1>4, <1>5

\* What a client of c_glib makes of any bytes.
LEMMA GlibReceivedType ==
    ASSUME NEW s \in Seq(Byte)
    PROVE  IsAnswer(GlibRecvAdd(s)) /\ IsAnswer(GlibRecvGet(s))
<1>1. PICK h : h = LibMessageBegin(TRUE, s, 1)
    OBVIOUS
<1>2. IsHeader(h)
    BY <1>1, HeaderType
<1>3. ASSUME NEW name, NEW val, h.error = "none" => val \in Results
      PROVE  IsAnswer(GlibAnswer(s, h, name, val))
  <2>1. PICK rest : rest = Answer(IF h.name = name THEN "ok" ELSE "wrong method name",
                                  SkipType(s, T_STRUCT, h.end), IF h.name = name THEN val ELSE <<>>)
      OBVIOUS
  <2>2. h.error = "none" => IsAnswer(rest)
    <3>1. SUFFICES ASSUME h.error = "none"
                   PROVE  IsAnswer(rest)
        OBVIOUS
    <3>2. PICK e \in Nat : e = h.end /\ e >= 5
        BY <1>2, <3>1 DEF IsHeader
    <3>3. SkipType(s, T_STRUCT, e) \in Nat /\ SkipType(s, T_STRUCT, e) >= e
        BY SkipTypeSteps, TypesAreBytes
    <3>4. PICK f \in Nat : f = SkipType(s, T_STRUCT, e) /\ f >= 1
        BY <3>2, <3>3
    <3>5. PICK o \in Outcomes : o = IF h.name = name THEN "ok" ELSE "wrong method name"
        BY DEF Outcomes
    <3>6. PICK v \in Results : v = IF h.name = name THEN val ELSE <<>>
        BY <1>3, <3>1, NoneIsAResult
    <3>7. rest = Answer(o, f, v)
        BY <2>1, <3>2, <3>4, <3>5, <3>6
    <3>8. IsAnswer(Answer(o, f, v))
        BY <3>4, AnswerType
    <3>9. QED
        BY <3>7, <3>8
  <2>3. GlibAnswer(s, h, name, val) = Headed(s, h, rest)
      BY <2>1 DEF GlibAnswer
  <2>4. QED
      BY <1>2, <2>2, <2>3, HeadedType
<1>4. IsAnswer(GlibRecvAdd(s))
  <2>1. GlibRecvAdd(s) = GlibAnswer(s, h, ADD, <<>>)
      BY <1>1 DEF GlibRecvAdd
  <2>2. QED
      BY <1>3, <2>1, NoneIsAResult
<1>5. IsAnswer(GlibRecvGet(s))
  <2>1. GlibRecvGet(s) = GlibAnswer(s, h, GET, <<GlibGetResultAt(s, h.end)>>)
      BY <1>1 DEF GlibRecvGet, GlibGot
  <2>2. h.error = "none" => <<GlibGetResultAt(s, h.end)>> \in Results
    <3>1. SUFFICES ASSUME h.error = "none"
                   PROVE  <<GlibGetResultAt(s, h.end)>> \in Results
        OBVIOUS
    <3>2. h.end \in Nat
        BY <1>2, <3>1 DEF IsHeader
    <3>3. PICK v \in Seq(Message) : v = GlibGetResultAt(s, h.end)
        BY <3>2, GlibGetResultType
    <3>4. QED
        BY <3>3 DEF Results
  <2>3. QED
      BY <1>3, <2>1, <2>2
<1>6. QED
    BY <1>4, <1>5

\* What a client in Java makes of any bytes.
LEMMA JavaReceivedType ==
    ASSUME NEW s \in Seq(Byte), NEW id
    PROVE  IsAnswer(JavaRecvAdd(s, id)) /\ IsAnswer(JavaRecvGet(s, id))
<1>1. PICK h : h = LibMessageBegin(FALSE, s, 1)
    OBVIOUS
<1>2. IsHeader(h)
    BY <1>1, HeaderType
<1>3. ASSUME NEW answer, h.error = "none" => IsAnswer(answer)
      PROVE  IsAnswer(JavaRecv(s, h, id, answer))
  <2>1. PICK rest : rest = IF SeqidBefore(s, h.end) # id THEN Answer("bad sequence id", h.end, <<>>)
                           ELSE answer
      OBVIOUS
  <2>2. h.error = "none" => IsAnswer(rest)
    <3>1. SUFFICES ASSUME h.error = "none"
                   PROVE  IsAnswer(rest)
        OBVIOUS
    <3>2. PICK e \in Nat : e = h.end /\ e >= 1
        BY <1>2, <3>1 DEF IsHeader
    <3>3. "bad sequence id" \in Outcomes
        BY DEF Outcomes
    <3>4. IsAnswer(Answer("bad sequence id", e, <<>>))
        BY <3>2, <3>3, AnswerType, NoneIsAResult
    <3>5. QED
        BY <1>3, <2>1, <3>1, <3>2, <3>4
  <2>3. JavaRecv(s, h, id, answer) = Headed(s, h, rest)
      BY <2>1 DEF JavaRecv
  <2>4. QED
      BY <1>2, <2>2, <2>3, HeadedType
<1>4. ASSUME h.error = "none"
      PROVE  \E e \in Nat, f \in Nat, a \in Nat, v \in Results, w \in Results :
                /\ e >= 1 /\ e = h.end /\ f >= 1 /\ f = SkipType(s, T_STRUCT, h.end)
                /\ a >= 1 /\ a = AfterGetResultTuple(s, h.end)
                /\ v = JavaGetResultAt(s, h.end) /\ w = JavaGetResultTupleAt(s, h.end)
  <2>1. PICK e \in Nat : e = h.end /\ e >= 5
      BY <1>2, <1>4 DEF IsHeader
  <2>2. SkipType(s, T_STRUCT, e) \in Nat /\ SkipType(s, T_STRUCT, e) >= e
      BY SkipTypeSteps, TypesAreBytes
  <2>3. PICK f \in Nat : f = SkipType(s, T_STRUCT, e) /\ f >= 1
      BY <2>1, <2>2
  <2>4. AfterGetResultTuple(s, e) \in Nat /\ AfterGetResultTuple(s, e) >= e
        /\ JavaGetResultTupleAt(s, e) \in Results
      BY TupleResultType
  <2>5. PICK a \in Nat : a = AfterGetResultTuple(s, e) /\ a >= 1
      BY <2>1, <2>4
  <2>6. JavaGetResultAt(s, e) \in Results
      BY JavaGetResultType
  <2>7. e >= 1
      BY <2>1
  <2>8. QED
      BY <2>1, <2>3, <2>4, <2>5, <2>6, <2>7
<1>5. IsAnswer(JavaRecvAdd(s, id))
  <2>1. PICK answer : answer = Answer("ok", IF link.scheme = "tuple" THEN h.end
                                            ELSE SkipType(s, T_STRUCT, h.end), <<>>)
      OBVIOUS
  <2>2. h.error = "none" => IsAnswer(answer)
    <3>1. SUFFICES ASSUME h.error = "none"
                   PROVE  IsAnswer(answer)
        OBVIOUS
    <3>2. PICK e \in Nat, f \in Nat : e >= 1 /\ e = h.end /\ f >= 1 /\ f = SkipType(s, T_STRUCT, h.end)
        BY <1>4, <3>1
    <3>3. "ok" \in Outcomes
        BY DEF Outcomes
    <3>4. IsAnswer(Answer("ok", e, <<>>)) /\ IsAnswer(Answer("ok", f, <<>>))
        BY <3>2, <3>3, AnswerType, NoneIsAResult
    <3>5. answer = Answer("ok", e, <<>>) \/ answer = Answer("ok", f, <<>>)
        BY <2>1, <3>2
    <3>6. QED
        BY <3>4, <3>5
  <2>3. JavaRecvAdd(s, id) = JavaRecv(s, h, id, answer)
      BY <1>1, <2>1 DEF JavaRecvAdd, JavaAdded
  <2>4. QED
      BY <1>3, <2>2, <2>3
<1>6. IsAnswer(JavaRecvGet(s, id))
  <2>1. PICK answer : answer =
            IF link.scheme = "tuple"
            THEN Result(AfterGetResultTuple(s, h.end), JavaGetResultTupleAt(s, h.end))
            ELSE Result(SkipType(s, T_STRUCT, h.end), JavaGetResultAt(s, h.end))
      OBVIOUS
  <2>2. h.error = "none" => IsAnswer(answer)
    <3>1. SUFFICES ASSUME h.error = "none"
                   PROVE  IsAnswer(answer)
        OBVIOUS
    <3>2. PICK f \in Nat, a \in Nat, v \in Results, w \in Results :
              /\ f >= 1 /\ f = SkipType(s, T_STRUCT, h.end)
              /\ a >= 1 /\ a = AfterGetResultTuple(s, h.end)
              /\ v = JavaGetResultAt(s, h.end) /\ w = JavaGetResultTupleAt(s, h.end)
        BY <1>4, <3>1
    <3>3. IsAnswer(Result(f, v)) /\ IsAnswer(Result(a, w))
        BY <3>2, ResultType
    <3>4. answer = Result(f, v) \/ answer = Result(a, w)
        BY <2>1, <3>2
    <3>5. QED
        BY <3>3, <3>4
  <2>3. JavaRecvGet(s, id) = JavaRecv(s, h, id, answer)
      BY <1>1, <2>1 DEF JavaRecvGet, JavaGot
  <2>4. QED
      BY <1>3, <2>2, <2>3
<1>7. QED
    BY <1>5, <1>6

\* What any client makes of any bytes: it has read one byte of them at least
\* when it returns, and returns one of the outcomes.
LEMMA ReceivedType ==
    ASSUME NEW s \in Seq(Byte), link \in Links
    PROVE  IsAnswer(Received(s))
<1>1. link.lang \in {"cocoa", "glib", "java", "async"}
    BY LinksAssumption DEF Link
<1>2. CASE link.lang = "cocoa"
    BY <1>2, CocoaReceivedType DEF Received
<1>3. CASE link.lang = "glib"
    BY <1>3, GlibReceivedType DEF Received
<1>4. CASE link.lang \in {"java", "async"}
    BY <1>4, JavaReceivedType DEF Received
<1>5. QED
    BY <1>1, <1>2, <1>3, <1>4

-----------------------------------------------------------------------------
(* The orders of the Java classes.                                          *)

\* Two texts that first differ at k.
LEMMA LexicalAt ==
    ASSUME NEW a \in Seq(Byte), NEW b \in Seq(Byte), NEW k \in 1..Len(a),
           \A i \in 1..(k - 1) : i <= Len(b) /\ a[i] = b[i],
           k > Len(b) \/ a[k] # b[k]
    PROVE  Lexical(a, b) = IF k > Len(b) \/ a[k] > b[k] THEN 1 ELSE -1
<1> DEFINE differ == {i \in 1..Len(a) : i > Len(b) \/ a[i] # b[i]}
<1>1. k \in differ /\ differ \in SUBSET Nat
    OBVIOUS
<1>2. \A i \in differ : i \in Nat /\ ~(i < k)
  <2>1. ASSUME NEW i \in differ, i < k
        PROVE  FALSE
    <3>1. i \in 1..(k - 1) /\ i \in Nat
        BY <2>1
    <3>2. i <= Len(b) /\ a[i] = b[i]
        BY <3>1
    <3>3. Len(b) \in Nat
        OBVIOUS
    <3>4. QED
        BY <2>1, <3>1, <3>2, <3>3
  <2>2. QED
      BY <1>1, <2>1
<1>3. Min(differ) = k
  <2>1. PICK m : m = Min(differ) /\ m \in differ /\ \A i \in differ : m <= i
    <3> HIDE DEF differ
    <3>1. QED
        BY <1>1, Least
  <2>2. m <= k /\ m \in Nat /\ ~(m < k)
      BY <1>1, <1>2, <2>1
  <2>3. QED
      BY <2>1, <2>2
<1>4. Lexical(a, b) = IF Min(differ) > Len(b) \/ a[Min(differ)] > b[Min(differ)] THEN 1 ELSE -1
    BY <1>1 DEF Lexical
<1>5. QED
    BY <1>3, <1>4

\* A text that another begins with.
LEMMA LexicalPrefix ==
    ASSUME NEW a \in Seq(Byte), NEW b \in Seq(Byte),
           \A i \in 1..Len(a) : i <= Len(b) /\ a[i] = b[i]
    PROVE  Lexical(a, b) = IF Len(a) = Len(b) THEN 0 ELSE -1
<1> DEFINE differ == {i \in 1..Len(a) : i > Len(b) \/ a[i] # b[i]}
<1>1. differ = {}
  <2>1. Len(b) \in Nat /\ \A i \in 1..Len(a) : i \in Nat
      OBVIOUS
  <2>2. QED
      BY <2>1
<1>2. QED
    BY <1>1 DEF Lexical

\* What an order of a and b is: 0 for equal ones only, and the opposite the
\* other way round.
Opposite(x, y, a, b) == /\ x \in {-1, 0, 1} /\ y \in {-1, 0, 1} /\ x + y = 0
                        /\ (x = 0 <=> a = b)

\* The three cases.
LEMMA OppositeCases ==
    ASSUME NEW a, NEW b
    PROVE  /\ a = b => Opposite(0, 0, a, b)
           /\ a # b => Opposite(1, -1, a, b) /\ Opposite(-1, 1, a, b)
BY DEF Opposite

\* compareTo of strings.
LEMMA LexicalOrder ==
    ASSUME NEW a \in Seq(Byte), NEW b \in Seq(Byte)
    PROVE  Opposite(Lexical(a, b), Lexical(b, a), a, b)
<1> DEFINE E == {k \in 1..(Len(a) + Len(b)) :
                    /\ k <= Len(a) \/ k <= Len(b)
                    /\ ~(k <= Len(a) /\ k <= Len(b) /\ a[k] = b[k])}
<1>1. Len(a) \in Nat /\ Len(b) \in Nat /\ DOMAIN a = 1..Len(a) /\ DOMAIN b = 1..Len(b)
    OBVIOUS
<1>0. PICK n \in Nat, m \in Nat : n = Len(a) /\ m = Len(b)
    BY <1>1
<1>2. CASE E = {}
  <2>1. \A k \in 1..(Len(a) + Len(b)) :
            k <= Len(a) \/ k <= Len(b) => k <= Len(a) /\ k <= Len(b) /\ a[k] = b[k]
      BY <1>2
  <2>2. ASSUME NEW i \in 1..Len(a) PROVE i <= Len(b) /\ a[i] = b[i]
    <3>1. i \in 1..(Len(a) + Len(b)) /\ i <= Len(a)
        BY <1>1
    <3>2. QED
        BY <2>1, <3>1
  <2>3. ASSUME NEW i \in 1..Len(b) PROVE i <= Len(a) /\ b[i] = a[i]
    <3>1. i \in 1..(Len(a) + Len(b)) /\ i <= Len(b)
        BY <1>1
    <3>2. QED
        BY <2>1, <3>1
  <2>4. Len(a) = Len(b)
    <3>1. n > 0 => n <= m
      <4>1. n > 0 => n \in 1..n
          OBVIOUS
      <4>2. QED
          BY <1>0, <2>2, <4>1
    <3>2. m > 0 => m <= n
      <4>1. m > 0 => m \in 1..m
          OBVIOUS
      <4>2. QED
          BY <1>0, <2>3, <4>1
    <3>3. n = m
        BY <3>1, <3>2
    <3>4. QED
        BY <1>0, <3>3
  <2>5. Lexical(a, b) = 0 /\ Lexical(b, a) = 0
      BY <2>2, <2>3, <2>4, LexicalPrefix
  <2>6. a = b
      BY <2>2, <2>4
  <2>7. QED
      BY <2>5, <2>6, OppositeCases
<1>3. CASE E # {}
  <2>1. E \in SUBSET Nat
      OBVIOUS
  <2>2. PICK k : k \in E /\ \A i \in E : k <= i
    <3> HIDE DEF E
    <3>1. QED
        BY <1>3, <2>1, Least
  <2>3. k \in 1..(Len(a) + Len(b)) /\ (k <= Len(a) \/ k <= Len(b))
        /\ ~(k <= Len(a) /\ k <= Len(b) /\ a[k] = b[k])
      BY <2>2
  <2>4. ASSUME NEW i \in 1..(k - 1)
        PROVE  i <= Len(a) /\ i <= Len(b) /\ a[i] = b[i]
    <3>1. i \in Nat /\ i < k /\ i \in 1..(Len(a) + Len(b)) /\ (i <= Len(a) \/ i <= Len(b))
        BY <1>1, <2>3
    <3>2. ~(k <= i)
        BY <2>3, <3>1
    <3>3. i \notin E
        BY <2>2, <3>2
    <3>4. QED
        BY <3>1, <3>3
  <2>5. a # b
      BY <1>1, <2>3
  <2>6. CASE k > Len(b)
    <3>1. k \in 1..Len(a)
        BY <1>1, <2>3, <2>6
    <3>2. Lexical(a, b) = 1
        BY <2>4, <2>6, <3>1, LexicalAt
    <3>3. \A i \in 1..Len(b) : i <= Len(a) /\ b[i] = a[i]
      <4>1. \A i \in 1..Len(b) : i \in 1..(k - 1)
          BY <1>1, <2>3, <2>6
      <4>2. QED
          BY <2>4, <4>1
    <3>4. Len(b) # Len(a)
      <4>1. k > m /\ k <= n
          BY <1>0, <2>6, <3>1
      <4>2. n # m
          BY <2>3, <4>1
      <4>3. QED
          BY <1>0, <4>2
    <3>5. Lexical(b, a) = -1
        BY <3>3, <3>4, LexicalPrefix
    <3>6. QED
        BY <2>5, <3>2, <3>5, OppositeCases
  <2>7. CASE k > Len(a)
    <3>1. k \in 1..Len(b)
        BY <1>1, <2>3, <2>7
    <3>2. Lexical(b, a) = 1
        BY <2>4, <2>7, <3>1, LexicalAt
    <3>3. \A i \in 1..Len(a) : i <= Len(b) /\ a[i] = b[i]
      <4>1. \A i \in 1..Len(a) : i \in 1..(k - 1)
          BY <1>1, <2>3, <2>7
      <4>2. QED
          BY <2>4, <4>1
    <3>4. Len(b) # Len(a)
      <4>1. k > n /\ k <= m
          BY <1>0, <2>7, <3>1
      <4>2. n # m
          BY <2>3, <4>1
      <4>3. QED
          BY <1>0, <4>2
    <3>5. Lexical(a, b) = -1
        BY <3>3, <3>4, LexicalPrefix
    <3>6. QED
        BY <2>5, <3>2, <3>5, OppositeCases
  <2>8. CASE k <= Len(a) /\ k <= Len(b)
    <3>1. k \in 1..Len(a) /\ k \in 1..Len(b) /\ a[k] # b[k]
        BY <1>1, <2>3, <2>8
    <3>2. ~(k > Len(b)) /\ ~(k > Len(a))
        BY <1>1, <2>3, <2>8
    <3>3. Lexical(a, b) = IF a[k] > b[k] THEN 1 ELSE -1
        BY <2>4, <3>1, <3>2, LexicalAt
    <3>4. Lexical(b, a) = IF b[k] > a[k] THEN 1 ELSE -1
        BY <2>4, <3>1, <3>2, LexicalAt
    <3>5. a[k] \in Int /\ b[k] \in Int
      <4>1. a[k] \in Byte /\ b[k] \in Byte
          BY <3>1
      <4>2. \A c \in Byte : c \in Int
          BY DEF Byte
      <4>3. QED
          BY <4>1, <4>2
    <3>6. CASE a[k] > b[k]
      <4>1. ~(b[k] > a[k])
          BY <3>5, <3>6
      <4>2. QED
          BY <2>5, <3>3, <3>4, <3>6, <4>1, OppositeCases
    <3>7. CASE ~(a[k] > b[k])
      <4>1. b[k] > a[k]
          BY <3>1, <3>5, <3>7
      <4>2. QED
          BY <2>5, <3>3, <3>4, <3>7, <4>1, OppositeCases
    <3>8. QED
        BY <3>6, <3>7
  <2>9. QED
      BY <1>1, <2>3, <2>6, <2>7, <2>8
<1>4. QED
    BY <1>2, <1>3

\* Of three runs of bytes the order in which they are joined does not matter.
LEMMA BytesAssociate ==
    ASSUME NEW x \in Seq(Byte), NEW u \in Seq(Byte), NEW v \in Seq(Byte)
    PROVE  (x \o u) \o v = x \o (u \o v)
OBVIOUS

\* A field is unset or set to a value.
LEMMA FieldForms ==
    ASSUME NEW S, NEW f \in Seq(S), Len(f) <= 1
    PROVE  f = <<>> \/ (f # <<>> /\ \E x \in S : f = <<x>> /\ f[1] = x)
<1>1. CASE Len(f) = 0
    BY <1>1
<1>2. CASE Len(f) # 0
  <2>1. Len(f) = 1
    <3>1. PICK n \in Nat : n = Len(f)
        OBVIOUS
    <3>2. n <= 1 /\ n # 0
        BY <1>2, <3>1
    <3>3. n = 1
        BY <3>2
    <3>4. QED
        BY <3>1, <3>3
  <2>2. f[1] \in S /\ f # <<>>
      BY <2>1
  <2>3. PICK x \in S : x = f[1]
      BY <2>2
  <2>4. <<x>> \in Seq(S) /\ Len(<<x>>) = 1 /\ <<x>>[1] = x
      OBVIOUS
  <2>5. \A i \in 1..1 : f[i] = <<x>>[i]
      BY <2>3
  <2>6. f = <<x>>
      BY <2>1, <2>4, <2>5, SeqEqual
  <2>7. QED
      BY <2>2, <2>3, <2>6
<1>3. QED
    BY <1>1, <1>2

\* compareTo of a field of text.
LEMMA TextFieldOrder ==
    ASSUME NEW f \in Fields, NEW g \in Fields
    PROVE  Opposite(FieldOrder(Lexical, f, g), FieldOrder(Lexical, g, f), f, g)
<1>1. f = <<>> \/ (f # <<>> /\ \E x \in Seq(Byte) : f = <<x>> /\ f[1] = x)
    BY FieldForms DEF Fields
<1>2. g = <<>> \/ (g # <<>> /\ \E x \in Seq(Byte) : g = <<x>> /\ g[1] = x)
    BY FieldForms DEF Fields
<1>3. CASE f = <<>> /\ g = <<>>
  <2>1. FieldOrder(Lexical, f, g) = 0 /\ FieldOrder(Lexical, g, f) = 0
      BY <1>3 DEF FieldOrder
  <2>2. QED
      BY <1>3, <2>1, OppositeCases
<1>4. CASE f = <<>> /\ g # <<>>
  <2>1. FieldOrder(Lexical, f, g) = -1 /\ FieldOrder(Lexical, g, f) = 1
      BY <1>4 DEF FieldOrder
  <2>2. QED
      BY <1>4, <2>1, OppositeCases
<1>5. CASE f # <<>> /\ g = <<>>
  <2>1. FieldOrder(Lexical, f, g) = 1 /\ FieldOrder(Lexical, g, f) = -1
      BY <1>5 DEF FieldOrder
  <2>2. QED
      BY <1>5, <2>1, OppositeCases
<1>6. CASE f # <<>> /\ g # <<>>
  <2>1. PICK x \in Seq(Byte) : f = <<x>> /\ f[1] = x
      BY <1>1, <1>6
  <2>2. PICK y \in Seq(Byte) : g = <<y>> /\ g[1] = y
      BY <1>2, <1>6
  <2>3. FieldOrder(Lexical, f, g) = Lexical(x, y) /\ FieldOrder(Lexical, g, f) = Lexical(y, x)
      BY <1>6, <2>1, <2>2 DEF FieldOrder
  <2>4. f = g <=> x = y
      BY <2>1, <2>2
  <2>5. Opposite(Lexical(x, y), Lexical(y, x), x, y)
      BY LexicalOrder
  <2>6. QED
      BY <2>3, <2>4, <2>5 DEF Opposite
<1>7. QED
    BY <1>3, <1>4, <1>5, <1>6

\* compareTo of messages.
LEMMA MessageOrder ==
    ASSUME NEW a \in Message, NEW b \in Message
    PROVE  Opposite(JavaMessageCompareTo(a, b), JavaMessageCompareTo(b, a), a, b)
<1>1. a.text \in Fields /\ b.text \in Fields /\ a.date \in Fields /\ b.date \in Fields
    BY DEF Message
<1>2. a = b <=> a.text = b.text /\ a.date = b.date
  <2>1. a = [text |-> a.text, date |-> a.date] /\ b = [text |-> b.text, date |-> b.date]
      BY DEF Message
  <2>2. QED
      BY <2>1
<1>3. PICK x, y : x = FieldOrder(Lexical, a.text, b.text) /\ y = FieldOrder(Lexical, b.text, a.text)
    OBVIOUS
<1>4. PICK v, w : v = FieldOrder(Lexical, a.date, b.date) /\ w = FieldOrder(Lexical, b.date, a.date)
    OBVIOUS
<1>5. Opposite(x, y, a.text, b.text) /\ Opposite(v, w, a.date, b.date)
  <2>1. Opposite(FieldOrder(Lexical, a.text, b.text), FieldOrder(Lexical, b.text, a.text),
                 a.text, b.text)
      BY <1>1, TextFieldOrder
  <2>2. Opposite(FieldOrder(Lexical, a.date, b.date), FieldOrder(Lexical, b.date, a.date),
                 a.date, b.date)
      BY <1>1, TextFieldOrder
  <2>3. QED
      BY <1>3, <1>4, <2>1, <2>2
<1>6. JavaMessageCompareTo(a, b) = IF x # 0 THEN x ELSE v
    BY <1>3, <1>4 DEF JavaMessageCompareTo
<1>7. JavaMessageCompareTo(b, a) = IF y # 0 THEN y ELSE w
    BY <1>3, <1>4 DEF JavaMessageCompareTo
<1>8. QED
    BY <1>2, <1>5, <1>6, <1>7 DEF Opposite

\* compareTo of lists of messages.
MessagesOrder(a, b) == ListOrder(JavaMessageCompareTo, a, b)

\* It is an order.
LEMMA ListsOrder ==
    ASSUME NEW a \in Seq(Message), NEW b \in Seq(Message)
    PROVE  Opposite(MessagesOrder(a, b), MessagesOrder(b, a), a, b)
<1>1. PICK n \in Nat, m \in Nat : n = Len(a) /\ m = Len(b)
    OBVIOUS
<1>2. CASE n # m
  <2>1. a # b
      BY <1>1, <1>2
  <2>2. /\ MessagesOrder(a, b) = IF n < m THEN -1 ELSE 1
        /\ MessagesOrder(b, a) = IF m < n THEN -1 ELSE 1
      BY <1>1, <1>2 DEF MessagesOrder, ListOrder
  <2>3. CASE n < m
    <3>1. ~(m < n)
        BY <2>3
    <3>2. QED
        BY <2>1, <2>2, <2>3, <3>1, OppositeCases
  <2>4. CASE ~(n < m)
    <3>1. m < n
        BY <1>2, <2>4
    <3>2. QED
        BY <2>1, <2>2, <2>4, <3>1, OppositeCases
  <2>5. QED
      BY <2>3, <2>4
<1>3. CASE n = m
  <2>1. DOMAIN a = 1..n /\ DOMAIN b = 1..n /\ Len(a) = Len(b)
    <3>1. DOMAIN a = 1..Len(a) /\ DOMAIN b = 1..Len(b)
        OBVIOUS
    <3>2. QED
        BY <1>1, <1>3, <3>1
  <2>2. \A i \in 1..n : a[i] \in Message /\ b[i] \in Message
      BY <2>1
  <2>3. \A i \in 1..n :
            Opposite(JavaMessageCompareTo(a[i], b[i]), JavaMessageCompareTo(b[i], a[i]), a[i], b[i])
      BY <2>2, MessageOrder
  <2>4. PICK D : D = {i \in 1..n : a[i] # b[i]}
      OBVIOUS
  <2>5. /\ {i \in DOMAIN a : JavaMessageCompareTo(a[i], b[i]) # 0} = D
        /\ {i \in DOMAIN b : JavaMessageCompareTo(b[i], a[i]) # 0} = D
    <3>1. \A i \in 1..n : /\ JavaMessageCompareTo(a[i], b[i]) # 0 <=> a[i] # b[i]
                          /\ JavaMessageCompareTo(b[i], a[i]) # 0 <=> a[i] # b[i]
        BY <2>3 DEF Opposite
    <3>2. QED
        BY <2>1, <2>4, <3>1
  <2>6. /\ MessagesOrder(a, b) = IF D = {} THEN 0 ELSE JavaMessageCompareTo(a[Min(D)], b[Min(D)])
        /\ MessagesOrder(b, a) = IF D = {} THEN 0 ELSE JavaMessageCompareTo(b[Min(D)], a[Min(D)])
      BY <2>1, <2>5 DEF MessagesOrder, ListOrder
  <2>7. CASE D = {}
    <3>1. a = b
      <4>1. \A i \in 1..n : a[i] = b[i]
          BY <2>4, <2>7
      <4>2. QED
          BY <2>1, <4>1
    <3>2. QED
        BY <2>6, <2>7, <3>1, OppositeCases
  <2>8. CASE D # {}
    <3>1. D \in SUBSET Nat
        BY <2>4
    <3>2. PICK k : k = Min(D) /\ k \in D
        BY <2>8, <3>1, Least
    <3>3. k \in 1..n /\ a[k] # b[k]
        BY <2>4, <3>2
    <3>4. a # b
        BY <3>3
    <3>5. Opposite(JavaMessageCompareTo(a[k], b[k]), JavaMessageCompareTo(b[k], a[k]), a[k], b[k])
        BY <2>3, <3>3
    <3>6. /\ MessagesOrder(a, b) = JavaMessageCompareTo(a[k], b[k])
          /\ MessagesOrder(b, a) = JavaMessageCompareTo(b[k], a[k])
        BY <2>6, <2>8, <3>2
    <3>7. QED
        BY <3>3, <3>4, <3>5, <3>6 DEF Opposite
  <2>9. QED
      BY <2>7, <2>8
<1>4. QED
    BY <1>2, <1>3

\* compareTo of the results of get.
LEMMA ResultsOrder ==
    ASSUME NEW f \in Results, NEW g \in Results
    PROVE  Opposite(JavaGetResultCompareTo(f, g), JavaGetResultCompareTo(g, f), f, g)
<1>1. f = <<>> \/ (f # <<>> /\ \E x \in Seq(Message) : f = <<x>> /\ f[1] = x)
    BY FieldForms DEF Results
<1>2. g = <<>> \/ (g # <<>> /\ \E x \in Seq(Message) : g = <<x>> /\ g[1] = x)
    BY FieldForms DEF Results
<1>3. CASE f = <<>> /\ g = <<>>
  <2>1. JavaGetResultCompareTo(f, g) = 0 /\ JavaGetResultCompareTo(g, f) = 0
      BY <1>3 DEF JavaGetResultCompareTo, FieldOrder
  <2>2. QED
      BY <1>3, <2>1, OppositeCases
<1>4. CASE f = <<>> /\ g # <<>>
  <2>1. JavaGetResultCompareTo(f, g) = -1 /\ JavaGetResultCompareTo(g, f) = 1
      BY <1>4 DEF JavaGetResultCompareTo, FieldOrder
  <2>2. QED
      BY <1>4, <2>1, OppositeCases
<1>5. CASE f # <<>> /\ g = <<>>
  <2>1. JavaGetResultCompareTo(f, g) = 1 /\ JavaGetResultCompareTo(g, f) = -1
      BY <1>5 DEF JavaGetResultCompareTo, FieldOrder
  <2>2. QED
      BY <1>5, <2>1, OppositeCases
<1>6. CASE f # <<>> /\ g # <<>>
  <2>1. PICK x \in Seq(Message) : f = <<x>> /\ f[1] = x
      BY <1>1, <1>6
  <2>2. PICK y \in Seq(Message) : g = <<y>> /\ g[1] = y
      BY <1>2, <1>6
  <2>3. /\ JavaGetResultCompareTo(f, g) = MessagesOrder(x, y)
        /\ JavaGetResultCompareTo(g, f) = MessagesOrder(y, x)
      BY <1>6, <2>1, <2>2 DEF JavaGetResultCompareTo, FieldOrder, MessagesOrder
  <2>4. f = g <=> x = y
      BY <2>1, <2>2
  <2>5. Opposite(MessagesOrder(x, y), MessagesOrder(y, x), x, y)
      BY ListsOrder
  <2>6. QED
      BY <2>3, <2>4, <2>5 DEF Opposite
<1>7. QED
    BY <1>3, <1>4, <1>5, <1>6

\* equals of messages, of the arguments of add and of the results of get is
\* equality.
LEMMA EqualsIsEquality ==
    ASSUME NEW a \in Message, NEW b \in Message, NEW x \in Results, NEW y \in Results
    PROVE  /\ JavaMessageEquals(a, b) <=> a = b
           /\ JavaGetResultEquals(x, y) <=> x = y
<1>1. ASSUME NEW f \in Fields, NEW g \in Fields
      PROVE  f = g <=> (f = <<>>) = (g = <<>>) /\ (f # <<>> => f[1] = g[1])
  <2>1. f = <<>> \/ (f # <<>> /\ \E u \in Seq(Byte) : f = <<u>> /\ f[1] = u)
      BY FieldForms DEF Fields
  <2>2. g = <<>> \/ (g # <<>> /\ \E u \in Seq(Byte) : g = <<u>> /\ g[1] = u)
      BY FieldForms DEF Fields
  <2>3. QED
      BY <2>1, <2>2
<1>2. ASSUME NEW c \in Message, NEW d \in Message
      PROVE  JavaMessageEquals(c, d) <=> c = d
  <2>1. c.text \in Fields /\ d.text \in Fields /\ c.date \in Fields /\ d.date \in Fields
      BY DEF Message
  <2>2. c = d <=> c.text = d.text /\ c.date = d.date
    <3>1. c = [text |-> c.text, date |-> c.date] /\ d = [text |-> d.text, date |-> d.date]
        BY DEF Message
    <3>2. QED
        BY <3>1
  <2>3. c.text = d.text <=> (c.text = <<>>) = (d.text = <<>>) /\ (c.text # <<>> => c.text[1] = d.text[1])
      BY <1>1, <2>1
  <2>4. c.date = d.date <=> (c.date = <<>>) = (d.date = <<>>) /\ (c.date # <<>> => c.date[1] = d.date[1])
      BY <1>1, <2>1
  <2>5. QED
      BY <2>2, <2>3, <2>4 DEF JavaMessageEquals
<1>3. JavaGetResultEquals(x, y) <=> x = y
  <2>1. x = <<>> \/ (x # <<>> /\ \E u \in Seq(Message) : x = <<u>> /\ x[1] = u)
      BY FieldForms DEF Results
  <2>2. y = <<>> \/ (y # <<>> /\ \E u \in Seq(Message) : y = <<u>> /\ y[1] = u)
      BY FieldForms DEF Results
  <2>3. CASE x = <<>> \/ y = <<>>
      BY <2>1, <2>2, <2>3 DEF JavaGetResultEquals
  <2>4. CASE x # <<>> /\ y # <<>>
    <3>1. PICK u \in Seq(Message) : x = <<u>> /\ x[1] = u
        BY <2>1, <2>4
    <3>2. PICK v \in Seq(Message) : y = <<v>> /\ y[1] = v
        BY <2>2, <2>4
    <3>3. JavaGetResultEquals(x, y) <=>
              Len(u) = Len(v) /\ \A i \in DOMAIN u : JavaMessageEquals(u[i], v[i])
        BY <2>4, <3>1, <3>2 DEF JavaGetResultEquals
    <3>4. Len(u) = Len(v) => ((\A i \in DOMAIN u : JavaMessageEquals(u[i], v[i])) <=> u = v)
      <4>1. SUFFICES ASSUME Len(u) = Len(v)
                     PROVE  (\A i \in DOMAIN u : JavaMessageEquals(u[i], v[i])) <=> u = v
          OBVIOUS
      <4>2. \A i \in DOMAIN u : u[i] \in Message /\ v[i] \in Message
          BY <4>1
      <4>3. \A i \in DOMAIN u : JavaMessageEquals(u[i], v[i]) <=> u[i] = v[i]
          BY <1>2, <4>2
      <4>4. (\A i \in DOMAIN u : u[i] = v[i]) <=> u = v
          BY <4>1
      <4>5. QED
          BY <4>3, <4>4
    <3>5. QED
        BY <3>1, <3>2, <3>3, <3>4
  <2>5. QED
      BY <2>3, <2>4
<1>4. QED
    BY <1>2, <1>3

\* Opposite numbers.
LEMMA Opposed ==
    ASSUME NEW i, NEW j, NEW a, NEW b, Opposite(i, j, a, b)
    PROVE  i = -j /\ (i = 0 <=> a = b)
<1>1. \A k, m \in Int : k + m = 0 => k = -m
    OBVIOUS
<1>2. i \in Int /\ j \in Int /\ i + j = 0 /\ (i = 0 <=> a = b)
    BY DEF Opposite
<1>3. QED
    BY <1>1, <1>2

\* compareTo and equals agree on what messages and results there may be.
LEMMA OrdersOfTwo ==
    ASSUME NEW a \in Message, NEW b \in Message, NEW x \in Results, NEW y \in Results
    PROVE  /\ JavaMessageEquals(a, b) <=> JavaMessageCompareTo(a, b) = 0
           /\ JavaMessageCompareTo(a, b) = -JavaMessageCompareTo(b, a)
           /\ JavaAddArgsEquals(<<a>>, <<b>>) <=> JavaAddArgsCompareTo(<<a>>, <<b>>) = 0
           /\ JavaGetResultEquals(x, y) <=> JavaGetResultCompareTo(x, y) = 0
           /\ JavaGetResultCompareTo(x, y) = -JavaGetResultCompareTo(y, x)
           /\ JavaMessageEquals(a, JavaMessageCopy(a))
<1>1. JavaMessageCompareTo(a, b) = -JavaMessageCompareTo(b, a)
      /\ (JavaMessageCompareTo(a, b) = 0 <=> a = b)
    BY MessageOrder, Opposed
<1>2. JavaGetResultCompareTo(x, y) = -JavaGetResultCompareTo(y, x)
      /\ (JavaGetResultCompareTo(x, y) = 0 <=> x = y)
    BY ResultsOrder, Opposed
<1>3. (JavaMessageEquals(a, b) <=> a = b) /\ (JavaGetResultEquals(x, y) <=> x = y)
    BY EqualsIsEquality
<1>4. JavaAddArgsEquals(<<a>>, <<b>>) <=> JavaAddArgsCompareTo(<<a>>, <<b>>) = 0
  <2>1. JavaAddArgsEquals(<<a>>, <<b>>) <=> JavaMessageEquals(a, b)
      BY DEF JavaAddArgsEquals
  <2>2. JavaAddArgsCompareTo(<<a>>, <<b>>) = JavaMessageCompareTo(a, b)
      BY DEF JavaAddArgsCompareTo, FieldOrder
  <2>3. QED
      BY <1>1, <1>3, <2>1, <2>2
<1>5. JavaMessageCopy(a) = a
  <2>1. a = [text |-> a.text, date |-> a.date]
      BY DEF Message
  <2>2. QED
      BY <2>1 DEF JavaMessageCopy
<1>6. JavaMessageEquals(a, JavaMessageCopy(a))
    BY <1>5, EqualsIsEquality, NoneIsAResult
<1>7. QED
    BY <1>1, <1>2, <1>3, <1>4, <1>6

-----------------------------------------------------------------------------
(* What is read is what was written.                                        *)

\* The bytes w lie in s from p on.
Holds(s, p, w) == \A i \in 1..Len(w) : ByteAt(s, p + i - 1) = w[i]

\* So does each part of them.
LEMMA HoldsBoth ==
    ASSUME NEW s \in Seq(Byte), NEW p \in Nat, NEW u \in Seq(Byte), NEW v \in Seq(Byte),
           Holds(s, p, u \o v)
    PROVE  Holds(s, p, u) /\ Holds(s, p + Len(u), v)
<1>1. PICK n \in Nat, m \in Nat : n = Len(u) /\ m = Len(v)
    OBVIOUS
<1>2. /\ Len(u \o v) = n + m
      /\ \A i \in 1..n : (u \o v)[i] = u[i]
      /\ \A i \in 1..m : (u \o v)[n + i] = v[i]
    BY <1>1
<1>3. \A i \in 1..(n + m) : ByteAt(s, p + i - 1) = (u \o v)[i]
    BY <1>2 DEF Holds
<1>4. ASSUME NEW i \in 1..n
      PROVE  ByteAt(s, p + i - 1) = u[i]
  <2>1. i \in 1..(n + m)
      OBVIOUS
  <2>2. QED
      BY <1>2, <1>3, <2>1
<1>5. ASSUME NEW i \in 1..m
      PROVE  ByteAt(s, p + n + i - 1) = v[i]
  <2>1. n + i \in 1..(n + m) /\ p + (n + i) - 1 = p + n + i - 1
      OBVIOUS
  <2>2. ByteAt(s, p + (n + i) - 1) = v[i]
      BY <1>2, <1>3, <2>1
  <2>3. QED
      BY <2>1, <2>2
<1>6. QED
    BY <1>1, <1>4, <1>5 DEF Holds

\* What is all of s lies in it from 1 on.
LEMMA HoldsAll ==
    ASSUME NEW s \in Seq(Byte)
    PROVE  Holds(s, 1, s)
<1>1. ASSUME NEW i \in 1..Len(s)
      PROVE  ByteAt(s, 1 + i - 1) = s[i]
  <2>1. 1 + i - 1 = i /\ i \in DOMAIN s
      OBVIOUS
  <2>2. QED
      BY <2>1 DEF ByteAt
<1>2. QED
    BY <1>1 DEF Holds

\* The greatest number of four bytes.
LEMMA MaxI32Value == MaxI32 = 2147483647
BY SMT DEF MaxI32

\* It is a natural number.
LEMMA MaxI32Type == MaxI32 \in Nat
<1>1. MaxI32 = 2147483647
    BY MaxI32Value, SMT
<1>2. 2147483647 \in Nat
    BY SMT
<1>3. QED
    BY <1>1, <1>2, SMT

\* A number of four bytes.
LEMMA NumberWritten ==
    ASSUME NEW n \in Nat, n <= MaxI32
    PROVE  /\ WriteI32(n) \in Seq(Byte) /\ Len(WriteI32(n)) = 4
           /\ \A s \in Seq(Byte), p \in Nat : Holds(s, p, WriteI32(n)) => I32At(s, p) = n
<1>1. n \in Nat /\ n <= 2147483647
    BY MaxI32Value, SMT
<1>2. PICK a \in Int, b \in Int, c \in Int, d \in Int :
          /\ a = (n \div 16777216) % 256 /\ b = (n \div 65536) % 256
          /\ c = (n \div 256) % 256 /\ d = n % 256
    BY <1>1, SMT
<1>3. a \in 0..127 /\ b \in 0..255 /\ c \in 0..255 /\ d \in 0..255
  <2>1. b \in 0..255 /\ c \in 0..255 /\ d \in 0..255
      BY <1>1, <1>2, SMT
  <2>2. n \div 16777216 \in 0..127
      BY <1>1, SMT
  <2>3. a \in 0..127
      BY <1>2, <2>2, SMT
  <2>4. QED
      BY <2>1, <2>3
<1>4. 16777216 * a + 65536 * b + 256 * c + d = n
  <2>1. n = 256 * (n \div 256) + d
      BY <1>1, <1>2, SMT
  <2>2. n \div 256 = 256 * (n \div 65536) + c
      BY <1>1, <1>2, SMT
  <2>3. n \div 65536 = 256 * (n \div 16777216) + b
      BY <1>1, <1>2, SMT
  <2>4. n \div 16777216 = a
      BY <1>1, <1>2, SMT
  <2>5. QED
      BY <1>1, <2>1, <2>2, <2>3, <2>4, SMT
<1>5. WriteI32(n) = <<a, b, c, d>>
    BY <1>2, SMT DEF WriteI32
<1>6. <<a, b, c, d>> \in Seq(Byte) /\ Len(<<a, b, c, d>>) = 4
    BY <1>3, SMT DEF Byte
<1>7. ASSUME NEW s \in Seq(Byte), NEW p \in Nat, Holds(s, p, <<a, b, c, d>>)
      PROVE  I32At(s, p) = n
  <2>1. \A i \in 1..4 : ByteAt(s, p + i - 1) = <<a, b, c, d>>[i]
      BY <1>6, <1>7, SMT DEF Holds
  <2>2. ByteAt(s, p) = a /\ ByteAt(s, p + 1) = b /\ ByteAt(s, p + 2) = c /\ ByteAt(s, p + 3) = d
    <3>1. 1 \in 1..4 /\ 2 \in 1..4 /\ 3 \in 1..4 /\ 4 \in 1..4
        OBVIOUS
    <3>2. p + 1 - 1 = p /\ p + 2 - 1 = p + 1 /\ p + 3 - 1 = p + 2 /\ p + 4 - 1 = p + 3
        OBVIOUS
    <3>3. ByteAt(s, p + 1 - 1) = a /\ ByteAt(s, p + 2 - 1) = b
          /\ ByteAt(s, p + 3 - 1) = c /\ ByteAt(s, p + 4 - 1) = d
        BY <2>1, <3>1, SMT
    <3>4. QED
        BY <3>2, <3>3
  <2>3. ~(a >= 128)
      BY <1>3
  <2>4. I32At(s, p) = 16777216 * a + 65536 * b + 256 * c + d
      BY <2>2, <2>3, SMTT(30) DEF I32At, NegativeAt
  <2>5. QED
      BY <1>4, <2>4, SMT
<1>8. QED
    BY <1>5, <1>6, <1>7, SMT

\* A byte, and the first three bytes of a field.
LEMMA ByteWritten ==
    ASSUME NEW s \in Seq(Byte), NEW p \in Nat, NEW b \in Byte, Holds(s, p, <<b>>)
    PROVE  ByteAt(s, p) = b
<1>1. 1 \in 1..Len(<<b>>) /\ p + 1 - 1 = p /\ <<b>>[1] = b
    OBVIOUS
<1>2. QED
    BY <1>1 DEF Holds

\* What a field begins with.
LEMMA FieldBeginWritten ==
    ASSUME NEW t \in Byte, NEW id \in 0..3
    PROVE  /\ WriteFieldBegin(t, id) \in Seq(Byte) /\ Len(WriteFieldBegin(t, id)) = 3
           /\ \A s \in Seq(Byte), p \in Nat : Holds(s, p, WriteFieldBegin(t, id)) =>
                 FieldTypeAt(s, p) = t /\ FieldIdAt(s, p) = id
<1>1. (id \div 256) % 256 = 0 /\ id % 256 = id
    OBVIOUS
<1>2. WriteFieldBegin(t, id) = <<t>> \o <<0, id>>
    BY <1>1 DEF WriteFieldBegin, WriteI16
<1>3. /\ <<t>> \in Seq(Byte) /\ Len(<<t>>) = 1
      /\ <<0, id>> \in Seq(Byte) /\ Len(<<0, id>>) = 2
  <2>1. 0 \in Byte /\ id \in Byte
      BY DEF Byte
  <2>2. QED
      BY <2>1
<1>4. ASSUME NEW s \in Seq(Byte), NEW p \in Nat, Holds(s, p, <<t>> \o <<0, id>>)
      PROVE  FieldTypeAt(s, p) = t /\ FieldIdAt(s, p) = id
  <2>1. Holds(s, p, <<t>>) /\ Holds(s, p + 1, <<0, id>>)
    <3>1. PICK u \in Seq(Byte), v \in Seq(Byte) : u = <<t>> /\ v = <<0, id>> /\ Len(u) = 1
        BY <1>3
    <3>2. Holds(s, p, u \o v)
        BY <1>4, <3>1
    <3>3. Holds(s, p, u) /\ Holds(s, p + Len(u), v)
        BY <3>2, HoldsBoth
    <3>4. QED
        BY <3>1, <3>3
  <2>2. ByteAt(s, p) = t
      BY <2>1, ByteWritten
  <2>3. \A i \in 1..2 : ByteAt(s, p + 1 + i - 1) = <<0, id>>[i]
      BY <1>3, <2>1 DEF Holds
  <2>4. ByteAt(s, p + 1 + 1 - 1) = 0 /\ ByteAt(s, p + 1 + 2 - 1) = id
    <3>1. 1 \in 1..2 /\ 2 \in 1..2
        OBVIOUS
    <3>2. QED
        BY <2>3, <3>1
  <2>5. p + 1 + 1 - 1 = p + 1 /\ p + 1 + 2 - 1 = p + 1 + 1
      OBVIOUS
  <2>6. ByteAt(s, p + 1) = 0 /\ ByteAt(s, p + 1 + 1) = id
      BY <2>4, <2>5
  <2>7. I16At(s, p + 1) = id
    <3>1. 256 * 0 + id = id /\ id < 32768
        BY SMT
    <3>2. QED
        BY <2>6, <3>1, SMT DEF I16At
  <2>8. QED
      BY <2>2, <2>7 DEF FieldTypeAt, FieldIdAt
<1>5. <<t>> \o <<0, id>> \in Seq(Byte) /\ Len(<<t>> \o <<0, id>>) = 3
    BY <1>3
<1>6. QED
    BY <1>2, <1>4, <1>5

\* The bytes v are a value of type t: skipType finds their end.
IsValue(t, v) == \A s \in Seq(Byte), p \in Nat : Holds(s, p, v) => SkipType(s, t, p) = p + Len(v)

\* What is read behind a string.
IsString(t, w) ==
    \A s \in Seq(Byte), p \in Nat : Holds(s, p, w) =>
        /\ LibStringAt(s, p) = t
        /\ StringAt(s, p) = CString(t)
        /\ AfterString(s, p) = p + Len(w)

\* A text written.
LEMMA TextWritten ==
    ASSUME NEW t \in Seq(Byte), Len(t) <= MaxI32
    PROVE  /\ LibWriteString(t) \in Seq(Byte) /\ Len(LibWriteString(t)) = Len(t) + 4
           /\ IsString(t, LibWriteString(t))
           /\ IsValue(T_STRING, LibWriteString(t))
<1>1. PICK n \in Nat : n = Len(t) /\ n <= MaxI32
    OBVIOUS
<1>2. PICK w \in Seq(Byte) : w = WriteI32(n) /\ Len(w) = 4
                             /\ \A s \in Seq(Byte), p \in Nat : Holds(s, p, w) => I32At(s, p) = n
    BY <1>1, NumberWritten
<1>3. LibWriteString(t) = w \o t
    BY <1>1, <1>2 DEF LibWriteString
<1>4. w \o t \in Seq(Byte) /\ Len(w \o t) = n + 4
  <2>1. w \o t \in Seq(Byte) /\ Len(w \o t) = Len(w) + Len(t)
      OBVIOUS
  <2>2. 4 + n = n + 4
      OBVIOUS
  <2>3. QED
      BY <1>1, <1>2, <2>1, <2>2
<1>5. ASSUME NEW s \in Seq(Byte), NEW p \in Nat, Holds(s, p, w \o t)
      PROVE  /\ LibStringAt(s, p) = t
             /\ StringAt(s, p) = CString(t)
             /\ AfterString(s, p) = p + Len(w \o t)
  <2>1. Holds(s, p, w) /\ Holds(s, p + 4, t)
      BY <1>2, <1>5, HoldsBoth
  <2>2. I32At(s, p) = n
      BY <1>2, <2>1
  <2>3. \A i \in 1..n : ByteAt(s, p + 4 + i - 1) = t[i]
      BY <1>1, <2>1 DEF Holds
  <2>4. t = [i \in 1..n |-> t[i]]
    <3>1. DOMAIN t = 1..Len(t) /\ t = [i \in DOMAIN t |-> t[i]]
        OBVIOUS
    <3>2. QED
        BY <1>1, <3>1
  <2>5. [i \in 1..n |-> ByteAt(s, p + 4 + i - 1)] = t
      BY <2>3, <2>4
  <2>6. [i \in 1..n |-> ByteAt(s, p + 3 + i)] = t
    <3>1. \A i \in 1..n : p + 4 + i - 1 = p + 3 + i
        OBVIOUS
    <3>2. QED
        BY <2>3, <2>4, <3>1
  <2>7. LibStringAt(s, p) = t
      BY <2>2, <2>6 DEF LibStringAt
  <2>8. StringAt(s, p) = CString(t)
      BY <2>2, <2>5 DEF StringAt, StringBodyAt
  <2>9. AfterString(s, p) = p + Len(w \o t)
    <3>1. AfterString(s, p) = p + 4 + n
        BY <2>2 DEF AfterString
    <3>2. QED
        BY <1>4, <3>1
  <2>10. QED
      BY <2>7, <2>8, <2>9
<1>6. ASSUME NEW s \in Seq(Byte), NEW p \in Nat, Holds(s, p, w \o t)
      PROVE  SkipType(s, T_STRING, p) = p + Len(w \o t)
  <2>1. SkipType(s, T_STRING, p) = AfterString(s, p)
      BY SkipTypeSteps, TypesAreBytes
  <2>2. QED
      BY <1>5, <1>6, <2>1
<1>7. IsString(t, w \o t)
    BY <1>5 DEF IsString
<1>8. IsValue(T_STRING, w \o t)
    BY <1>6 DEF IsValue
<1>9. QED
    BY <1>1, <1>3, <1>4, <1>7, <1>8

\* A field, with the bytes of its value when it is set.
OptField(id, t, vs) == IF vs = <<>> THEN <<>> ELSE WriteFieldBegin(t, id) \o vs[1]

\* A read of a structure that is at p goes on at q, having found these values
\* of one field.
Passes(s, p, q, id, t, found) ==
    /\ SkipType(s, T_STRUCT, p) = SkipType(s, T_STRUCT, q)
    /\ \A i, tt : FieldsOf(s, p, i, tt) =
                     (IF i = id /\ tt = t THEN found ELSE <<>>) \o FieldsOf(s, q, i, tt)

\* It goes on behind the field.
LEMMA FieldWritten ==
    ASSUME NEW t \in Byte, t # T_STOP, NEW id \in 0..3, NEW v \in Seq(Byte), IsValue(t, v),
           NEW s \in Seq(Byte), NEW p \in Nat, Holds(s, p, WriteFieldBegin(t, id) \o v)
    PROVE  Holds(s, p + 3, v) /\ Passes(s, p, p + (Len(v) + 3), id, t, <<p + 3>>)
<1>1. PICK b \in Seq(Byte) :
          /\ b = WriteFieldBegin(t, id) /\ Len(b) = 3
          /\ \A q \in Nat : Holds(s, q, b) => FieldTypeAt(s, q) = t /\ FieldIdAt(s, q) = id
    BY FieldBeginWritten
<1>2. Holds(s, p, b) /\ Holds(s, p + 3, v)
  <2>1. Holds(s, p, b \o v)
      BY <1>1
  <2>2. Holds(s, p, b) /\ Holds(s, p + Len(b), v)
      BY <2>1, HoldsBoth
  <2>3. QED
      BY <1>1, <2>2
<1>3. FieldTypeAt(s, p) = t /\ FieldIdAt(s, p) = id
    BY <1>1, <1>2
<1>4. NextField(s, p) = p + (Len(v) + 3)
  <2>1. p + 3 \in Nat
      OBVIOUS
  <2>2. SkipType(s, t, p + 3) = (p + 3) + Len(v)
      BY <1>2, <2>1 DEF IsValue
  <2>3. PICK n \in Nat : n = Len(v)
      OBVIOUS
  <2>4. (p + 3) + n = p + (n + 3)
      OBVIOUS
  <2>5. QED
      BY <1>3, <2>2, <2>3, <2>4 DEF NextField, AfterFieldBegin
<1>5. SkipType(s, T_STRUCT, p) = SkipType(s, T_STRUCT, p + (Len(v) + 3))
  <2>1. SkipType(s, T_STRUCT, p) =
            SkipType(s, T_STRUCT, SkipType(s, FieldTypeAt(s, p), AfterFieldBegin(p)))
      BY <1>3, SkipTypeSteps, TypesAreBytes, ZenonT(60)
  <2>2. QED
      BY <1>4, <2>1 DEF NextField
<1>6. ASSUME NEW i, NEW tt
      PROVE  FieldsOf(s, p, i, tt) = (IF i = id /\ tt = t THEN <<p + 3>> ELSE <<>>)
                                     \o FieldsOf(s, p + (Len(v) + 3), i, tt)
  <2>1. FieldsOf(s, p, i, tt) = Hit(s, p, i, tt) \o FieldsOf(s, NextField(s, p), i, tt)
      BY <1>3, FieldsOfSteps
  <2>2. Hit(s, p, i, tt) = IF i = id /\ tt = t THEN <<p + 3>> ELSE <<>>
      BY <1>3 DEF Hit, AfterFieldBegin
  <2>3. QED
      BY <1>4, <2>1, <2>2
<1>7. QED
    BY <1>2, <1>5, <1>6 DEF Passes

\* The same of a field that may be unset.
LEMMA OptFieldWritten ==
    ASSUME NEW t \in Byte, t # T_STOP, NEW id \in 0..3, NEW vs \in Fields,
           vs # <<>> => IsValue(t, vs[1]),
           NEW s \in Seq(Byte), NEW p \in Nat, Holds(s, p, OptField(id, t, vs))
    PROVE  /\ vs # <<>> => Holds(s, p + 3, vs[1])
           /\ Passes(s, p, p + Len(OptField(id, t, vs)), id, t,
                     IF vs # <<>> THEN <<p + 3>> ELSE <<>>)
<1>1. vs = <<>> \/ (vs # <<>> /\ \E x \in Seq(Byte) : vs = <<x>> /\ vs[1] = x)
    BY FieldForms DEF Fields
<1>2. CASE vs = <<>>
  <2>1. OptField(id, t, vs) = <<>> /\ Len(<<>>) = 0 /\ p + 0 = p
      BY <1>2 DEF OptField
  <2>2. \A i, tt : <<>> \o FieldsOf(s, p, i, tt) = FieldsOf(s, p, i, tt)
    <3>1. ASSUME NEW i, NEW tt PROVE <<>> \o FieldsOf(s, p, i, tt) = FieldsOf(s, p, i, tt)
      <4>1. FieldsOf(s, p, i, tt) \in Seq(Nat)
          BY FieldsOfSteps
      <4>2. QED
          BY <4>1, ConcatEmptySeq
    <3>2. QED
        BY <3>1
  <2>3. QED
      BY <1>2, <2>1, <2>2 DEF Passes
<1>3. CASE vs # <<>>
  <2>1. PICK v \in Seq(Byte) : v = vs[1]
      BY <1>1, <1>3
  <2>2. OptField(id, t, vs) = WriteFieldBegin(t, id) \o v
      BY <1>3, <2>1 DEF OptField
  <2>3. Len(OptField(id, t, vs)) = Len(v) + 3
    <3>1. PICK b \in Seq(Byte) : b = WriteFieldBegin(t, id) /\ Len(b) = 3
        BY FieldBeginWritten
    <3>2. PICK n \in Nat : n = Len(v)
        OBVIOUS
    <3>3. Len(b \o v) = Len(b) + Len(v) /\ 3 + n = n + 3
        OBVIOUS
    <3>4. QED
        BY <2>2, <3>1, <3>2, <3>3
  <2>4. IsValue(t, v) /\ Holds(s, p, WriteFieldBegin(t, id) \o v)
      BY <1>3, <2>1, <2>2
  <2>5. Holds(s, p + 3, v) /\ Passes(s, p, p + (Len(v) + 3), id, t, <<p + 3>>)
      BY <2>4, FieldWritten
  <2>6. QED
      BY <1>3, <2>1, <2>3, <2>5
<1>4. QED
    BY <1>2, <1>3

\* Its bytes.
LEMMA OptFieldType ==
    ASSUME NEW t \in Byte, NEW id \in 0..3, NEW vs \in Fields
    PROVE  OptField(id, t, vs) \in Seq(Byte)
<1>1. vs = <<>> \/ (vs # <<>> /\ \E x \in Seq(Byte) : vs = <<x>> /\ vs[1] = x)
    BY FieldForms DEF Fields
<1>2. PICK b \in Seq(Byte) : b = WriteFieldBegin(t, id)
    BY FieldBeginWritten
<1>3. QED
    BY <1>1, <1>2 DEF OptField

\* Behind the last field is a stop.
LEMMA StopWritten ==
    ASSUME NEW s \in Seq(Byte), NEW p \in Nat, Holds(s, p, WriteFieldStop)
    PROVE  /\ SkipType(s, T_STRUCT, p) = p + 1
           /\ \A i, tt : FieldsOf(s, p, i, tt) = <<>>
<1>1. FieldTypeAt(s, p) = T_STOP
    BY ByteWritten, TypesAreBytes DEF WriteFieldStop, FieldTypeAt
<1>2. QED
    BY <1>1, SkipTypeSteps, TypesAreBytes, FieldsOfSteps

\* A small number.
LEMMA SmallNumber ==
    ASSUME NEW n \in Nat, n <= 1000
    PROVE  n <= MaxI32
<1>1. n <= 2147483647
    BY SMT
<1>2. QED
    BY <1>1, MaxI32Value, SMT

\* The types of two and of four bytes.
LEMMA NumberTypes ==
    /\ T_I16 \in Byte /\ T_I16 \in DOMAIN Width /\ Width[T_I16] = 2
    /\ T_I32 \in Byte /\ T_I32 \in DOMAIN Width /\ Width[T_I32] = 4
BY DEF Width, Byte, T_BOOL, T_BYTE, T_I16, T_I32, T_I64, T_DOUBLE

\* Two bytes.
LEMMA TwoBytes ==
    ASSUME NEW a \in Byte, NEW b \in Byte
    PROVE  /\ <<a>> \in Seq(Byte) /\ Len(<<a>>) = 1
           /\ <<a, b>> \in Seq(Byte) /\ Len(<<a, b>>) = 2
OBVIOUS

\* A number is a value.
LEMMA NumberIsAValue ==
    ASSUME NEW n \in Nat, n <= MaxI32
    PROVE  IsValue(T_I32, WriteI32(n))
<1>1. Len(WriteI32(n)) = 4
    BY NumberWritten
<1>2. T_I32 \in Byte /\ T_I32 \in DOMAIN Width /\ Width[T_I32] = 4
    BY NumberTypes
<1>3. ASSUME NEW s \in Seq(Byte), NEW p \in Nat
      PROVE  SkipType(s, T_I32, p) = p + 4
  <2>1. SkipType(s, T_I32, p) = p + Width[T_I32]
      BY <1>2, SkipTypeSteps
  <2>2. QED
      BY <1>2, <2>1
<1>4. QED
    BY <1>1, <1>3 DEF IsValue

\* A list of two numbers, whose bytes are those of another field.
LEMMA ExtraList ==
    ASSUME link.extra = T_LIST
    PROVE  ExtraValue \in Seq(Byte) /\ IsValue(T_LIST, ExtraValue)
<1>1. PICK w \in Seq(Byte) : w = WriteI32(2) /\ Len(w) = 4
                             /\ \A s \in Seq(Byte), p \in Nat : Holds(s, p, w) => I32At(s, p) = 2
    BY SmallNumber, NumberWritten
<1>2. PICK a \in Seq(Byte) : a = <<T_I16>> /\ Len(a) = 1
  <2>1. <<T_I16>> \in Seq(Byte) /\ Len(<<T_I16>>) = 1
      BY NumberTypes, TwoBytes
  <2>2. QED
      BY <2>1
<1>3. PICK b \in Seq(Byte) : Len(b) = 4 /\ ExtraValue = (a \o w) \o b
  <2>1. ExtraValue = ((a \o w) \o <<0, 1>>) \o <<0, 11>>
    <3>1. WriteI16(1) = <<0, 1>> /\ WriteI16(11) = <<0, 11>>
        BY DEF WriteI16
    <3>2. WriteListBegin(T_I16, 2) = a \o w
        BY <1>1, <1>2 DEF WriteListBegin
    <3>3. ExtraValue = (WriteListBegin(T_I16, 2) \o WriteI16(1)) \o WriteI16(11)
      <4>1. T_LIST # T_MAP
          BY DEF T_LIST, T_MAP
      <4>2. QED
          BY <4>1 DEF ExtraValue
    <3>4. QED
        BY <3>1, <3>2, <3>3
  <2>2. PICK u \in Seq(Byte) : u = <<0, 1>> /\ Len(u) = 2
    <3>1. 0 \in Byte /\ 1 \in Byte
        BY DEF Byte
    <3>2. <<0, 1>> \in Seq(Byte) /\ Len(<<0, 1>>) = 2
        BY <3>1, TwoBytes
    <3>3. QED
        BY <3>2
  <2>3. PICK v \in Seq(Byte) : v = <<0, 11>> /\ Len(v) = 2
    <3>1. 0 \in Byte /\ 11 \in Byte
        BY DEF Byte
    <3>2. <<0, 11>> \in Seq(Byte) /\ Len(<<0, 11>>) = 2
        BY <3>1, TwoBytes
    <3>3. QED
        BY <3>2
  <2>4. ((a \o w) \o u) \o v = (a \o w) \o (u \o v)
    <3>1. PICK x \in Seq(Byte) : x = a \o w
      <4>1. a \o w \in Seq(Byte)
          OBVIOUS
      <4>2. QED
          BY <4>1
    <3>2. (x \o u) \o v = x \o (u \o v)
        BY BytesAssociate
    <3>3. QED
        BY <3>1, <3>2
  <2>5. u \o v \in Seq(Byte) /\ Len(u \o v) = 4
    <3>1. u \o v \in Seq(Byte) /\ Len(u \o v) = Len(u) + Len(v)
        OBVIOUS
    <3>2. QED
        BY <2>2, <2>3, <3>1
  <2>6. QED
      BY <2>1, <2>2, <2>3, <2>4, <2>5
<1>4. (a \o w) \o b \in Seq(Byte) /\ a \o w \in Seq(Byte) /\ Len((a \o w) \o b) = 9 /\ Len(a \o w) = 5
  <2>1. PICK x \in Seq(Byte) : x = a \o w /\ Len(x) = Len(a) + Len(w)
    <3>1. a \o w \in Seq(Byte) /\ Len(a \o w) = Len(a) + Len(w)
        OBVIOUS
    <3>2. QED
        BY <3>1
  <2>2. Len(x) = 5
      BY <1>1, <1>2, <2>1
  <2>3. x \o b \in Seq(Byte) /\ Len(x \o b) = Len(x) + Len(b)
      OBVIOUS
  <2>4. QED
      BY <1>3, <2>1, <2>2, <2>3
<1>5. ASSUME NEW s \in Seq(Byte), NEW p \in Nat, Holds(s, p, (a \o w) \o b)
      PROVE  SkipType(s, T_LIST, p) = p + 9
  <2>1. Holds(s, p, a \o w)
      BY <1>4, <1>5, HoldsBoth
  <2>2. Holds(s, p, a) /\ Holds(s, p + Len(a), w)
      BY <2>1, HoldsBoth
  <2>3. ByteAt(s, p) = T_I16 /\ I32At(s, p + 1) = 2
    <3>1. Holds(s, p, <<T_I16>>) /\ Holds(s, p + 1, w)
        BY <1>2, <2>2
    <3>2. p + 1 \in Nat
        OBVIOUS
    <3>3. ByteAt(s, p) = T_I16
        BY <3>1, ByteWritten, NumberTypes
    <3>4. QED
        BY <1>1, <3>1, <3>2, <3>3
  <2>4. PICK f : f = [q \in Nat |-> SkipType(s, T_I16, q)]
      OBVIOUS
  <2>5. f \in [Nat -> Nat]
      BY <2>4, SkipIsAStep, NumberTypes
  <2>6. SkipType(s, T_LIST, p) = Repeat(f, p + 5, 2)
    <3>1. SkipType(s, T_LIST, p) =
              Repeat([q \in Nat |-> SkipType(s, ByteAt(s, p), q)], p + 5, I32At(s, p + 1))
        BY SkipTypeSteps, TypesAreBytes
    <3>2. QED
        BY <2>3, <2>4, <3>1
  <2>7. \A q \in Nat : f[q] = q + 2
    <3>1. ASSUME NEW q \in Nat
          PROVE  SkipType(s, T_I16, q) = q + 2
      <4>1. SkipType(s, T_I16, q) = q + Width[T_I16]
          BY NumberTypes, SkipTypeSteps
      <4>2. QED
          BY <4>1, NumberTypes
    <3>2. QED
        BY <2>4, <3>1
  <2>8. p + 5 \in Nat
      OBVIOUS
  <2>9. \A n \in Int : /\ n <= 0 => Repeat(f, p + 5, n) = p + 5
                       /\ n > 0 => Repeat(f, p + 5, n) = f[Repeat(f, p + 5, n - 1)]
      BY <2>5, <2>8, RepeatOnNat
  <2>10. Repeat(f, p + 5, 0) = p + 5 /\ Repeat(f, p + 5, 1) = f[Repeat(f, p + 5, 0)]
         /\ Repeat(f, p + 5, 2) = f[Repeat(f, p + 5, 1)]
    <3>1. Repeat(f, p + 5, 0) = p + 5
        BY <2>9
    <3>2. Repeat(f, p + 5, 1) = f[Repeat(f, p + 5, 0)]
      <4>1. 1 - 1 = 0 /\ 1 > 0 /\ 1 \in Int
          OBVIOUS
      <4>2. QED
          BY <2>9, <4>1
    <3>3. Repeat(f, p + 5, 2) = f[Repeat(f, p + 5, 1)]
      <4>1. 2 - 1 = 1 /\ 2 > 0 /\ 2 \in Int
          OBVIOUS
      <4>2. QED
          BY <2>9, <4>1
    <3>4. QED
        BY <3>1, <3>2, <3>3
  <2>11. f[p + 5] = p + 5 + 2 /\ f[p + 5 + 2] = p + 5 + 2 + 2
    <3>1. p + 5 \in Nat /\ p + 5 + 2 \in Nat
        OBVIOUS
    <3>2. QED
        BY <2>7, <3>1
  <2>12. p + 5 + 2 + 2 = p + 9
      OBVIOUS
  <2>13. QED
      BY <2>6, <2>10, <2>11, <2>12
<1>6. IsValue(T_LIST, (a \o w) \o b)
    BY <1>4, <1>5 DEF IsValue
<1>7. QED
    BY <1>3, <1>4, <1>6

\* A map of a text to a number.
LEMMA ExtraMap ==
    ASSUME link.extra = T_MAP
    PROVE  ExtraValue \in Seq(Byte) /\ IsValue(T_MAP, ExtraValue)
<1>1. PICK w \in Seq(Byte) : w = WriteI32(1) /\ Len(w) = 4
                             /\ \A s \in Seq(Byte), p \in Nat : Holds(s, p, w) => I32At(s, p) = 1
    BY SmallNumber, NumberWritten
<1>2. PICK a \in Seq(Byte) : a = <<T_STRING, T_I32>> /\ Len(a) = 2
  <2>1. <<T_STRING, T_I32>> \in Seq(Byte) /\ Len(<<T_STRING, T_I32>>) = 2
      BY TypesAreBytes, NumberTypes, TwoBytes
  <2>2. QED
      BY <2>1
<1>3. PICK u \in Seq(Byte) : u = LibWriteString(<<1>>) /\ Len(u) = 5 /\ IsValue(T_STRING, u)
  <2>1. PICK t \in Seq(Byte) : t = <<1>> /\ Len(t) = 1
    <3>1. 1 \in Byte
        BY DEF Byte
    <3>2. <<1>> \in Seq(Byte) /\ Len(<<1>>) = 1
        BY <3>1, TwoBytes
    <3>3. QED
        BY <3>2
  <2>2. Len(t) <= MaxI32
      BY <2>1, SmallNumber
  <2>3. LibWriteString(t) \in Seq(Byte) /\ Len(LibWriteString(t)) = Len(t) + 4
        /\ IsValue(T_STRING, LibWriteString(t))
      BY <2>2, TextWritten
  <2>4. QED
      BY <2>1, <2>3
<1>4. PICK v \in Seq(Byte) : v = WriteI32(258) /\ Len(v) = 4 /\ IsValue(T_I32, v)
    BY SmallNumber, NumberWritten, NumberIsAValue
<1>5. ExtraValue = (a \o w) \o (u \o v)
  <2>1. T_LIST # T_MAP
      BY DEF T_LIST, T_MAP
  <2>2. ExtraValue = ((a \o w) \o u) \o v
      BY <1>1, <1>2, <1>3, <1>4, <2>1 DEF ExtraValue
  <2>3. PICK x \in Seq(Byte) : x = a \o w
    <3>1. a \o w \in Seq(Byte)
        OBVIOUS
    <3>2. QED
        BY <3>1
  <2>4. (x \o u) \o v = x \o (u \o v)
      BY BytesAssociate
  <2>5. QED
      BY <2>2, <2>3, <2>4
<1>6. (a \o w) \o (u \o v) \in Seq(Byte) /\ a \o w \in Seq(Byte) /\ u \o v \in Seq(Byte)
      /\ Len((a \o w) \o (u \o v)) = 15 /\ Len(a \o w) = 6
  <2>1. PICK x \in Seq(Byte), y \in Seq(Byte) :
            x = a \o w /\ Len(x) = Len(a) + Len(w) /\ y = u \o v /\ Len(y) = Len(u) + Len(v)
    <3>1. a \o w \in Seq(Byte) /\ Len(a \o w) = Len(a) + Len(w)
          /\ u \o v \in Seq(Byte) /\ Len(u \o v) = Len(u) + Len(v)
        OBVIOUS
    <3>2. QED
        BY <3>1
  <2>2. Len(x) = 6 /\ Len(y) = 9
    <3>1. Len(x) = 2 + 4 /\ Len(y) = 5 + 4
        BY <1>1, <1>2, <1>3, <1>4, <2>1, ZenonT(60)
    <3>2. QED
        BY <3>1
  <2>3. x \o y \in Seq(Byte) /\ Len(x \o y) = Len(x) + Len(y)
      OBVIOUS
  <2>4. QED
      BY <2>1, <2>2, <2>3
<1>7. ASSUME NEW s \in Seq(Byte), NEW p \in Nat, Holds(s, p, (a \o w) \o (u \o v))
      PROVE  SkipType(s, T_MAP, p) = p + 15
  <2>1. Holds(s, p, a \o w) /\ Holds(s, p + Len(a \o w), u \o v)
      BY <1>6, <1>7, HoldsBoth
  <2>2. Holds(s, p, a) /\ Holds(s, p + Len(a), w)
      BY <2>1, HoldsBoth
  <2>3. Holds(s, p + 6, u) /\ Holds(s, p + 6 + 5, v)
    <3>1. p + 6 \in Nat /\ Holds(s, p + 6, u \o v)
        BY <1>6, <2>1
    <3>2. QED
        BY <1>3, <3>1, HoldsBoth
  <2>4. ByteAt(s, p) = T_STRING /\ ByteAt(s, p + 1) = T_I32 /\ I32At(s, p + 2) = 1
    <3>1. Holds(s, p, <<T_STRING, T_I32>>) /\ Holds(s, p + 2, w)
        BY <1>2, <2>2
    <3>2. p + 2 \in Nat /\ 1 \in 1..2 /\ 2 \in 1..2 /\ p + 1 - 1 = p /\ p + 2 - 1 = p + 1
        OBVIOUS
    <3>3. ByteAt(s, p + 1 - 1) = T_STRING /\ ByteAt(s, p + 2 - 1) = T_I32
        BY <3>1, <3>2 DEF Holds
    <3>4. QED
        BY <1>1, <3>1, <3>2, <3>3
  <2>5. PICK f : f = [q \in Nat |-> SkipType(s, T_I32, SkipType(s, T_STRING, q))]
      OBVIOUS
  <2>6. f \in [Nat -> Nat]
    <3>1. \A q \in Nat : SkipType(s, T_STRING, q) \in Nat /\ SkipType(s, T_I32, q) \in Nat
        BY SkipTypeSteps, TypesAreBytes, NumberTypes
    <3>2. QED
        BY <2>5, <3>1
  <2>7. SkipType(s, T_MAP, p) = Repeat(f, p + 6, 1)
    <3>1. SkipType(s, T_MAP, p) =
              Repeat([q \in Nat |-> SkipType(s, ByteAt(s, p + 1), SkipType(s, ByteAt(s, p), q))],
                     p + 6, I32At(s, p + 2))
        BY SkipTypeSteps, TypesAreBytes, ZenonT(60)
    <3>2. QED
        BY <2>4, <2>5, <3>1
  <2>8. f[p + 6] = p + 15
    <3>1. p + 6 \in Nat /\ p + 6 + 5 \in Nat /\ p + 6 + 5 + 4 = p + 15
        OBVIOUS
    <3>2. SkipType(s, T_STRING, p + 6) = p + 6 + 5
        BY <1>3, <2>3, <3>1 DEF IsValue
    <3>3. SkipType(s, T_I32, p + 6 + 5) = p + 6 + 5 + 4
      <4>1. PICK q \in Nat : q = p + 6 + 5
          BY <3>1
      <4>2. SkipType(s, T_I32, q) = q + Len(v)
          BY <1>4, <2>3, <4>1 DEF IsValue
      <4>3. QED
          BY <1>4, <4>1, <4>2
    <3>4. QED
        BY <2>5, <3>1, <3>2, <3>3
  <2>9. Repeat(f, p + 6, 0) = p + 6 /\ Repeat(f, p + 6, 1) = f[Repeat(f, p + 6, 0)]
    <3>1. p + 6 \in Nat /\ 1 - 1 = 0 /\ 1 > 0 /\ 1 \in Int /\ 0 \in Int /\ 0 <= 0
        OBVIOUS
    <3>2. \A n \in Int : /\ n <= 0 => Repeat(f, p + 6, n) = p + 6
                         /\ n > 0 => Repeat(f, p + 6, n) = f[Repeat(f, p + 6, n - 1)]
        BY <2>6, <3>1, RepeatOnNat
    <3>3. Repeat(f, p + 6, 1) = f[Repeat(f, p + 6, 1 - 1)]
        BY <3>1, <3>2
    <3>4. QED
        BY <3>1, <3>2, <3>3
  <2>10. QED
      BY <2>7, <2>8, <2>9
<1>8. IsValue(T_MAP, (a \o w) \o (u \o v))
    BY <1>6, <1>7 DEF IsValue
<1>9. QED
    BY <1>5, <1>6, <1>8

\* A value of a type of fixed size.
LEMMA ExtraNumber ==
    ASSUME link.extra \in DOMAIN Width
    PROVE  ExtraValue \in Seq(Byte) /\ IsValue(link.extra, ExtraValue)
<1>1. link.extra # T_LIST /\ link.extra # T_MAP
    BY DEF Width, T_BOOL, T_BYTE, T_I16, T_I32, T_I64, T_DOUBLE, T_LIST, T_MAP
<1>2. PICK n \in {1, 2, 4, 8} : n = Width[link.extra]
    BY DEF Width, T_BOOL, T_BYTE, T_I16, T_I32, T_I64, T_DOUBLE
<1>3. PICK u \in Seq(Byte) : u = <<11, 1, 11, 1, 11, 1, 11, 1>> /\ Len(u) = 8
  <2>1. ASSUME NEW a \in Byte, NEW b \in Byte
        PROVE  <<a, b, a, b, a, b, a, b>> \in Seq(Byte) /\ Len(<<a, b, a, b, a, b, a, b>>) = 8
      OBVIOUS
  <2>2. 11 \in Byte /\ 1 \in Byte
      BY DEF Byte
  <2>3. QED
      BY <2>1, <2>2
<1>4. ExtraValue = SubSeq(u, 1, n)
    BY <1>1, <1>2, <1>3 DEF ExtraValue
<1>5. SubSeq(u, 1, n) \in Seq(Byte) /\ Len(SubSeq(u, 1, n)) = n
  <2>1. \A i \in 1..n : u[i] \in Byte
    <3>1. \A i \in 1..n : i \in 1..8
        BY <1>2
    <3>2. QED
        BY <1>3, <3>1
  <2>2. n \in Nat /\ n \in 0..Len(u)
      BY <1>2, <1>3
  <2>3. QED
      BY <2>1, <2>2
<1>6. ASSUME NEW s \in Seq(Byte), NEW p \in Nat
      PROVE  SkipType(s, link.extra, p) = p + n
  <2>1. link.extra \in Byte
      BY DEF Width, Byte, T_BOOL, T_BYTE, T_I16, T_I32, T_I64, T_DOUBLE
  <2>2. QED
      BY <1>2, <2>1, SkipTypeSteps
<1>7. QED
    BY <1>4, <1>5, <1>6 DEF IsValue

\* What a later version adds is a field, or nothing.
LEMMA ExtraIsAField ==
    ASSUME link \in Links
    PROVE  \E t \in Byte, vs \in Fields :
              t # T_STOP /\ Extra = OptField(3, t, vs) /\ (vs # <<>> => IsValue(t, vs[1]))
<1>1. link.extra \in {T_STOP, T_LIST, T_MAP} \cup DOMAIN Width
    BY LinksAssumption DEF Link
<1>2. <<>> \in Fields /\ \A x \in Seq(Byte) : <<x>> \in Fields /\ <<x>> # <<>> /\ <<x>>[1] = x
    BY DEF Fields
<1>3. CASE link.extra = T_STOP
  <2>1. Extra = OptField(3, T_LIST, <<>>) /\ T_LIST # T_STOP
      BY <1>3 DEF Extra, OptField, T_LIST, T_STOP
  <2>2. QED
      BY <1>2, <2>1, TypesAreBytes
<1>4. CASE link.extra # T_STOP
  <2>1. PICK x \in Seq(Byte) : x = ExtraValue /\ IsValue(link.extra, x)
      BY <1>1, <1>4, ExtraList, ExtraMap, ExtraNumber
  <2>2. Extra = OptField(3, link.extra, <<x>>)
      BY <1>2, <1>4, <2>1 DEF Extra, OptField
  <2>3. link.extra \in Byte
    <3>1. \A t \in DOMAIN Width : t \in Byte
        BY DEF Width, Byte, T_BOOL, T_BYTE, T_I16, T_I32, T_I64, T_DOUBLE
    <3>2. QED
        BY <1>1, <3>1, TypesAreBytes
  <2>4. QED
      BY <1>2, <1>4, <2>1, <2>2, <2>3
<1>5. QED
    BY <1>3, <1>4

\* A structure of two fields that may be unset, behind a field of another
\* number that may be there.
Struct(t, x, t1, a, t2, b) ==
    OptField(3, t, x) \o ((OptField(1, t1, a) \o OptField(2, t2, b)) \o WriteFieldStop)

\* A field's bytes, when it is set, are a value of its type.
IsOptValue(t, vs) == t \in Byte /\ t # T_STOP /\ vs \in Fields /\ (vs # <<>> => IsValue(t, vs[1]))

\* The read of a field finds its bytes, when it is set.
Found(s, p, id, t, vs) ==
    \E q \in Nat : /\ FieldsOf(s, p, id, t) = IF vs # <<>> THEN <<q>> ELSE <<>>
                   /\ vs # <<>> => Holds(s, q, vs[1])

\* What is read of the bytes w of a structure of two fields, or of one.
IsStruct(w, t1, a, t2, b) ==
    /\ w \in Seq(Byte)
    /\ \A s \in Seq(Byte), p \in Nat : Holds(s, p, w) =>
          /\ SkipType(s, T_STRUCT, p) = p + Len(w)
          /\ Found(s, p, 1, t1, a) /\ Found(s, p, 2, t2, b)
          /\ FieldsOf(s, p, 0, T_LIST) = <<>>
IsOneField(w, id, t, a) ==
    /\ w \in Seq(Byte)
    /\ \A s \in Seq(Byte), p \in Nat : Holds(s, p, w) =>
          /\ SkipType(s, T_STRUCT, p) = p + Len(w)
          /\ Found(s, p, id, t, a)

\* The stop is a byte.
LEMMA StopType == WriteFieldStop \in Seq(Byte) /\ Len(WriteFieldStop) = 1
BY TypesAreBytes, TwoBytes DEF WriteFieldStop

\* What is read of such a structure.
LEMMA StructWritten ==
    ASSUME NEW t, NEW x, IsOptValue(t, x), NEW t1, NEW a, IsOptValue(t1, a),
           NEW t2, NEW b, IsOptValue(t2, b)
    PROVE  IsStruct(Struct(t, x, t1, a, t2, b), t1, a, t2, b)
<1>1. PICK u \in Seq(Byte) : u = OptField(3, t, x)
    BY OptFieldType DEF IsOptValue
<1>2. PICK v \in Seq(Byte) : v = OptField(1, t1, a)
    BY OptFieldType DEF IsOptValue
<1>3. PICK w \in Seq(Byte) : w = OptField(2, t2, b)
    BY OptFieldType DEF IsOptValue
<1>4. PICK z \in Seq(Byte) : z = WriteFieldStop /\ Len(z) = 1
    BY StopType
<1>5. PICK i \in Nat, j \in Nat, k \in Nat : i = Len(u) /\ j = Len(v) /\ k = Len(w)
    OBVIOUS
<1>6. PICK vw \in Seq(Byte) : vw = v \o w /\ Len(vw) = j + k
  <2>1. v \o w \in Seq(Byte) /\ Len(v \o w) = Len(v) + Len(w)
      OBVIOUS
  <2>2. QED
      BY <1>5, <2>1
<1>7. PICK r \in Seq(Byte) : r = vw \o z /\ Len(r) = j + k + 1
  <2>1. vw \o z \in Seq(Byte) /\ Len(vw \o z) = Len(vw) + Len(z)
      OBVIOUS
  <2>2. QED
      BY <1>4, <1>6, <2>1
<1>8. Struct(t, x, t1, a, t2, b) = u \o r
    BY <1>1, <1>2, <1>3, <1>4, <1>6, <1>7 DEF Struct
<1>9. u \o r \in Seq(Byte) /\ Len(u \o r) = i + j + k + 1
  <2>1. u \o r \in Seq(Byte) /\ Len(u \o r) = Len(u) + Len(r)
      OBVIOUS
  <2>2. QED
      BY <1>5, <1>7, <2>1
<1>10. ASSUME NEW s \in Seq(Byte), NEW p \in Nat, Holds(s, p, u \o r)
       PROVE  /\ SkipType(s, T_STRUCT, p) = p + Len(u \o r)
              /\ Found(s, p, 1, t1, a) /\ Found(s, p, 2, t2, b)
              /\ FieldsOf(s, p, 0, T_LIST) = <<>>
  <2>1. PICK q \in Nat, q1 \in Nat, q2 \in Nat :
            /\ q = p + i /\ q1 = q + j /\ q2 = q1 + k /\ q2 + 1 = p + (i + j + k + 1)
    <3>1. PICK q \in Nat : q = p + i
        OBVIOUS
    <3>2. PICK q1 \in Nat : q1 = q + j
        OBVIOUS
    <3>3. PICK q2 \in Nat : q2 = q1 + k
        OBVIOUS
    <3>4. q2 + 1 = p + (i + j + k + 1)
        BY <3>1, <3>2, <3>3
    <3>5. QED
        BY <3>1, <3>2, <3>3, <3>4
  <2>2. Holds(s, p, u) /\ Holds(s, q, r)
      BY <1>5, <1>10, <2>1, HoldsBoth
  <2>3. Holds(s, q, vw) /\ Holds(s, q2, z)
    <3>1. Holds(s, q, vw) /\ Holds(s, q + Len(vw), z)
        BY <1>7, <2>2, HoldsBoth
    <3>2. q + (j + k) = q2
        BY <2>1
    <3>3. QED
        BY <1>6, <3>1, <3>2
  <2>4. Holds(s, q, v) /\ Holds(s, q1, w)
      BY <1>5, <1>6, <2>1, <2>3, HoldsBoth
  <2>5. Passes(s, p, q, 3, t, IF x # <<>> THEN <<p + 3>> ELSE <<>>)
    <3>1. 3 \in 0..3
        OBVIOUS
    <3>2. Passes(s, p, p + Len(OptField(3, t, x)), 3, t, IF x # <<>> THEN <<p + 3>> ELSE <<>>)
        BY <1>1, <2>2, <3>1, OptFieldWritten DEF IsOptValue
    <3>3. QED
        BY <1>1, <1>5, <2>1, <3>2
  <2>6. /\ a # <<>> => Holds(s, q + 3, a[1])
        /\ Passes(s, q, q1, 1, t1, IF a # <<>> THEN <<q + 3>> ELSE <<>>)
    <3>1. 1 \in 0..3
        OBVIOUS
    <3>2. /\ a # <<>> => Holds(s, q + 3, a[1])
          /\ Passes(s, q, q + Len(OptField(1, t1, a)), 1, t1, IF a # <<>> THEN <<q + 3>> ELSE <<>>)
        BY <1>2, <2>4, <3>1, OptFieldWritten DEF IsOptValue
    <3>3. QED
        BY <1>2, <1>5, <2>1, <3>2
  <2>7. /\ b # <<>> => Holds(s, q1 + 3, b[1])
        /\ Passes(s, q1, q2, 2, t2, IF b # <<>> THEN <<q1 + 3>> ELSE <<>>)
    <3>1. 2 \in 0..3
        OBVIOUS
    <3>2. /\ b # <<>> => Holds(s, q1 + 3, b[1])
          /\ Passes(s, q1, q1 + Len(OptField(2, t2, b)), 2, t2,
                    IF b # <<>> THEN <<q1 + 3>> ELSE <<>>)
        BY <1>3, <2>4, <3>1, OptFieldWritten DEF IsOptValue
    <3>3. QED
        BY <1>3, <1>5, <2>1, <3>2
  <2>8. SkipType(s, T_STRUCT, q2) = q2 + 1 /\ \A n, tt : FieldsOf(s, q2, n, tt) = <<>>
      BY <1>4, <2>3, StopWritten
  <2>9. SkipType(s, T_STRUCT, p) = q2 + 1
      BY <2>5, <2>6, <2>7, <2>8 DEF Passes
  <2>10. ASSUME NEW n, NEW tt
         PROVE  /\ n # 3 => FieldsOf(s, p, n, tt) = FieldsOf(s, q, n, tt)
                /\ n # 1 => FieldsOf(s, q, n, tt) = FieldsOf(s, q1, n, tt)
                /\ n # 2 => FieldsOf(s, q1, n, tt) = <<>>
    <3>1. \A y \in Nat : <<>> \o FieldsOf(s, y, n, tt) = FieldsOf(s, y, n, tt)
      <4>1. \A y \in Nat : FieldsOf(s, y, n, tt) \in Seq(Nat)
          BY FieldsOfSteps
      <4>2. QED
          BY <4>1, ConcatEmptySeq
    <3>2. n # 3 => FieldsOf(s, p, n, tt) = <<>> \o FieldsOf(s, q, n, tt)
        BY <2>5 DEF Passes
    <3>3. n # 1 => FieldsOf(s, q, n, tt) = <<>> \o FieldsOf(s, q1, n, tt)
        BY <2>6 DEF Passes
    <3>4. n # 2 => FieldsOf(s, q1, n, tt) = <<>> \o FieldsOf(s, q2, n, tt)
        BY <2>7 DEF Passes
    <3>5. QED
        BY <2>8, <3>1, <3>2, <3>3, <3>4
  <2>11. <<>> \o <<>> = <<>> /\ \A y \in Nat : <<y>> \o <<>> = <<y>>
    <3>1. <<>> \in Seq(Nat) /\ \A y \in Nat : <<y>> \in Seq(Nat)
        OBVIOUS
    <3>2. QED
        BY <3>1, ConcatEmptySeq
  <2>12. FieldsOf(s, p, 1, t1) = IF a # <<>> THEN <<q + 3>> ELSE <<>>
    <3>1. FieldsOf(s, q, 1, t1) = (IF a # <<>> THEN <<q + 3>> ELSE <<>>) \o FieldsOf(s, q1, 1, t1)
        BY <2>6 DEF Passes
    <3>2. FieldsOf(s, p, 1, t1) = FieldsOf(s, q, 1, t1) /\ FieldsOf(s, q1, 1, t1) = <<>>
      <4>1. 1 # 3 /\ 1 # 2
          OBVIOUS
      <4>2. QED
          BY <2>10, <4>1
    <3>3. q + 3 \in Nat
        OBVIOUS
    <3>4. QED
        BY <2>11, <3>1, <3>2, <3>3
  <2>13. FieldsOf(s, p, 2, t2) = IF b # <<>> THEN <<q1 + 3>> ELSE <<>>
    <3>1. FieldsOf(s, q1, 2, t2) = (IF b # <<>> THEN <<q1 + 3>> ELSE <<>>) \o FieldsOf(s, q2, 2, t2)
        BY <2>7 DEF Passes
    <3>2. FieldsOf(s, p, 2, t2) = FieldsOf(s, q1, 2, t2) /\ FieldsOf(s, q2, 2, t2) = <<>>
      <4>1. 2 # 3 /\ 2 # 1
          OBVIOUS
      <4>2. QED
          BY <2>8, <2>10, <4>1
    <3>3. q1 + 3 \in Nat
        OBVIOUS
    <3>4. QED
        BY <2>11, <3>1, <3>2, <3>3
  <2>14. FieldsOf(s, p, 0, T_LIST) = <<>>
    <3>1. 0 # 3 /\ 0 # 1 /\ 0 # 2
        OBVIOUS
    <3>2. QED
        BY <2>10, <3>1
  <2>15. Found(s, p, 1, t1, a)
    <3>1. q + 3 \in Nat
        OBVIOUS
    <3>2. QED
        BY <2>6, <2>12, <3>1 DEF Found
  <2>16. Found(s, p, 2, t2, b)
    <3>1. q1 + 3 \in Nat
        OBVIOUS
    <3>2. QED
        BY <2>7, <2>13, <3>1 DEF Found
  <2>17. QED
      BY <1>9, <2>1, <2>9, <2>14, <2>15, <2>16
<1>11. IsStruct(u \o r, t1, a, t2, b)
    BY <1>9, <1>10 DEF IsStruct
<1>12. QED
    BY <1>8, <1>11

\* A structure of one field that may be unset, of number 0 or 1.
LEMMA OneFieldWritten ==
    ASSUME NEW id \in {0, 1}, NEW t, NEW a, IsOptValue(t, a)
    PROVE  IsOneField(OptField(id, t, a) \o WriteFieldStop, id, t, a)
<1>1. id \in 0..3
    OBVIOUS
<1>2. PICK v \in Seq(Byte) : v = OptField(id, t, a)
    BY <1>1, OptFieldType DEF IsOptValue
<1>3. PICK z \in Seq(Byte) : z = WriteFieldStop /\ Len(z) = 1
    BY StopType
<1>4. PICK j \in Nat : j = Len(v)
    OBVIOUS
<1>5. v \o z \in Seq(Byte) /\ Len(v \o z) = j + 1
  <2>1. v \o z \in Seq(Byte) /\ Len(v \o z) = Len(v) + Len(z)
      OBVIOUS
  <2>2. QED
      BY <1>3, <1>4, <2>1
<1>6. ASSUME NEW s \in Seq(Byte), NEW p \in Nat, Holds(s, p, v \o z)
      PROVE  SkipType(s, T_STRUCT, p) = p + (j + 1) /\ Found(s, p, id, t, a)
  <2>1. PICK q \in Nat : q = p + j /\ q + 1 = p + (j + 1)
    <3>1. p + j \in Nat /\ (p + j) + 1 = p + (j + 1)
        OBVIOUS
    <3>2. QED
        BY <3>1
  <2>2. Holds(s, p, v) /\ Holds(s, q, z)
      BY <1>4, <1>6, <2>1, HoldsBoth
  <2>3. /\ a # <<>> => Holds(s, p + 3, a[1])
        /\ Passes(s, p, q, id, t, IF a # <<>> THEN <<p + 3>> ELSE <<>>)
    <3>1. /\ a # <<>> => Holds(s, p + 3, a[1])
          /\ Passes(s, p, p + Len(OptField(id, t, a)), id, t, IF a # <<>> THEN <<p + 3>> ELSE <<>>)
        BY <1>1, <1>2, <2>2, OptFieldWritten DEF IsOptValue
    <3>2. QED
        BY <1>2, <1>4, <2>1, <3>1
  <2>4. SkipType(s, T_STRUCT, q) = q + 1 /\ \A n, tt : FieldsOf(s, q, n, tt) = <<>>
      BY <1>3, <2>2, StopWritten
  <2>5. SkipType(s, T_STRUCT, p) = q + 1
      BY <2>3, <2>4 DEF Passes
  <2>6. FieldsOf(s, p, id, t) = (IF a # <<>> THEN <<p + 3>> ELSE <<>>) \o <<>>
      BY <2>3, <2>4 DEF Passes
  <2>7. FieldsOf(s, p, id, t) = IF a # <<>> THEN <<p + 3>> ELSE <<>>
    <3>1. <<p + 3>> \in Seq(Nat) /\ <<>> \in Seq(Nat)
        OBVIOUS
    <3>2. QED
        BY <2>6, <3>1, ConcatEmptySeq
  <2>8. Found(s, p, id, t, a)
    <3>1. p + 3 \in Nat
        OBVIOUS
    <3>2. QED
        BY <2>3, <2>7, <3>1 DEF Found
  <2>9. QED
      BY <2>1, <2>5, <2>8
<1>7. IsOneField(v \o z, id, t, a)
    BY <1>5, <1>6 DEF IsOneField
<1>8. QED
    BY <1>2, <1>3, <1>7

\* Messages whose lengths are numbers of four bytes; text as far as its first
\* zero byte; texts as they are written.
ShortMessage == {m \in Message : Short(m.text) /\ Short(m.date)}
CField(f) == IF f = <<>> THEN <<>> ELSE <<CString(f[1])>>
CMessage(m) == [text |-> CField(m.text), date |-> CField(m.date)]
Texts(f) == IF f = <<>> THEN <<>> ELSE <<LibWriteString(f[1])>>

\* The bytes w are the message m, to every reader.
IsWritten(w, m) ==
    /\ w \in Seq(Byte) /\ IsValue(T_STRUCT, w)
    /\ \A s \in Seq(Byte), p \in Nat : Holds(s, p, w) =>
          /\ JavaMessageAt(s, p) = m
          /\ CocoaMessageAt(s, p) = CMessage(m) /\ GlibMessageAt(s, p) = CMessage(m)

\* A field that is set is one text.
LEMMA FieldCases ==
    ASSUME NEW f \in Fields
    PROVE  f = <<>> \/ (f # <<>> /\ \E t \in Seq(Byte) : f = <<t>> /\ f[1] = t)
BY FieldForms DEF Fields

\* A text that is set is a field.
LEMMA SetField ==
    ASSUME NEW t \in Seq(Byte)
    PROVE  <<t>> \in Fields /\ <<t>> # <<>> /\ <<t>>[1] = t
BY DEF Fields

\* None is a field.
LEMMA UnsetField == <<>> \in Fields
BY DEF Fields

\* The field that is sent, and how it is read.
LEMMA TextsWritten ==
    ASSUME NEW f \in Fields, Short(f)
    PROVE  /\ IsOptValue(T_STRING, Texts(f))
           /\ Texts(f) = <<>> <=> f = <<>>
           /\ f # <<>> => IsString(f[1], Texts(f)[1])
<1>1. T_STRING \in Byte /\ T_STRING # T_STOP
    BY TypesAreBytes DEF T_STRING, T_STOP
<1>2. CASE f = <<>>
  <2>1. Texts(f) = <<>>
      BY <1>2 DEF Texts
  <2>2. QED
      BY <1>1, <1>2, <2>1, UnsetField DEF IsOptValue
<1>3. CASE f # <<>>
  <2>1. PICK t \in Seq(Byte) : f = <<t>> /\ f[1] = t /\ Len(t) <= MaxI32
      BY <1>3, FieldCases DEF Short
  <2>2. PICK w \in Seq(Byte) : w = LibWriteString(t) /\ IsString(t, w) /\ IsValue(T_STRING, w)
      BY <2>1, TextWritten
  <2>3. Texts(f) = <<w>>
      BY <1>3, <2>1, <2>2 DEF Texts
  <2>4. <<w>> \in Fields /\ <<w>> # <<>> /\ <<w>>[1] = w
      BY SetField
  <2>5. IsOptValue(T_STRING, <<w>>)
      BY <1>1, <2>2, <2>4 DEF IsOptValue
  <2>6. QED
      BY <1>3, <2>1, <2>2, <2>3, <2>4, <2>5
<1>4. QED
    BY <1>2, <1>3

\* What is read of a field: the text, or as far as its first zero byte.
ReadsText(s, p, id, f) ==
    /\ FieldAt(s, p, id, T_STRING, LAMBDA at : LibStringAt(s, at)) = f
    /\ FieldAt(s, p, id, T_STRING, LAMBDA at : StringAt(s, at)) = CField(f)
    /\ FieldAt(s, p, id, T_STRING, LAMBDA at : CString(LibStringAt(s, at))) = CField(f)

\* It is what was written.
LEMMA TextRead ==
    ASSUME NEW f \in Fields, Short(f), NEW s \in Seq(Byte), NEW p \in Nat, NEW id,
           Found(s, p, id, T_STRING, Texts(f))
    PROVE  ReadsText(s, p, id, f)
<1>1. PICK q \in Nat : /\ FieldsOf(s, p, id, T_STRING) = IF Texts(f) # <<>> THEN <<q>> ELSE <<>>
                       /\ Texts(f) # <<>> => Holds(s, q, Texts(f)[1])
    BY DEF Found
<1>2. CASE f = <<>>
  <2>1. FieldsOf(s, p, id, T_STRING) = <<>>
      BY <1>1, <1>2, TextsWritten
  <2>2. QED
      BY <1>2, <2>1 DEF ReadsText, FieldAt, Latest, CField
<1>3. CASE f # <<>>
  <2>1. PICK t \in Seq(Byte) : f = <<t>> /\ f[1] = t
      BY <1>3, FieldCases
  <2>2. FieldsOf(s, p, id, T_STRING) = <<q>> /\ Holds(s, q, Texts(f)[1])
      BY <1>1, <1>3, TextsWritten
  <2>3. LibStringAt(s, q) = t /\ StringAt(s, q) = CString(t)
    <3>1. IsString(f[1], Texts(f)[1])
        BY <1>3, TextsWritten
    <3>2. QED
        BY <2>1, <2>2, <3>1 DEF IsString
  <2>4. <<q>> # <<>> /\ Last(<<q>>) = q
      BY DEF Last
  <2>5. CField(f) = <<CString(t)>>
      BY <1>3, <2>1 DEF CField
  <2>6. QED
      BY <2>1, <2>2, <2>3, <2>4, <2>5 DEF ReadsText, FieldAt, Latest
<1>4. QED
    BY <1>2, <1>3

\* A message is what Java writes, whatever a later version puts before it.
LEMMA MessageWritten ==
    ASSUME NEW m \in ShortMessage, NEW t, NEW x, IsOptValue(t, x)
    PROVE  IsWritten(OptField(3, t, x) \o JavaMessageWrite(m), m)
<1>1. m.text \in Fields /\ m.date \in Fields /\ Short(m.text) /\ Short(m.date)
      /\ m = [text |-> m.text, date |-> m.date]
    BY DEF ShortMessage, Message
<1>2. PICK w : w = Struct(t, x, T_STRING, Texts(m.text), T_STRING, Texts(m.date))
    OBVIOUS
<1>3. OptField(3, t, x) \o JavaMessageWrite(m) = w
  <2>1. ASSUME NEW f, NEW id
        PROVE  Field(id, T_STRING, LibWriteString, f) = OptField(id, T_STRING, Texts(f))
    <3>1. CASE f = <<>>
        BY <3>1 DEF Field, OptField, Texts
    <3>2. CASE f # <<>>
      <4>1. Texts(f) = <<LibWriteString(f[1])>> /\ Texts(f) # <<>>
            /\ Texts(f)[1] = LibWriteString(f[1])
          BY <3>2 DEF Texts
      <4>2. OptField(id, T_STRING, Texts(f)) = WriteFieldBegin(T_STRING, id) \o Texts(f)[1]
          BY <4>1 DEF OptField
      <4>3. Field(id, T_STRING, LibWriteString, f) =
                WriteFieldBegin(T_STRING, id) \o LibWriteString(f[1])
          BY <3>2 DEF Field
      <4>4. QED
          BY <4>1, <4>2, <4>3
    <3>3. QED
        BY <3>1, <3>2
  <2>2. JavaMessageWrite(m) =
            (OptField(1, T_STRING, Texts(m.text)) \o OptField(2, T_STRING, Texts(m.date)))
            \o WriteFieldStop
      BY <2>1 DEF JavaMessageWrite
  <2>3. QED
      BY <1>2, <2>2 DEF Struct
<1>4. /\ w \in Seq(Byte)
      /\ \A s \in Seq(Byte), p \in Nat : Holds(s, p, w) =>
            /\ SkipType(s, T_STRUCT, p) = p + Len(w)
            /\ Found(s, p, 1, T_STRING, Texts(m.text)) /\ Found(s, p, 2, T_STRING, Texts(m.date))
  <2>1. IsOptValue(T_STRING, Texts(m.text)) /\ IsOptValue(T_STRING, Texts(m.date))
      BY <1>1, TextsWritten
  <2>2. IsStruct(w, T_STRING, Texts(m.text), T_STRING, Texts(m.date))
      BY <1>2, <2>1, StructWritten
  <2>3. QED
      BY <2>2 DEF IsStruct
<1>5. IsValue(T_STRUCT, w)
    BY <1>4 DEF IsValue
<1>6. ASSUME NEW s \in Seq(Byte), NEW p \in Nat, Holds(s, p, w)
      PROVE  /\ JavaMessageAt(s, p) = m
             /\ CocoaMessageAt(s, p) = CMessage(m) /\ GlibMessageAt(s, p) = CMessage(m)
  <2>1. Found(s, p, 1, T_STRING, Texts(m.text)) /\ Found(s, p, 2, T_STRING, Texts(m.date))
      BY <1>4, <1>6
  <2>2. ReadsText(s, p, 1, m.text) /\ ReadsText(s, p, 2, m.date)
      BY <1>1, <2>1, TextRead
  <2>3. JavaMessageAt(s, p) = [text |-> m.text, date |-> m.date]
      BY <2>2 DEF JavaMessageAt, ReadsText
  <2>4. CocoaMessageAt(s, p) = CMessage(m)
      BY <2>2 DEF CocoaMessageAt, CMessage, ReadsText
  <2>5. GlibMessageAt(s, p) = CMessage(m)
      BY <2>2 DEF GlibMessageAt, CMessage, ReadsText
  <2>6. QED
      BY <1>1, <2>3, <2>4, <2>5
<1>7. QED
    BY <1>3, <1>4, <1>5, <1>6 DEF IsWritten

\* The same without a later version.
LEMMA PlainMessageWritten ==
    ASSUME NEW m \in ShortMessage
    PROVE  IsWritten(JavaMessageWrite(m), m)
<1>1. IsOptValue(T_STRING, <<>>)
    BY TypesAreBytes, UnsetField DEF IsOptValue, T_STRING, T_STOP
<1>2. IsWritten(OptField(3, T_STRING, <<>>) \o JavaMessageWrite(m), m)
    BY <1>1, MessageWritten
<1>3. OptField(3, T_STRING, <<>>) = <<>>
    BY DEF OptField
<1>4. <<>> \o JavaMessageWrite(m) = JavaMessageWrite(m)
  <2>1. PICK a \in Seq(Byte), b \in Seq(Byte) :
            JavaMessageWrite(m) = (a \o b) \o WriteFieldStop
    <3>1. m.text \in Fields /\ m.date \in Fields /\ Short(m.text) /\ Short(m.date)
        BY DEF ShortMessage, Message
    <3>2. ASSUME NEW f \in Fields, Short(f), NEW id \in 0..3
          PROVE  Field(id, T_STRING, LibWriteString, f) \in Seq(Byte)
      <4>1. CASE f = <<>>
          BY <4>1 DEF Field
      <4>2. CASE f # <<>>
        <5>1. PICK x \in Seq(Byte) : f[1] = x /\ Len(x) <= MaxI32
            BY <3>2, <4>2, FieldCases DEF Short
        <5>2. PICK y \in Seq(Byte) : y = LibWriteString(x)
            BY <5>1, TextWritten
        <5>3. PICK z \in Seq(Byte) : z = WriteFieldBegin(T_STRING, id)
            BY FieldBeginWritten, TypesAreBytes
        <5>4. Field(id, T_STRING, LibWriteString, f) = z \o y
            BY <4>2, <5>1, <5>2, <5>3 DEF Field
        <5>5. QED
            BY <5>4
      <4>3. QED
          BY <4>1, <4>2
    <3>3. 1 \in 0..3 /\ 2 \in 0..3
        OBVIOUS
    <3>4. Field(1, T_STRING, LibWriteString, m.text) \in Seq(Byte)
          /\ Field(2, T_STRING, LibWriteString, m.date) \in Seq(Byte)
        BY <3>1, <3>2, <3>3
    <3>5. QED
        BY <3>4 DEF JavaMessageWrite
  <2>2. PICK z \in Seq(Byte) : z = WriteFieldStop
      BY StopType
  <2>3. (a \o b) \o z \in Seq(Byte)
      OBVIOUS
  <2>4. JavaMessageWrite(m) \in Seq(Byte)
      BY <2>1, <2>2, <2>3
  <2>5. QED
      BY <2>4, ConcatEmptySeq
<1>5. QED
    BY <1>2, <1>3, <1>4

\* What Cocoa writes is what Java writes of the text as far as its first zero.
LEMMA CMessageWritten ==
    ASSUME NEW m \in ShortMessage
    PROVE  /\ CMessage(m) \in ShortMessage /\ CMessage(CMessage(m)) = CMessage(m)
           /\ CocoaMessageWrite(m) = JavaMessageWrite(CMessage(m))
<1>1. m.text \in Fields /\ m.date \in Fields /\ Short(m.text) /\ Short(m.date)
    BY DEF ShortMessage, Message
<1>2. ASSUME NEW f \in Fields, Short(f)
      PROVE  /\ CField(f) \in Fields /\ Short(CField(f)) /\ CField(CField(f)) = CField(f)
             /\ \A id : Field(id, T_STRING, WriteString, f) =
                           Field(id, T_STRING, LibWriteString, CField(f))
  <2>1. CASE f = <<>>
    <3>1. CField(f) = <<>>
        BY <2>1 DEF CField
    <3>2. QED
        BY <2>1, <3>1, UnsetField DEF Short, Field
  <2>2. CASE f # <<>>
    <3>1. PICK t \in Seq(Byte) : f = <<t>> /\ f[1] = t /\ Len(t) <= MaxI32
        BY <1>2, <2>2, FieldCases DEF Short
    <3>2. PICK c \in Seq(Byte) : c = CString(t) /\ Len(c) <= Len(t) /\ CString(c) = c
        BY CStringType
    <3>3. CField(f) = <<c>>
        BY <2>2, <3>1, <3>2 DEF CField
    <3>4. <<c>> \in Fields /\ <<c>> # <<>> /\ <<c>>[1] = c
        BY SetField
    <3>5. CField(<<c>>) = <<c>>
        BY <3>2, <3>4 DEF CField
    <3>6. Len(c) <= MaxI32
      <4>1. PICK i \in Nat, j \in Nat, k \in Nat : i = Len(c) /\ j = Len(t) /\ k = MaxI32
          BY MaxI32Type
      <4>2. i <= j /\ j <= k => i <= k
          OBVIOUS
      <4>3. QED
          BY <3>1, <3>2, <4>1, <4>2
    <3>7. ASSUME NEW id
          PROVE  Field(id, T_STRING, WriteString, f) = Field(id, T_STRING, LibWriteString, <<c>>)
      <4>1. Field(id, T_STRING, WriteString, f) = WriteFieldBegin(T_STRING, id) \o WriteString(t)
          BY <2>2, <3>1 DEF Field
      <4>2. Field(id, T_STRING, LibWriteString, <<c>>) =
                WriteFieldBegin(T_STRING, id) \o LibWriteString(c)
          BY <3>4 DEF Field
      <4>3. WriteString(t) = LibWriteString(c)
          BY <3>2 DEF WriteString, LibWriteString
      <4>4. QED
          BY <4>1, <4>2, <4>3
    <3>8. Short(<<c>>)
        BY <3>4, <3>6 DEF Short
    <3>9. QED
        BY <3>3, <3>4, <3>5, <3>7, <3>8
  <2>3. QED
      BY <2>1, <2>2
<1>3. PICK a \in Fields, b \in Fields :
          /\ a = CField(m.text) /\ b = CField(m.date) /\ Short(a) /\ Short(b)
          /\ CField(a) = a /\ CField(b) = b
    BY <1>1, <1>2
<1>4. CMessage(m) = [text |-> a, date |-> b]
    BY <1>3 DEF CMessage
<1>5. [text |-> a, date |-> b] \in ShortMessage
    BY <1>3 DEF ShortMessage, Message
<1>6. CMessage([text |-> a, date |-> b]) = [text |-> a, date |-> b]
    BY <1>3 DEF CMessage
<1>7. CocoaMessageWrite(m) = JavaMessageWrite([text |-> a, date |-> b])
  <2>1. Field(1, T_STRING, WriteString, m.text) = Field(1, T_STRING, LibWriteString, a)
        /\ Field(2, T_STRING, WriteString, m.date) = Field(2, T_STRING, LibWriteString, b)
      BY <1>1, <1>2, <1>3
  <2>2. QED
      BY <2>1 DEF CocoaMessageWrite, JavaMessageWrite
<1>8. QED
    BY <1>4, <1>5, <1>6, <1>7

\* What c_glib's client sends of a message is what Cocoa's does of one whose
\* fields are set.
GlibMessage(m) == [text |-> GlibSent(m.text), date |-> GlibSent(m.date)]

\* It is short.
LEMMA GlibMessageWritten ==
    ASSUME NEW m \in ShortMessage
    PROVE  GlibMessage(m) \in ShortMessage /\ GlibMessageWrite(m) = CocoaMessageWrite(GlibMessage(m))
<1>1. m.text \in Fields /\ m.date \in Fields /\ Short(m.text) /\ Short(m.date)
    BY DEF ShortMessage, Message
<1>2. ASSUME NEW f \in Fields, Short(f)
      PROVE  GlibSent(f) \in Fields /\ Short(GlibSent(f))
  <2>1. CASE f = <<>>
    <3>1. PICK e \in Seq(Byte) : e = <<>> /\ Len(e) = 0
      <4>1. <<>> \in Seq(Byte) /\ Len(<<>>) = 0
          OBVIOUS
      <4>2. QED
          BY <4>1
    <3>2. GlibSent(f) = <<e>> /\ <<e>> \in Fields /\ <<e>>[1] = e
        BY <2>1, <3>1, SetField DEF GlibSent
    <3>3. Len(e) <= MaxI32
        BY <3>1, MaxI32Type
    <3>4. QED
        BY <3>2, <3>3 DEF Short
  <2>2. CASE f # <<>>
      BY <1>2, <2>2 DEF GlibSent
  <2>3. QED
      BY <2>1, <2>2
<1>3. GlibMessage(m) \in ShortMessage
    BY <1>1, <1>2 DEF GlibMessage, ShortMessage, Message
<1>4. GlibMessageWrite(m) = CocoaMessageWrite(GlibMessage(m))
    BY DEF GlibMessageWrite, CocoaMessageWrite, GlibMessage
<1>5. QED
    BY <1>3, <1>4

\* The bytes w are the arguments of an add of m.
IsAddArgs(w, m) ==
    /\ w \in Seq(Byte) /\ IsValue(T_STRUCT, w)
    /\ \A s \in Seq(Byte), p \in Nat : Holds(s, p, w) =>
          JavaAddArgsAt(s, p) = <<m>> /\ CocoaAddArgsAt(s, p) = <<CMessage(m)>>

\* They are read as they were written.
LEMMA AddArgsWritten ==
    ASSUME NEW m, NEW v, IsWritten(v, m)
    PROVE  IsAddArgs(OptField(1, T_STRUCT, <<v>>) \o WriteFieldStop, m)
<1>1. v \in Seq(Byte) /\ IsValue(T_STRUCT, v)
    BY DEF IsWritten
<1>2. <<v>> \in Fields /\ <<v>> # <<>> /\ <<v>>[1] = v
    BY <1>1, SetField
<1>3. IsOptValue(T_STRUCT, <<v>>)
    BY <1>1, <1>2, TypesAreBytes DEF IsOptValue, T_STRUCT, T_STOP
<1>4. PICK w : w = OptField(1, T_STRUCT, <<v>>) \o WriteFieldStop
    OBVIOUS
<1>5. IsOneField(w, 1, T_STRUCT, <<v>>)
  <2>1. 1 \in {0, 1}
      OBVIOUS
  <2>2. QED
      BY <1>3, <1>4, <2>1, OneFieldWritten
<1>6. w \in Seq(Byte) /\ IsValue(T_STRUCT, w)
    BY <1>5 DEF IsOneField, IsValue
<1>7. ASSUME NEW s \in Seq(Byte), NEW p \in Nat, Holds(s, p, w)
      PROVE  JavaAddArgsAt(s, p) = <<m>> /\ CocoaAddArgsAt(s, p) = <<CMessage(m)>>
  <2>1. Found(s, p, 1, T_STRUCT, <<v>>)
      BY <1>5, <1>7 DEF IsOneField
  <2>2. PICK q \in Nat : FieldsOf(s, p, 1, T_STRUCT) = <<q>> /\ Holds(s, q, v)
      BY <1>2, <2>1 DEF Found
  <2>3. JavaMessageAt(s, q) = m /\ CocoaMessageAt(s, q) = CMessage(m)
      BY <2>2 DEF IsWritten
  <2>4. <<q>> # <<>> /\ Last(<<q>>) = q
      BY DEF Last
  <2>5. JavaAddArgsAt(s, p) = <<JavaMessageAt(s, q)>>
      BY <2>2, <2>4 DEF JavaAddArgsAt, FieldAt, Latest
  <2>6. CocoaAddArgsAt(s, p) = <<CocoaMessageAt(s, q)>>
      BY <2>2, <2>4 DEF CocoaAddArgsAt, FieldAt, Latest
  <2>7. QED
      BY <2>3, <2>5, <2>6
<1>8. IsAddArgs(w, m)
    BY <1>6, <1>7 DEF IsAddArgs
<1>9. QED
    BY <1>4, <1>8

\* A lone stop is a structure.
LEMMA StopIsAValue == WriteFieldStop \in Seq(Byte) /\ IsValue(T_STRUCT, WriteFieldStop)
<1>1. ASSUME NEW s \in Seq(Byte), NEW p \in Nat, Holds(s, p, WriteFieldStop)
      PROVE  SkipType(s, T_STRUCT, p) = p + Len(WriteFieldStop)
    BY <1>1, StopWritten, StopType
<1>2. QED
    BY <1>1, StopType DEF IsValue

\* The arguments of every client that does not use the tuple protocol.
LEMMA PlainArgs ==
    ASSUME NEW m \in ShortMessage
    PROVE  /\ IsAddArgs(JavaAddArgsWrite(<<m>>), m)
           /\ IsAddArgs(CocoaAddArgsWrite(<<m>>), CMessage(m))
           /\ IsAddArgs(GlibAddArgsWrite(m), CMessage(GlibMessage(m)))
<1>1. ASSUME NEW k \in ShortMessage, NEW v, v = JavaMessageWrite(k)
      PROVE  IsAddArgs((WriteFieldBegin(T_STRUCT, 1) \o v) \o WriteFieldStop, k)
  <2>1. IsWritten(v, k)
      BY <1>1, PlainMessageWritten
  <2>2. IsAddArgs(OptField(1, T_STRUCT, <<v>>) \o WriteFieldStop, k)
      BY <2>1, AddArgsWritten
  <2>3. OptField(1, T_STRUCT, <<v>>) = WriteFieldBegin(T_STRUCT, 1) \o v
      BY DEF OptField
  <2>4. QED
      BY <2>2, <2>3
<1>2. <<m>> # <<>> /\ <<m>>[1] = m
    OBVIOUS
<1>3. IsAddArgs(JavaAddArgsWrite(<<m>>), m)
  <2>1. JavaAddArgsWrite(<<m>>) =
            (WriteFieldBegin(T_STRUCT, 1) \o JavaMessageWrite(m)) \o WriteFieldStop
      BY <1>2 DEF JavaAddArgsWrite, Field
  <2>2. QED
      BY <1>1, <2>1
<1>4. IsAddArgs(CocoaAddArgsWrite(<<m>>), CMessage(m))
  <2>1. CocoaAddArgsWrite(<<m>>) =
            (WriteFieldBegin(T_STRUCT, 1) \o CocoaMessageWrite(m)) \o WriteFieldStop
      BY <1>2 DEF CocoaAddArgsWrite, Field
  <2>2. PICK k \in ShortMessage : k = CMessage(m) /\ CocoaMessageWrite(m) = JavaMessageWrite(k)
      BY CMessageWritten
  <2>3. QED
      BY <1>1, <2>1, <2>2
<1>5. IsAddArgs(GlibAddArgsWrite(m), CMessage(GlibMessage(m)))
  <2>1. GlibAddArgsWrite(m) =
            (WriteFieldBegin(T_STRUCT, 1) \o GlibMessageWrite(m)) \o WriteFieldStop
      BY <1>2 DEF GlibAddArgsWrite, Field
  <2>2. PICK g \in ShortMessage : g = GlibMessage(m) /\ GlibMessageWrite(m) = CocoaMessageWrite(g)
      BY GlibMessageWritten
  <2>3. PICK k \in ShortMessage : k = CMessage(g) /\ CocoaMessageWrite(g) = JavaMessageWrite(k)
      BY CMessageWritten
  <2>4. QED
      BY <1>1, <2>1, <2>2, <2>3
<1>6. QED
    BY <1>3, <1>4, <1>5

-----------------------------------------------------------------------------
(* The tuple scheme.                                                        *)

\* The bytes w are the message m in the tuple scheme.
IsTuple(w, m) ==
    /\ w \in Seq(Byte)
    /\ \A s \in Seq(Byte), p \in Nat : Holds(s, p, w) =>
          JavaMessageTupleAt(s, p) = m /\ AfterMessageTuple(s, p) = p + Len(w)

\* Of the bits of two fields each is that of one.
LEMMA Bits ==
    ASSUME NEW f, NEW g, NEW s \in Seq(Byte), NEW p \in Nat,
           ByteAt(s, p) = Bit(1, f) + Bit(2, g)
    PROVE  /\ (BitAt(s, p, 1) <=> f # <<>>) /\ (BitAt(s, p, 2) <=> g # <<>>)
<1>1. (0 \div 1) % 2 = 0 /\ (1 \div 1) % 2 = 1 /\ (2 \div 1) % 2 = 0 /\ (3 \div 1) % 2 = 1
    BY SMT
<1>2. (0 \div 2) % 2 = 0 /\ (1 \div 2) % 2 = 0 /\ (2 \div 2) % 2 = 1 /\ (3 \div 2) % 2 = 1
    BY SMT
<1>3. CASE f = <<>> /\ g = <<>>
  <2>1. ByteAt(s, p) = 0
      BY <1>3 DEF Bit
  <2>2. QED
      BY <1>1, <1>2, <1>3, <2>1 DEF BitAt
<1>4. CASE f # <<>> /\ g = <<>>
  <2>1. ByteAt(s, p) = 1
      BY <1>4 DEF Bit
  <2>2. QED
      BY <1>1, <1>2, <1>4, <2>1 DEF BitAt
<1>5. CASE f = <<>> /\ g # <<>>
  <2>1. ByteAt(s, p) = 2
      BY <1>5 DEF Bit
  <2>2. QED
      BY <1>1, <1>2, <1>5, <2>1 DEF BitAt
<1>6. CASE f # <<>> /\ g # <<>>
  <2>1. ByteAt(s, p) = 3
      BY <1>6 DEF Bit
  <2>2. QED
      BY <1>1, <1>2, <1>6, <2>1 DEF BitAt
<1>7. QED
    BY <1>3, <1>4, <1>5, <1>6

\* The text behind the bits, when it is set.
LEMMA TupleText ==
    ASSUME NEW f \in Fields, Short(f)
    PROVE  /\ Tuple(LibWriteString, f) \in Seq(Byte)
           /\ f = <<>> => Len(Tuple(LibWriteString, f)) = 0
           /\ f # <<>> => \A s \in Seq(Byte), p \in Nat : Holds(s, p, Tuple(LibWriteString, f)) =>
                 /\ <<LibStringAt(s, p)>> = f
                 /\ AfterString(s, p) = p + Len(Tuple(LibWriteString, f))
<1>1. CASE f = <<>>
  <2>1. Tuple(LibWriteString, f) = <<>> /\ <<>> \in Seq(Byte) /\ Len(<<>>) = 0
      BY <1>1 DEF Tuple
  <2>2. QED
      BY <1>1, <2>1
<1>2. CASE f # <<>>
  <2>1. PICK t \in Seq(Byte) : f = <<t>> /\ f[1] = t /\ Len(t) <= MaxI32
      BY <1>2, FieldCases DEF Short
  <2>2. PICK w \in Seq(Byte) : w = LibWriteString(t) /\ IsString(t, w)
      BY <2>1, TextWritten
  <2>3. Tuple(LibWriteString, f) = w
      BY <1>2, <2>1, <2>2 DEF Tuple
  <2>4. QED
      BY <1>2, <2>1, <2>2, <2>3 DEF IsString
<1>3. QED
    BY <1>1, <1>2

\* A message in the tuple scheme.
LEMMA TupleWritten ==
    ASSUME NEW m \in ShortMessage
    PROVE  IsTuple(JavaMessageTuple(m), m)
<1>1. PICK f \in Fields, g \in Fields :
          /\ f = m.text /\ g = m.date /\ Short(f) /\ Short(g) /\ m = [text |-> f, date |-> g]
    BY DEF ShortMessage, Message
<1>2. PICK c \in Byte : c = Bit(1, f) + Bit(2, g)
  <2>1. Bit(1, f) \in {0, 1} /\ Bit(2, g) \in {0, 2}
      BY DEF Bit
  <2>2. Bit(1, f) + Bit(2, g) \in {0, 1, 2, 3}
      BY <2>1
  <2>3. {0, 1, 2, 3} \subseteq Byte
      BY DEF Byte
  <2>4. QED
      BY <2>2, <2>3
<1>3. PICK h \in Seq(Byte) : h = <<c>> /\ Len(h) = 1
    BY TwoBytes
<1>4. PICK u \in Seq(Byte) :
          /\ u = Tuple(LibWriteString, f) /\ (f = <<>> => Len(u) = 0)
          /\ f # <<>> => \A s \in Seq(Byte), p \in Nat : Holds(s, p, u) =>
                <<LibStringAt(s, p)>> = f /\ AfterString(s, p) = p + Len(u)
    BY <1>1, TupleText
<1>5. PICK v \in Seq(Byte) :
          /\ v = Tuple(LibWriteString, g) /\ (g = <<>> => Len(v) = 0)
          /\ g # <<>> => \A s \in Seq(Byte), p \in Nat : Holds(s, p, v) =>
                <<LibStringAt(s, p)>> = g /\ AfterString(s, p) = p + Len(v)
    BY <1>1, TupleText
<1>6. JavaMessageTuple(m) = (h \o u) \o v
    BY <1>1, <1>2, <1>3, <1>4, <1>5 DEF JavaMessageTuple
<1>7. PICK i \in Nat, j \in Nat : i = Len(u) /\ j = Len(v)
    OBVIOUS
<1>8. PICK hu \in Seq(Byte) : hu = h \o u /\ Len(hu) = 1 + i
  <2>1. h \o u \in Seq(Byte) /\ Len(h \o u) = Len(h) + Len(u)
      OBVIOUS
  <2>2. QED
      BY <1>3, <1>7, <2>1
<1>9. hu \o v \in Seq(Byte) /\ Len(hu \o v) = 1 + i + j
  <2>1. hu \o v \in Seq(Byte) /\ Len(hu \o v) = Len(hu) + Len(v)
      OBVIOUS
  <2>2. QED
      BY <1>7, <1>8, <2>1
<1>10. ASSUME NEW s \in Seq(Byte), NEW p \in Nat, Holds(s, p, hu \o v)
       PROVE  JavaMessageTupleAt(s, p) = m /\ AfterMessageTuple(s, p) = p + (1 + i + j)
  <2>1. PICK q \in Nat, r \in Nat : q = p + 1 /\ r = q + i /\ r = p + (1 + i)
    <3>1. p + 1 \in Nat /\ (p + 1) + i \in Nat /\ (p + 1) + i = p + (1 + i)
        OBVIOUS
    <3>2. QED
        BY <3>1
  <2>2. Holds(s, p, hu) /\ Holds(s, r, v)
    <3>1. Holds(s, p, hu) /\ Holds(s, p + Len(hu), v)
        BY <1>10, HoldsBoth
    <3>2. QED
        BY <1>8, <2>1, <3>1
  <2>3. Holds(s, p, h) /\ Holds(s, q, u)
      BY <1>3, <1>8, <2>1, <2>2, HoldsBoth
  <2>4. ByteAt(s, p) = c
      BY <1>3, <2>3, ByteWritten
  <2>5. (BitAt(s, p, 1) <=> f # <<>>) /\ (BitAt(s, p, 2) <=> g # <<>>)
      BY <1>2, <2>4, Bits
  <2>6. AfterText(s, p) = r
    <3>1. CASE f = <<>>
      <4>1. i = 0 /\ r = q
          BY <1>4, <1>7, <2>1, <3>1
      <4>2. QED
          BY <2>1, <2>5, <3>1, <4>1 DEF AfterText
    <3>2. CASE f # <<>>
      <4>1. AfterString(s, q) = r
          BY <1>4, <1>7, <2>1, <2>3, <3>2
      <4>2. QED
          BY <2>1, <2>5, <3>2, <4>1 DEF AfterText
    <3>3. QED
        BY <3>1, <3>2
  <2>7. AfterMessageTuple(s, p) = p + (1 + i + j)
    <3>1. CASE g = <<>>
      <4>1. j = 0 /\ p + (1 + i + 0) = r
          BY <1>5, <1>7, <2>1, <3>1
      <4>2. QED
          BY <2>5, <2>6, <3>1, <4>1 DEF AfterMessageTuple
    <3>2. CASE g # <<>>
      <4>1. AfterString(s, r) = r + j /\ r + j = p + (1 + i + j)
          BY <1>5, <1>7, <2>1, <2>2, <3>2
      <4>2. QED
          BY <2>5, <2>6, <3>2, <4>1 DEF AfterMessageTuple
    <3>3. QED
        BY <3>1, <3>2
  <2>8. (IF BitAt(s, p, 1) THEN <<LibStringAt(s, p + 1)>> ELSE <<>>) = f
      BY <1>4, <2>1, <2>3, <2>5
  <2>9. (IF BitAt(s, p, 2) THEN <<LibStringAt(s, AfterText(s, p))>> ELSE <<>>) = g
      BY <1>5, <2>2, <2>5, <2>6
  <2>10. QED
      BY <1>1, <2>7, <2>8, <2>9 DEF JavaMessageTupleAt
<1>11. IsTuple(hu \o v, m)
    BY <1>9, <1>10 DEF IsTuple
<1>12. QED
    BY <1>6, <1>8, <1>11

\* The arguments of an add in the tuple scheme.
LEMMA TupleArgs ==
    ASSUME NEW m \in ShortMessage
    PROVE  /\ JavaAddArgsTuple(<<m>>) \in Seq(Byte)
           /\ \A s \in Seq(Byte), p \in Nat : Holds(s, p, JavaAddArgsTuple(<<m>>)) =>
                 /\ JavaAddArgsTupleAt(s, p) = <<m>> /\ BitAt(s, p, 1)
                 /\ AfterMessageTuple(s, p + 1) = p + Len(JavaAddArgsTuple(<<m>>))
<1>1. PICK w \in Seq(Byte) : w = JavaMessageTuple(m) /\ IsTuple(w, m)
    BY TupleWritten DEF IsTuple
<1>2. PICK h \in Seq(Byte) : h = <<1>> /\ Len(h) = 1
  <2>1. 1 \in Byte
      BY DEF Byte
  <2>2. QED
      BY <2>1, TwoBytes
<1>3. <<m>> # <<>> /\ <<m>>[1] = m
    OBVIOUS
<1>4. JavaAddArgsTuple(<<m>>) = h \o w
    BY <1>1, <1>2, <1>3 DEF JavaAddArgsTuple, Bit, Tuple
<1>5. PICK n \in Nat : n = Len(w)
    OBVIOUS
<1>6. h \o w \in Seq(Byte) /\ Len(h \o w) = 1 + n
  <2>1. h \o w \in Seq(Byte) /\ Len(h \o w) = Len(h) + Len(w)
      OBVIOUS
  <2>2. QED
      BY <1>2, <1>5, <2>1
<1>7. ASSUME NEW s \in Seq(Byte), NEW p \in Nat, Holds(s, p, h \o w)
      PROVE  /\ JavaAddArgsTupleAt(s, p) = <<m>> /\ BitAt(s, p, 1)
             /\ AfterMessageTuple(s, p + 1) = p + (1 + n)
  <2>1. PICK q \in Nat : q = p + 1 /\ q + n = p + (1 + n)
    <3>1. p + 1 \in Nat /\ (p + 1) + n = p + (1 + n)
        OBVIOUS
    <3>2. QED
        BY <3>1
  <2>2. Holds(s, p, h) /\ Holds(s, q, w)
      BY <1>2, <1>7, <2>1, HoldsBoth
  <2>3. ByteAt(s, p) = 1
    <3>1. 1 \in Byte
        BY DEF Byte
    <3>2. QED
        BY <1>2, <2>2, <3>1, ByteWritten
  <2>4. BitAt(s, p, 1)
    <3>1. (1 \div 1) % 2 = 1
        BY SMT
    <3>2. QED
        BY <2>3, <3>1 DEF BitAt
  <2>5. JavaMessageTupleAt(s, q) = m /\ AfterMessageTuple(s, q) = q + n
      BY <1>1, <1>5, <2>2 DEF IsTuple
  <2>6. QED
      BY <2>1, <2>4, <2>5 DEF JavaAddArgsTupleAt
<1>8. QED
    BY <1>4, <1>6, <1>7

-----------------------------------------------------------------------------
(* Lists.                                                                   *)

\* A step f goes from the beginning of each of the ws to its end.
Steps(f, n, ws) ==
    /\ \A s \in Seq(Byte) : f[s] \in [Nat -> Nat]
    /\ \A i \in 1..n : \A s \in Seq(Byte), q \in Nat :
          Holds(s, q, ws[i]) => f[s][q] = q + Len(ws[i])

\* The loop over them.
Loop(f, s, p, i) == Repeat(f[s], p, i)

\* Each of them lies where the loop comes to, which ends behind the last.
LoopRuns(f, s, p, n, ws) ==
    /\ \A i \in 1..n : Loop(f, s, p, i - 1) \in Nat /\ Holds(s, Loop(f, s, p, i - 1), ws[i])
    /\ Loop(f, s, p, n) = p + Len(FlattenSeq(ws))

\* So it is wherever they lie one behind the other.
LEMMA LoopReads ==
    ASSUME NEW n \in Nat, NEW ws \in [1..n -> Seq(Byte)],
           NEW f, Steps(f, n, ws),
           NEW s \in Seq(Byte), NEW p \in Nat, Holds(s, p, FlattenSeq(ws))
    PROVE  LoopRuns(f, s, p, n, ws)
<1>1. PICK F \in [0..n -> Seq(Byte)] : Flattened(F, n, ws)
    BY FlattenSteps
<1>2. /\ F[0] = <<>> /\ FlattenSeq(ws) = F[n]
      /\ \A k \in 1..n : F[k] = F[k - 1] \o ws[k] /\ F[k] \in Seq(Byte) /\ F[k - 1] \in Seq(Byte)
                         /\ ws[k] \in Seq(Byte)
  <2>1. \A k \in 1..n : k \in 0..n /\ k - 1 \in 0..n
      OBVIOUS
  <2>2. QED
      BY <1>1, <2>1 DEF Flattened
<1> DEFINE at(k) == Loop(f, s, p, k)
           T == {k \in 0..n : Holds(s, p, F[n - k])}
           U == {k \in 0..n : at(k) = p + Len(F[k])}
<1>3. T = 0..n
  <2>1. 0 \in T
    <3>1. n - 0 = n
        OBVIOUS
    <3>2. QED
        BY <1>2, <3>1
  <2>2. ASSUME NEW k \in 0..(n - 1), k \in T
        PROVE  k + 1 \in T
    <3>1. PICK m \in 1..n : m = n - k /\ m - 1 = n - (k + 1)
        OBVIOUS
    <3>2. Holds(s, p, F[m - 1] \o ws[m])
        BY <1>2, <2>2, <3>1
    <3>3. Holds(s, p, F[m - 1])
        BY <1>2, <3>2, HoldsBoth
    <3>4. k + 1 \in 0..n
        OBVIOUS
    <3>5. QED
        BY <3>1, <3>3, <3>4
  <2>3. T \in SUBSET (0..n)
      OBVIOUS
  <2> HIDE DEF T
  <2>4. QED
      BY <2>1, <2>2, <2>3, OneByte, G!InductionUpTo
<1>4. ASSUME NEW i \in 1..n
      PROVE  Holds(s, p + Len(F[i - 1]), ws[i])
  <2>1. n - i \in 0..n /\ n - (n - i) = i
      OBVIOUS
  <2>2. Holds(s, p, F[i])
      BY <1>3, <2>1
  <2>3. Holds(s, p, F[i - 1] \o ws[i])
      BY <1>2, <2>2
  <2>4. QED
      BY <1>2, <2>3, HoldsBoth
<1>5. /\ at(0) = p
      /\ \A k \in 1..n : at(k) = f[s][at(k - 1)]
  <2>1. f[s] \in [Nat -> Nat]
      BY DEF Steps
  <2>2. PICK g \in [Nat -> Nat] : g = f[s]
      BY <2>1
  <2>3. \A k \in Int : /\ k <= 0 => Repeat(g, p, k) = p
                       /\ k > 0 => Repeat(g, p, k) = g[Repeat(g, p, k - 1)]
      BY RepeatOnNat
  <2>4. \A k \in 1..n : k \in Int /\ k > 0
      OBVIOUS
  <2>5. 0 \in Int /\ 0 <= 0
      OBVIOUS
  <2>6. QED
      BY <2>2, <2>3, <2>4, <2>5 DEF Loop
<1> HIDE DEF at
<1>6. U = 0..n
  <2>1. 0 \in U
    <3>1. Len(<<>>) = 0 /\ p + 0 = p /\ 0 \in 0..n
        OBVIOUS
    <3>2. QED
        BY <1>2, <1>5, <3>1
  <2>2. ASSUME NEW k \in 0..(n - 1), k \in U
        PROVE  k + 1 \in U
    <3>1. PICK i \in 1..n : i = k + 1 /\ i - 1 = k /\ i \in 0..n
        OBVIOUS
    <3>2. PICK q \in Nat : q = p + Len(F[k]) /\ at(k) = q
      <4>1. k \in 0..n
          OBVIOUS
      <4>2. Len(F[k]) \in Nat
          BY <4>1
      <4>3. PICK a \in Nat : a = Len(F[k])
          BY <4>2
      <4>4. p + a \in Nat
          OBVIOUS
      <4>5. at(k) = p + Len(F[k])
          BY <2>2
      <4>6. QED
          BY <4>3, <4>4, <4>5
    <3>3. Holds(s, q, ws[i])
        BY <1>4, <3>1, <3>2
    <3>4. at(i) = q + Len(ws[i])
      <4>1. f[s][q] = q + Len(ws[i])
          BY <3>3 DEF Steps
      <4>2. at(i) = f[s][at(i - 1)]
          BY <1>5
      <4>3. QED
          BY <3>1, <3>2, <4>1, <4>2
    <3>5. Len(F[i]) = Len(F[k]) + Len(ws[i])
      <4>1. F[i] = F[k] \o ws[i] /\ F[k] \in Seq(Byte) /\ ws[i] \in Seq(Byte)
          BY <1>2, <3>1
      <4>2. PICK u \in Seq(Byte), v \in Seq(Byte) : u = F[k] /\ v = ws[i]
          BY <4>1
      <4>3. Len(u \o v) = Len(u) + Len(v)
          OBVIOUS
      <4>4. QED
          BY <4>1, <4>2, <4>3
    <3>6. q + Len(ws[i]) = p + Len(F[i])
      <4>1. PICK a \in Nat, b \in Nat : a = Len(F[k]) /\ b = Len(ws[i])
        <5>1. k \in 0..n /\ ws[i] \in Seq(Byte)
            OBVIOUS
        <5>2. Len(F[k]) \in Nat /\ Len(ws[i]) \in Nat
            BY <5>1
        <5>3. QED
            BY <5>2
      <4>2. (p + a) + b = p + (a + b)
          OBVIOUS
      <4>3. QED
          BY <3>2, <3>5, <4>1, <4>2
    <3>7. QED
        BY <3>1, <3>4, <3>6
  <2>3. U \in SUBSET (0..n)
      OBVIOUS
  <2> HIDE DEF U
  <2>4. QED
      BY <2>1, <2>2, <2>3, OneByte, G!InductionUpTo
<1>7. ASSUME NEW i \in 1..n
      PROVE  at(i - 1) \in Nat /\ Holds(s, at(i - 1), ws[i])
  <2>1. i - 1 \in 0..n
      OBVIOUS
  <2>2. at(i - 1) = p + Len(F[i - 1])
      BY <1>6, <2>1
  <2>3. PICK a \in Nat : a = Len(F[i - 1])
    <3>1. Len(F[i - 1]) \in Nat
        BY <2>1
    <3>2. QED
        BY <3>1
  <2>4. p + a \in Nat
      OBVIOUS
  <2>5. QED
      BY <1>4, <2>2, <2>3, <2>4
<1>8. at(n) = p + Len(FlattenSeq(ws))
  <2>1. n \in 0..n
      OBVIOUS
  <2>2. QED
      BY <1>2, <1>6, <2>1
<1>9. QED
    BY <1>7, <1>8 DEF at, LoopRuns

\* skipType of a list.
LEMMA SkipList ==
    ASSUME NEW s \in Seq(Byte), NEW p \in Nat
    PROVE  SkipType(s, T_LIST, p) =
               Repeat([q \in Nat |-> SkipType(s, ByteAt(s, p), q)], p + 5, I32At(s, p + 1))
BY SkipTypeSteps, TypesAreBytes

\* The bytes w are the list of the messages ms.
IsList(w, ms) ==
    /\ w \in Seq(Byte) /\ IsValue(T_LIST, w)
    /\ \A s \in Seq(Byte), p \in Nat : Holds(s, p, w) =>
          /\ I32At(s, p + 1) = Len(ms)
          /\ \A i \in 1..Len(ms) :
                /\ JavaMessageAt(s, ElementPlace(s, p, i)) = ms[i]
                /\ CocoaMessageAt(s, ElementPlace(s, p, i)) = CMessage(ms[i])
                /\ GlibMessageAt(s, ElementPlace(s, p, i)) = CMessage(ms[i])

\* The bytes ws are those of the messages ms, one by one.
AreWritten(ws, ms) == \A i \in 1..Len(ms) : IsWritten(ws[i], ms[i])

\* A list is its length and its elements.
LEMMA ListWritten ==
    ASSUME NEW ms \in Seq(Message), Len(ms) <= MaxI32,
           NEW ws \in [1..Len(ms) -> Seq(Byte)], AreWritten(ws, ms)
    PROVE  IsList(WriteListBegin(T_STRUCT, Len(ms)) \o FlattenSeq(ws), ms)
<1>1. PICK n \in Nat : n = Len(ms) /\ n <= MaxI32
    OBVIOUS
<1>2. PICK w \in Seq(Byte) : w = WriteI32(n) /\ Len(w) = 4
                             /\ \A s \in Seq(Byte), p \in Nat : Holds(s, p, w) => I32At(s, p) = n
    BY <1>1, NumberWritten
<1>3. PICK h \in Seq(Byte) : h = <<T_STRUCT>> /\ Len(h) = 1
  <2>1. <<T_STRUCT>> \in Seq(Byte) /\ Len(<<T_STRUCT>>) = 1
      BY TypesAreBytes, TwoBytes
  <2>2. QED
      BY <2>1
<1>4. PICK b \in Seq(Byte) : b = h \o w /\ Len(b) = 5
  <2>1. h \o w \in Seq(Byte) /\ Len(h \o w) = Len(h) + Len(w)
      OBVIOUS
  <2>2. 1 + 4 = 5
      OBVIOUS
  <2>3. QED
      BY <1>2, <1>3, <2>1, <2>2
<1>5. ws \in [1..n -> Seq(Byte)] /\ \A i \in 1..n : IsWritten(ws[i], ms[i])
    BY <1>1 DEF AreWritten
<1>6. PICK z \in Seq(Byte) : z = FlattenSeq(ws)
  <2>1. PICK F \in [0..n -> Seq(Byte)] : Flattened(F, n, ws)
      BY <1>5, FlattenSteps
  <2>2. n \in 0..n /\ FlattenSeq(ws) = F[n]
      BY <2>1 DEF Flattened
  <2>3. QED
      BY <2>2
<1>7. WriteListBegin(T_STRUCT, Len(ms)) \o FlattenSeq(ws) = b \o z
    BY <1>1, <1>2, <1>3, <1>4, <1>6 DEF WriteListBegin
<1>8. PICK k \in Nat : k = Len(z)
    OBVIOUS
<1>9. b \o z \in Seq(Byte) /\ Len(b \o z) = 5 + k
  <2>1. b \o z \in Seq(Byte) /\ Len(b \o z) = Len(b) + Len(z)
      OBVIOUS
  <2>2. QED
      BY <1>4, <1>8, <2>1
<1>10. PICK f : f = [s \in Seq(Byte) |-> [q \in Nat |-> SkipType(s, T_STRUCT, q)]]
    OBVIOUS
<1>11. \A s \in Seq(Byte) : f[s] \in [Nat -> Nat]
  <2>1. ASSUME NEW s \in Seq(Byte)
        PROVE  [q \in Nat |-> SkipType(s, T_STRUCT, q)] \in [Nat -> Nat]
      BY SkipIsAStep, TypesAreBytes
  <2>2. QED
      BY <1>10, <2>1
<1>12. Steps(f, n, ws)
  <2>1. ASSUME NEW i \in 1..n, NEW s \in Seq(Byte), NEW q \in Nat, Holds(s, q, ws[i])
        PROVE  f[s][q] = q + Len(ws[i])
    <3>1. IsValue(T_STRUCT, ws[i])
        BY <1>5 DEF IsWritten
    <3>2. SkipType(s, T_STRUCT, q) = q + Len(ws[i])
        BY <2>1, <3>1 DEF IsValue
    <3>3. QED
        BY <1>10, <3>2
  <2>2. QED
      BY <1>11, <2>1 DEF Steps
<1>13. ASSUME NEW s \in Seq(Byte), NEW p \in Nat, Holds(s, p, b \o z)
       PROVE  /\ I32At(s, p + 1) = n
              /\ SkipType(s, T_LIST, p) = p + (5 + k)
              /\ \A i \in 1..n : /\ ElementPlace(s, p, i) \in Nat
                                 /\ Holds(s, ElementPlace(s, p, i), ws[i])
  <2>1. PICK c \in Nat, r \in Nat : c = p + 5 /\ c + k = p + (5 + k) /\ r = p + 1
    <3>1. p + 5 \in Nat /\ (p + 5) + k = p + (5 + k) /\ p + 1 \in Nat
        OBVIOUS
    <3>2. QED
        BY <3>1
  <2>2. Holds(s, p, b) /\ Holds(s, c, z)
      BY <1>4, <1>13, <2>1, HoldsBoth
  <2>3. Holds(s, p, h) /\ Holds(s, r, w)
      BY <1>3, <1>4, <2>1, <2>2, HoldsBoth
  <2>4. ByteAt(s, p) = T_STRUCT
      BY <1>3, <2>3, ByteWritten, TypesAreBytes
  <2>5. I32At(s, r) = n
      BY <1>2, <2>3
  <2>6. Holds(s, c, FlattenSeq(ws))
      BY <1>6, <2>2
  <2>7. LoopRuns(f, s, c, n, ws)
      BY <1>5, <1>12, <2>6, LoopReads
  <2>8. /\ \A i \in 1..n : Loop(f, s, c, i - 1) \in Nat /\ Holds(s, Loop(f, s, c, i - 1), ws[i])
        /\ Loop(f, s, c, n) = c + Len(FlattenSeq(ws))
      BY <2>7 DEF LoopRuns
  <2>9. f[s] = [q \in Nat |-> SkipType(s, T_STRUCT, q)]
      BY <1>10
  <2>10. \A i \in 1..n : ElementPlace(s, p, i) = Loop(f, s, c, i - 1)
      BY <2>1, <2>9 DEF ElementPlace, Loop
  <2>11. SkipType(s, T_LIST, p) = Loop(f, s, c, n)
    <3>1. SkipType(s, T_LIST, p) =
              Repeat([q \in Nat |-> SkipType(s, ByteAt(s, p), q)], p + 5, I32At(s, p + 1))
        BY SkipList
    <3>2. QED
        BY <2>1, <2>4, <2>5, <2>9, <3>1 DEF Loop
  <2>12. QED
      BY <1>6, <1>8, <2>1, <2>5, <2>10, <2>11, <2>8
<1>14. IsValue(T_LIST, b \o z)
    BY <1>9, <1>13 DEF IsValue
<1>15. ASSUME NEW s \in Seq(Byte), NEW p \in Nat, Holds(s, p, b \o z), NEW i \in 1..n
       PROVE  /\ JavaMessageAt(s, ElementPlace(s, p, i)) = ms[i]
              /\ CocoaMessageAt(s, ElementPlace(s, p, i)) = CMessage(ms[i])
              /\ GlibMessageAt(s, ElementPlace(s, p, i)) = CMessage(ms[i])
    BY <1>5, <1>13, <1>15 DEF IsWritten
<1>16. IsList(b \o z, ms)
    BY <1>1, <1>9, <1>13, <1>14, <1>15 DEF IsList
<1>17. QED
    BY <1>7, <1>16

\* The bytes w are the result of a get of ms.
CMessages(ms) == [i \in 1..Len(ms) |-> CMessage(ms[i])]
IsResult(w, ms) ==
    /\ w \in Seq(Byte) /\ IsValue(T_STRUCT, w)
    /\ \A s \in Seq(Byte), p \in Nat : Holds(s, p, w) =>
          /\ JavaGetResultAt(s, p) = <<ms>>
          /\ CocoaGetResultAt(s, p) = <<CMessages(ms)>>
          /\ GlibGetResultAt(s, p) = CMessages(ms)

\* One list alone is the list.
LEMMA FlattenOne ==
    ASSUME NEW S, NEW u \in Seq(S)
    PROVE  FlattenSeq(<<u>>) = u
<1>1. <<u>> \in [1..1 -> Seq(S)] /\ <<u>>[1] = u
    OBVIOUS
<1>2. PICK F \in [0..1 -> Seq(S)] : Flattened(F, 1, <<u>>)
    BY <1>1, FlattenSteps
<1>3. F[0] = <<>> /\ F[1] = F[1 - 1] \o u /\ FlattenSeq(<<u>>) = F[1]
  <2>1. 1 \in 1..1
      OBVIOUS
  <2>2. QED
      BY <1>1, <1>2, <2>1 DEF Flattened
<1>4. 1 - 1 = 0 /\ <<>> \o u = u
    BY ConcatEmptySeq
<1>5. QED
    BY <1>3, <1>4

\* It is read as it was written.
LEMMA ResultWritten ==
    ASSUME NEW ms \in Seq(Message), NEW v, IsList(v, ms)
    PROVE  IsResult(OptField(0, T_LIST, <<v>>) \o WriteFieldStop, ms)
<1>1. v \in Seq(Byte) /\ IsValue(T_LIST, v)
    BY DEF IsList
<1>2. <<v>> \in Fields /\ <<v>> # <<>> /\ <<v>>[1] = v
    BY <1>1, SetField
<1>3. IsOptValue(T_LIST, <<v>>)
    BY <1>1, <1>2, TypesAreBytes DEF IsOptValue, T_LIST, T_STOP
<1>4. PICK w : w = OptField(0, T_LIST, <<v>>) \o WriteFieldStop
    OBVIOUS
<1>5. IsOneField(w, 0, T_LIST, <<v>>)
  <2>1. 0 \in {0, 1}
      OBVIOUS
  <2>2. QED
      BY <1>3, <1>4, <2>1, OneFieldWritten
<1>6. w \in Seq(Byte) /\ IsValue(T_STRUCT, w)
    BY <1>5 DEF IsOneField, IsValue
<1>7. PICK n \in Nat : n = Len(ms)
    OBVIOUS
<1>8. ASSUME NEW s \in Seq(Byte), NEW p \in Nat, Holds(s, p, w)
      PROVE  /\ JavaGetResultAt(s, p) = <<ms>>
             /\ CocoaGetResultAt(s, p) = <<CMessages(ms)>>
             /\ GlibGetResultAt(s, p) = CMessages(ms)
  <2>1. Found(s, p, 0, T_LIST, <<v>>)
      BY <1>5, <1>8 DEF IsOneField
  <2>2. PICK q \in Nat : FieldsOf(s, p, 0, T_LIST) = <<q>> /\ Holds(s, q, v)
      BY <1>2, <2>1 DEF Found
  <2>3. /\ I32At(s, q + 1) = n
        /\ \A i \in 1..n :
              /\ JavaMessageAt(s, ElementPlace(s, q, i)) = ms[i]
              /\ CocoaMessageAt(s, ElementPlace(s, q, i)) = CMessage(ms[i])
              /\ GlibMessageAt(s, ElementPlace(s, q, i)) = CMessage(ms[i])
      BY <1>7, <2>2 DEF IsList
  <2>4. <<q>> # <<>> /\ Last(<<q>>) = q /\ DOMAIN <<q>> = {1} /\ <<q>>[1] = q
      BY DEF Last
  <2>5. [i \in 1..n |-> ms[i]] = ms
    <3>1. ms = [i \in 1..Len(ms) |-> ms[i]]
        OBVIOUS
    <3>2. QED
        BY <1>7, <3>1
  <2>6. JavaGetResultAt(s, p) = <<ms>>
    <3>1. JavaGetResultAt(s, p) = <<[i \in 1..n |-> JavaMessageAt(s, ElementPlace(s, q, i))]>>
        BY <2>2, <2>3, <2>4 DEF JavaGetResultAt, Latest, ElementsAt, ElementPlace
    <3>2. QED
        BY <2>3, <2>5, <3>1
  <2>7. CocoaGetResultAt(s, p) = <<CMessages(ms)>>
    <3>1. CocoaGetResultAt(s, p) = <<[i \in 1..n |-> CocoaMessageAt(s, ElementPlace(s, q, i))]>>
        BY <2>2, <2>3, <2>4 DEF CocoaGetResultAt, Latest, ElementsAt, ElementPlace
    <3>2. QED
        BY <1>7, <2>3, <3>1 DEF CMessages
  <2>8. GlibGetResultAt(s, p) = CMessages(ms)
    <3>1. PICK u : u = [i \in 1..n |-> GlibMessageAt(s, ElementPlace(s, q, i))]
        OBVIOUS
    <3>2. u = CMessages(ms)
        BY <1>7, <2>3, <3>1 DEF CMessages
    <3>3. [i \in {1} |-> u] = <<u>>
        OBVIOUS
    <3>4. GlibGetResultAt(s, p) = FlattenSeq([i \in {1} |-> u])
      <4>1. ElementsAt(s, q, LAMBDA at : GlibMessageAt(s, at)) = u
          BY <2>3, <3>1 DEF ElementsAt, ElementPlace
      <4>2. GlibGetResultAt(s, p) =
                FlattenSeq([i \in DOMAIN <<q>> |->
                               ElementsAt(s, <<q>>[i], LAMBDA at : GlibMessageAt(s, at))])
          BY <2>2 DEF GlibGetResultAt
      <4>3. QED
          BY <2>4, <4>1, <4>2
    <3>5. u \in Seq({u[i] : i \in 1..n})
      <4>1. PICK S : S = {u[i] : i \in 1..n}
          OBVIOUS
      <4>2. u \in [1..n -> S]
          BY <3>1, <4>1
      <4>3. u \in Seq(S)
          BY <4>2
      <4>4. QED
          BY <4>1, <4>3
    <3>6. FlattenSeq(<<u>>) = u
        BY <3>5, FlattenOne
    <3>7. QED
        BY <3>2, <3>3, <3>4, <3>6
  <2>9. QED
      BY <2>6, <2>7, <2>8
<1>9. IsResult(w, ms)
    BY <1>6, <1>8 DEF IsResult
<1>10. QED
    BY <1>4, <1>9

\* Short messages are messages.
LEMMA ShortMessages ==
    ASSUME NEW ms \in Seq(ShortMessage)
    PROVE  /\ ms \in Seq(Message) /\ DOMAIN ms = 1..Len(ms)
           /\ \A i \in 1..Len(ms) : ms[i] \in ShortMessage
           /\ CMessages(ms) \in Seq(ShortMessage) /\ Len(CMessages(ms)) = Len(ms)
           /\ \A i \in 1..Len(ms) : CMessages(ms)[i] = CMessage(ms[i])
<1>1. PICK n \in Nat : n = Len(ms)
    OBVIOUS
<1>2. \A i \in 1..n : ms[i] \in ShortMessage
    BY <1>1
<1>3. ShortMessage \subseteq Message
    BY DEF ShortMessage
<1>4. ms \in Seq(Message)
  <2>1. ms \in [1..n -> Message]
    <3>1. ms = [i \in 1..n |-> ms[i]]
        BY <1>1
    <3>2. \A i \in 1..n : ms[i] \in Message
        BY <1>2, <1>3
    <3>3. [i \in 1..n |-> ms[i]] \in [1..n -> Message]
        BY <3>2
    <3>4. QED
        BY <3>1, <3>3
  <2>2. QED
      BY <2>1
<1>5. CMessages(ms) = [i \in 1..n |-> CMessage(ms[i])]
    BY <1>1 DEF CMessages
<1>6. PICK c : c = [i \in 1..n |-> CMessage(ms[i])]
    OBVIOUS
<1>7. c \in [1..n -> ShortMessage]
  <2>1. \A i \in 1..n : CMessage(ms[i]) \in ShortMessage
      BY <1>2, CMessageWritten
  <2>2. QED
      BY <1>6, <2>1
<1>8. c \in Seq(ShortMessage) /\ Len(c) = n
    BY <1>7
<1>9. \A i \in 1..n : c[i] = CMessage(ms[i])
    BY <1>6
<1>10. DOMAIN ms = 1..n
    BY <1>1
<1>11. QED
    BY <1>1, <1>2, <1>4, <1>5, <1>6, <1>8, <1>9, <1>10

\* What the server in Java writes of a get.
LEMMA JavaServerResult ==
    ASSUME link \in Links, NEW ms \in Seq(ShortMessage), Len(ms) <= MaxI32
    PROVE  IsResult(JavaGetResultWrite(JavaServerMessage, <<ms>>), ms)
<1>1. PICK t, x : Extra = OptField(3, t, x) /\ IsOptValue(t, x)
    BY ExtraIsAField DEF IsOptValue
<1>2. PICK n \in Nat : n = Len(ms)
    OBVIOUS
<1>3. PICK ws : ws = [i \in 1..n |-> JavaServerMessage(ms[i])]
    OBVIOUS
<1>4. \A i \in 1..n : IsWritten(ws[i], ms[i])
  <2>1. ASSUME NEW i \in 1..n
        PROVE  IsWritten(JavaServerMessage(ms[i]), ms[i])
    <3>1. ms[i] \in ShortMessage
        BY <1>2
    <3>2. PICK m \in ShortMessage : m = ms[i]
        BY <3>1
    <3>3. IsWritten(OptField(3, t, x) \o JavaMessageWrite(m), m)
        BY <1>1, MessageWritten
    <3>4. JavaServerMessage(m) = OptField(3, t, x) \o JavaMessageWrite(m)
        BY <1>1 DEF JavaServerMessage, Extended
    <3>5. QED
        BY <3>2, <3>3, <3>4
  <2>2. QED
      BY <1>3, <2>1
<1>5. ws \in [1..n -> Seq(Byte)]
  <2>1. \A i \in 1..n : ws[i] \in Seq(Byte)
      BY <1>4 DEF IsWritten
  <2>2. QED
      BY <1>3, <2>1
<1>6. PICK v : v = WriteListBegin(T_STRUCT, n) \o FlattenSeq(ws)
    OBVIOUS
<1>7. IsList(v, ms)
  <2>1. AreWritten(ws, ms) /\ ws \in [1..Len(ms) -> Seq(Byte)]
      BY <1>2, <1>4, <1>5 DEF AreWritten
  <2>2. ms \in Seq(Message)
      BY ShortMessages
  <2>3. QED
      BY <1>2, <1>6, <2>1, <2>2, ListWritten
<1>8. JavaGetResultWrite(JavaServerMessage, <<ms>>) = OptField(0, T_LIST, <<v>>) \o WriteFieldStop
  <2>1. List(JavaServerMessage, ms) = v
    <3>1. DOMAIN ms = 1..n
        BY <1>2, ShortMessages
    <3>2. QED
        BY <1>2, <1>3, <1>6, <3>1 DEF List
  <2>2. <<ms>> # <<>> /\ <<ms>>[1] = ms /\ <<v>> # <<>> /\ <<v>>[1] = v
      OBVIOUS
  <2>3. JavaGetResultWrite(JavaServerMessage, <<ms>>) =
            (WriteFieldBegin(T_LIST, 0) \o v) \o WriteFieldStop
      BY <2>1, <2>2 DEF JavaGetResultWrite, Field
  <2>4. QED
      BY <2>2, <2>3 DEF OptField
<1>9. ms \in Seq(Message)
    BY ShortMessages
<1>10. QED
    BY <1>7, <1>8, <1>9, ResultWritten

\* What the server in Cocoa writes of a get.
LEMMA CocoaServerResult ==
    ASSUME link \in Links, NEW ms \in Seq(ShortMessage), Len(ms) <= MaxI32
    PROVE  IsResult(CocoaGetResultWrite(CocoaServerMessage, <<ms>>), CMessages(ms))
<1>1. PICK t, x : Extra = OptField(3, t, x) /\ IsOptValue(t, x)
    BY ExtraIsAField DEF IsOptValue
<1>2. PICK n \in Nat : n = Len(ms)
    OBVIOUS
<1>3. PICK ws : ws = [i \in 1..n |-> CocoaServerMessage(ms[i])]
    OBVIOUS
<1>4. PICK cs \in Seq(ShortMessage) :
          cs = CMessages(ms) /\ Len(cs) = n /\ \A i \in 1..n : cs[i] = CMessage(ms[i])
    BY <1>2, ShortMessages
<1>5. \A i \in 1..n : IsWritten(ws[i], cs[i])
  <2>1. ASSUME NEW i \in 1..n
        PROVE  IsWritten(CocoaServerMessage(ms[i]), cs[i])
    <3>1. ms[i] \in ShortMessage
        BY <1>2
    <3>2. PICK m \in ShortMessage : m = ms[i]
        BY <3>1
    <3>3. PICK c \in ShortMessage : c = CMessage(m) /\ CocoaMessageWrite(m) = JavaMessageWrite(c)
        BY CMessageWritten
    <3>4. IsWritten(OptField(3, t, x) \o JavaMessageWrite(c), c)
        BY <1>1, MessageWritten
    <3>5. CocoaServerMessage(m) = OptField(3, t, x) \o JavaMessageWrite(c)
        BY <1>1, <3>3 DEF CocoaServerMessage, Extended
    <3>6. cs[i] = c
        BY <1>4, <3>2, <3>3
    <3>7. QED
        BY <3>2, <3>4, <3>5, <3>6
  <2>2. QED
      BY <1>3, <2>1
<1>6. ws \in [1..n -> Seq(Byte)]
  <2>1. \A i \in 1..n : ws[i] \in Seq(Byte)
      BY <1>5 DEF IsWritten
  <2>2. QED
      BY <1>3, <2>1
<1>7. PICK v : v = WriteListBegin(T_STRUCT, n) \o FlattenSeq(ws)
    OBVIOUS
<1>8. cs \in Seq(Message)
    BY ShortMessages
<1>9. IsList(v, cs)
  <2>1. AreWritten(ws, cs) /\ ws \in [1..Len(cs) -> Seq(Byte)]
      BY <1>4, <1>5, <1>6 DEF AreWritten
  <2>2. Len(cs) <= MaxI32
      BY <1>2, <1>4
  <2>3. QED
      BY <1>4, <1>7, <1>8, <2>1, <2>2, ListWritten
<1>10. CocoaGetResultWrite(CocoaServerMessage, <<ms>>) =
           OptField(0, T_LIST, <<v>>) \o WriteFieldStop
  <2>1. List(CocoaServerMessage, ms) = v
    <3>1. DOMAIN ms = 1..n
        BY <1>2, ShortMessages
    <3>2. QED
        BY <1>2, <1>3, <1>7, <3>1 DEF List
  <2>2. <<ms>> # <<>> /\ <<ms>>[1] = ms /\ <<v>> # <<>> /\ <<v>>[1] = v
      OBVIOUS
  <2>3. CocoaGetResultWrite(CocoaServerMessage, <<ms>>) =
            (WriteFieldBegin(T_LIST, 0) \o v) \o WriteFieldStop
      BY <2>1, <2>2 DEF CocoaGetResultWrite, Field
  <2>4. QED
      BY <2>2, <2>3 DEF OptField
<1>11. IsResult(OptField(0, T_LIST, <<v>>) \o WriteFieldStop, cs)
    BY <1>8, <1>9, ResultWritten
<1>12. QED
    BY <1>4, <1>10, <1>11

\* The bytes w are the result of a get of ms in the tuple scheme.
IsTupleResult(w, ms) ==
    /\ w \in Seq(Byte)
    /\ \A s \in Seq(Byte), p \in Nat : Holds(s, p, w) =>
          JavaGetResultTupleAt(s, p) = <<ms>> /\ AfterGetResultTuple(s, p) = p + Len(w)

\* It is what is written.
LEMMA TupleResultWritten ==
    ASSUME NEW ms \in Seq(ShortMessage), Len(ms) <= MaxI32
    PROVE  IsTupleResult(JavaGetResultTuple(<<ms>>), ms)
<1>1. PICK n \in Nat : n = Len(ms) /\ n <= MaxI32
    OBVIOUS
<1>2. PICK w \in Seq(Byte) : w = WriteI32(n) /\ Len(w) = 4
                             /\ \A s \in Seq(Byte), p \in Nat : Holds(s, p, w) => I32At(s, p) = n
    BY <1>1, NumberWritten
<1>3. PICK h \in Seq(Byte) : h = <<1>> /\ Len(h) = 1
  <2>1. 1 \in Byte
      BY DEF Byte
  <2>2. <<1>> \in Seq(Byte) /\ Len(<<1>>) = 1
      BY <2>1, TwoBytes
  <2>3. QED
      BY <2>2
<1>4. PICK ws : ws = [i \in 1..n |-> JavaMessageTuple(ms[i])]
    OBVIOUS
<1>5. \A i \in 1..n : IsTuple(ws[i], ms[i])
  <2>1. \A i \in 1..n : ms[i] \in ShortMessage
      BY <1>1
  <2>2. \A i \in 1..n : IsTuple(JavaMessageTuple(ms[i]), ms[i])
      BY <2>1, TupleWritten
  <2>3. QED
      BY <1>4, <2>2
<1>6. ws \in [1..n -> Seq(Byte)]
  <2>1. \A i \in 1..n : ws[i] \in Seq(Byte)
      BY <1>5 DEF IsTuple
  <2>2. QED
      BY <1>4, <2>1
<1>7. PICK z \in Seq(Byte) : z = FlattenSeq(ws)
  <2>1. PICK F \in [0..n -> Seq(Byte)] : Flattened(F, n, ws)
      BY <1>6, FlattenSteps
  <2>2. n \in 0..n /\ FlattenSeq(ws) = F[n]
      BY <2>1 DEF Flattened
  <2>3. QED
      BY <2>2
<1>8. PICK k \in Nat : k = Len(z)
    OBVIOUS
<1>9. PICK r \in Seq(Byte) : r = w \o z /\ Len(r) = 4 + k
  <2>1. w \o z \in Seq(Byte) /\ Len(w \o z) = Len(w) + Len(z)
      OBVIOUS
  <2>2. QED
      BY <1>2, <1>8, <2>1
<1>10. h \o r \in Seq(Byte) /\ Len(h \o r) = 1 + (4 + k)
  <2>1. h \o r \in Seq(Byte) /\ Len(h \o r) = Len(h) + Len(r)
      OBVIOUS
  <2>2. QED
      BY <1>3, <1>9, <2>1
<1>11. JavaGetResultTuple(<<ms>>) = h \o r
  <2>1. DOMAIN ms = 1..n
      BY <1>1, ShortMessages
  <2>2. <<ms>> # <<>> /\ <<ms>>[1] = ms
      OBVIOUS
  <2>3. [i \in DOMAIN ms |-> JavaMessageTuple(ms[i])] = ws
      BY <1>4, <2>1
  <2>4. QED
      BY <1>1, <1>2, <1>3, <1>7, <1>9, <2>2, <2>3 DEF JavaGetResultTuple, Bit, Tuple
<1>12. PICK f : f = [s \in Seq(Byte) |-> [q \in Nat |-> AfterMessageTuple(s, q)]]
    OBVIOUS
<1>13. Steps(f, n, ws)
  <2>1. \A s \in Seq(Byte) : f[s] \in [Nat -> Nat]
    <3>1. ASSUME NEW s \in Seq(Byte)
          PROVE  [q \in Nat |-> AfterMessageTuple(s, q)] \in [Nat -> Nat]
        BY TupleType
    <3>2. QED
        BY <1>12, <3>1
  <2>2. ASSUME NEW i \in 1..n, NEW s \in Seq(Byte), NEW q \in Nat, Holds(s, q, ws[i])
        PROVE  f[s][q] = q + Len(ws[i])
    <3>1. AfterMessageTuple(s, q) = q + Len(ws[i])
        BY <1>5, <2>2 DEF IsTuple
    <3>2. QED
        BY <1>12, <3>1
  <2>3. QED
      BY <2>1, <2>2 DEF Steps
<1>14. ASSUME NEW s \in Seq(Byte), NEW p \in Nat, Holds(s, p, h \o r)
       PROVE  JavaGetResultTupleAt(s, p) = <<ms>>
              /\ AfterGetResultTuple(s, p) = p + (1 + (4 + k))
  <2>1. PICK a \in Nat, c \in Nat : a = p + 1 /\ c = p + 5 /\ c = a + 4
                                    /\ c + k = p + (1 + (4 + k))
    <3>1. p + 1 \in Nat /\ p + 5 \in Nat /\ p + 5 = (p + 1) + 4 /\ (p + 5) + k = p + (1 + (4 + k))
        OBVIOUS
    <3>2. QED
        BY <3>1
  <2>2. Holds(s, p, h) /\ Holds(s, a, r)
      BY <1>3, <1>14, <2>1, HoldsBoth
  <2>3. Holds(s, a, w) /\ Holds(s, c, z)
    <3>1. Holds(s, a, w) /\ Holds(s, a + Len(w), z)
        BY <1>9, <2>2, HoldsBoth
    <3>2. QED
        BY <1>2, <2>1, <3>1
  <2>4. BitAt(s, p, 1)
    <3>1. 1 \in Byte /\ (1 \div 1) % 2 = 1
        BY SMT DEF Byte
    <3>2. ByteAt(s, p) = 1
        BY <1>3, <2>2, <3>1, ByteWritten
    <3>3. QED
        BY <3>1, <3>2 DEF BitAt
  <2>5. I32At(s, a) = n
      BY <1>2, <2>3
  <2>6. Holds(s, c, FlattenSeq(ws))
      BY <1>7, <2>3
  <2>7. LoopRuns(f, s, c, n, ws)
      BY <1>6, <1>13, <2>6, LoopReads
  <2>8. /\ \A i \in 1..n : Loop(f, s, c, i - 1) \in Nat /\ Holds(s, Loop(f, s, c, i - 1), ws[i])
        /\ Loop(f, s, c, n) = c + k
      BY <1>7, <1>8, <2>7 DEF LoopRuns
  <2>9. f[s] = [q \in Nat |-> AfterMessageTuple(s, q)]
      BY <1>12
  <2>10. \A i : TupleElement(s, p, i) = Loop(f, s, c, i - 1)
      BY <2>1, <2>9 DEF TupleElement, Loop
  <2>11. AfterGetResultTuple(s, p) = c + k
    <3>1. (n + 1) - 1 = n
        OBVIOUS
    <3>2. TupleElement(s, p, n + 1) = Loop(f, s, c, n)
        BY <2>10, <3>1
    <3>3. QED
        BY <2>1, <2>4, <2>5, <2>8, <3>2 DEF AfterGetResultTuple
  <2>12. \A i \in 1..n : JavaMessageTupleAt(s, TupleElement(s, p, i)) = ms[i]
    <3>1. ASSUME NEW i \in 1..n
          PROVE  JavaMessageTupleAt(s, TupleElement(s, p, i)) = ms[i]
      <4>1. PICK q \in Nat : q = TupleElement(s, p, i) /\ Holds(s, q, ws[i])
          BY <2>8, <2>10
      <4>2. QED
          BY <1>5, <4>1 DEF IsTuple
    <3>2. QED
        BY <3>1
  <2>13. JavaGetResultTupleAt(s, p) = <<ms>>
    <3>1. [i \in 1..n |-> JavaMessageTupleAt(s, TupleElement(s, p, i))] = ms
      <4>1. ms = [i \in 1..n |-> ms[i]]
          BY <1>1
      <4>2. QED
          BY <2>12, <4>1
    <3>2. QED
        BY <2>1, <2>4, <2>5, <3>1 DEF JavaGetResultTupleAt
  <2>14. QED
      BY <2>1, <2>11, <2>13
<1>15. IsTupleResult(h \o r, ms)
    BY <1>10, <1>14 DEF IsTupleResult
<1>16. QED
    BY <1>11, <1>15

-----------------------------------------------------------------------------
(* Headers.                                                                 *)

\* What is read of a header that was written with a version or without: s is
\* all there is, and w is behind the header.
Header(strict, type, name) ==
    [error |-> "none", type |-> type, name |-> name, end |-> IF strict THEN 14 ELSE 11]
IsMessageOf(s, strict, name, type, id, w) ==
    /\ s \in Seq(Byte)
    /\ Holds(s, IF strict THEN 14 ELSE 11, w)
    /\ Len(s) + 1 = (IF strict THEN 14 ELSE 11) + Len(w)
    /\ SeqidBefore(s, IF strict THEN 14 ELSE 11) = id
    /\ MessageBegin(FALSE, s, 1) = Header(strict, IF strict THEN 0 ELSE type, name)
    /\ MessageBegin(TRUE, s, 1) = IF strict THEN Header(TRUE, 0, name)
                                  ELSE [error |-> "missing version"]
    /\ LibMessageBegin(FALSE, s, 1) = Header(strict, type, name)
    /\ LibMessageBegin(TRUE, s, 1) = IF strict THEN Header(TRUE, type, name)
                                     ELSE [error |-> "missing version"]

\* The name of a method, as it is written.
LEMMA NameWritten ==
    ASSUME NEW name \in {ADD, GET}
    PROVE  /\ WriteString(name) \in Seq(Byte) /\ Len(WriteString(name)) = 5
           /\ \A s \in Seq(Byte), p \in Nat : Holds(s, p, WriteString(name)) =>
                 StringAt(s, p) = name /\ AfterString(s, p) = p + 5 /\ ~NegativeAt(s, p)
<1>1. PICK c \in Byte : name = <<c>> /\ c # 0
  <2>1. 97 \in Byte /\ 103 \in Byte /\ 97 # 0 /\ 103 # 0
      BY DEF Byte
  <2>2. QED
      BY <2>1 DEF ADD, GET
<1>2. name \in Seq(Byte) /\ Len(name) = 1 /\ name[1] = c
    BY <1>1, TwoBytes
<1>3. CString(name) = name
  <2>1. \A i \in 1..Len(name) : name[i] # 0
      BY <1>1, <1>2
  <2>2. QED
      BY <1>2, <2>1, CStringType
<1>4. WriteString(name) = LibWriteString(name)
    BY <1>3 DEF WriteString, LibWriteString
<1>5. Len(name) <= MaxI32
    BY <1>2, SmallNumber
<1>6. PICK w \in Seq(Byte) : w = LibWriteString(name) /\ Len(w) = 5 /\ IsString(name, w)
  <2>1. LibWriteString(name) \in Seq(Byte) /\ Len(LibWriteString(name)) = Len(name) + 4
        /\ IsString(name, LibWriteString(name))
      BY <1>2, <1>5, TextWritten
  <2>2. QED
      BY <1>2, <2>1
<1>7. ASSUME NEW s \in Seq(Byte), NEW p \in Nat, Holds(s, p, w)
      PROVE  StringAt(s, p) = name /\ AfterString(s, p) = p + 5 /\ ~NegativeAt(s, p)
  <2>1. StringAt(s, p) = name /\ AfterString(s, p) = p + 5
      BY <1>3, <1>6, <1>7 DEF IsString
  <2>2. ~NegativeAt(s, p)
    <3>1. SUFFICES ASSUME NegativeAt(s, p) PROVE FALSE
        OBVIOUS
    <3>2. I32At(s, p) = -1
        BY <3>1 DEF I32At
    <3>3. AfterString(s, p) = p + 4 + (-1)
        BY <3>2 DEF AfterString
    <3>4. QED
        BY <2>1, <3>3
  <2>3. QED
      BY <2>1, <2>2
<1>8. QED
    BY <1>4, <1>6, <1>7

\* Two parts joined.
LEMMA Joined ==
    ASSUME NEW a \in Seq(Byte), NEW b \in Seq(Byte), NEW c, c = a \o b
    PROVE  /\ c \in Seq(Byte) /\ Len(c) = Len(a) + Len(b)
           /\ \A r \in Seq(Byte), p \in Nat :
                 Holds(r, p, c) => Holds(r, p, a) /\ Holds(r, p + Len(a), b)
<1>1. c \in Seq(Byte) /\ Len(c) = Len(a) + Len(b)
  <2>1. a \o b \in Seq(Byte) /\ Len(a \o b) = Len(a) + Len(b)
      OBVIOUS
  <2>2. QED
      BY <2>1
<1>2. ASSUME NEW r \in Seq(Byte), NEW p \in Nat, Holds(r, p, c)
      PROVE  Holds(r, p, a) /\ Holds(r, p + Len(a), b)
    BY <1>2, HoldsBoth
<1>3. QED
    BY <1>1, <1>2

\* The parts of what is sent with a version.
StrictJoin(s, v, t, n, d, w) ==
    /\ s = v \o t \o n \o d \o w
    /\ Len(v) = 3 /\ Len(t) = 1 /\ Len(n) = 5 /\ Len(d) = 4

LEMMA StrictParts ==
    ASSUME NEW v \in Seq(Byte), NEW t \in Seq(Byte), NEW n \in Seq(Byte),
           NEW d \in Seq(Byte), NEW w \in Seq(Byte),
           NEW s, StrictJoin(s, v, t, n, d, w)
    PROVE  /\ s \in Seq(Byte) /\ Len(s) + 1 = 14 + Len(w)
           /\ Holds(s, 1, v) /\ Holds(s, 4, t) /\ Holds(s, 5, n)
           /\ Holds(s, 10, d) /\ Holds(s, 14, w)
<1>0. /\ Len(v) = 3 /\ Len(t) = 1 /\ Len(n) = 5 /\ Len(d) = 4
      /\ \E vt, vtn, vtnd : vt = v \o t /\ vtn = vt \o n /\ vtnd = vtn \o d /\ s = vtnd \o w
    BY DEF StrictJoin
<1> PICK vt, vtn, vtnd : vt = v \o t /\ vtn = vt \o n /\ vtnd = vtn \o d /\ s = vtnd \o w
    BY <1>0
<1> USE <1>0
<1>1. vt \in Seq(Byte) /\ Len(vt) = 4
  <2>1. vt \in Seq(Byte) /\ Len(vt) = Len(v) + Len(t)
      BY Joined, ZenonT(60)
  <2>2. QED
      BY <2>1
<1>2. vtn \in Seq(Byte) /\ Len(vtn) = 9
  <2>1. vtn \in Seq(Byte) /\ Len(vtn) = Len(vt) + Len(n)
      BY <1>1, Joined
  <2>2. QED
      BY <2>1, <1>1
<1>3. vtnd \in Seq(Byte) /\ Len(vtnd) = 13
  <2>1. vtnd \in Seq(Byte) /\ Len(vtnd) = Len(vtn) + Len(d)
      BY <1>2, Joined
  <2>2. QED
      BY <2>1, <1>2
<1>4. PICK k \in Nat : k = Len(w)
    OBVIOUS
<1>5. s \in Seq(Byte) /\ Len(s) = 13 + k
  <2>1. s \in Seq(Byte) /\ Len(s) = Len(vtnd) + Len(w)
      BY <1>3, Joined, ZenonT(60)
  <2>2. QED
      BY <1>3, <1>4, <2>1
<1>6. Holds(s, 1, vtnd) /\ Holds(s, 14, w)
  <2>1. Holds(s, 1, s)
      BY <1>5, HoldsAll
  <2>2. Holds(s, 1, vtnd) /\ Holds(s, 1 + Len(vtnd), w)
      BY <1>3, <1>5, <2>1, Joined, ZenonT(60)
  <2>3. QED
      BY <1>3, <2>2
<1>7. Holds(s, 1, vtn) /\ Holds(s, 10, d)
  <2>1. Holds(s, 1, vtn) /\ Holds(s, 1 + Len(vtn), d)
      BY <1>2, <1>5, <1>6, Joined
  <2>2. QED
      BY <1>2, <2>1
<1>8. Holds(s, 1, vt) /\ Holds(s, 5, n)
  <2>1. Holds(s, 1, vt) /\ Holds(s, 1 + Len(vt), n)
      BY <1>1, <1>5, <1>7, Joined
  <2>2. QED
      BY <1>1, <2>1
<1>9. Holds(s, 1, v) /\ Holds(s, 4, t)
  <2>1. Holds(s, 1, v) /\ Holds(s, 1 + Len(v), t)
      BY <1>5, <1>8, Joined
  <2>2. QED
      BY <2>1
<1>10. QED
    BY <1>4, <1>5, <1>6, <1>7, <1>8, <1>9

\* The parts of what is sent without one.
OldJoin(s, n, t, d, w) ==
    /\ s = n \o t \o d \o w
    /\ Len(n) = 5 /\ Len(t) = 1 /\ Len(d) = 4

LEMMA OldParts ==
    ASSUME NEW n \in Seq(Byte), NEW t \in Seq(Byte), NEW d \in Seq(Byte),
           NEW w \in Seq(Byte),
           NEW s, OldJoin(s, n, t, d, w)
    PROVE  /\ s \in Seq(Byte) /\ Len(s) + 1 = 11 + Len(w)
           /\ Holds(s, 1, n) /\ Holds(s, 6, t) /\ Holds(s, 7, d)
           /\ Holds(s, 11, w)
<1>0. /\ Len(n) = 5 /\ Len(t) = 1 /\ Len(d) = 4
      /\ \E nt, ntd : nt = n \o t /\ ntd = nt \o d /\ s = ntd \o w
    BY DEF OldJoin
<1> PICK nt, ntd : nt = n \o t /\ ntd = nt \o d /\ s = ntd \o w
    BY <1>0
<1> USE <1>0
<1>1. nt \in Seq(Byte) /\ Len(nt) = 6
  <2>1. nt \in Seq(Byte) /\ Len(nt) = Len(n) + Len(t)
      BY Joined
  <2>2. QED
      BY <2>1
<1>2. ntd \in Seq(Byte) /\ Len(ntd) = 10
  <2>1. ntd \in Seq(Byte) /\ Len(ntd) = Len(nt) + Len(d)
      BY <1>1, Joined
  <2>2. QED
      BY <2>1, <1>1
<1>3. PICK k \in Nat : k = Len(w)
    OBVIOUS
<1>4. s \in Seq(Byte) /\ Len(s) = 10 + k
  <2>1. s \in Seq(Byte) /\ Len(s) = Len(ntd) + Len(w)
      BY <1>2, Joined
  <2>2. QED
      BY <1>2, <1>3, <2>1
<1>5. Holds(s, 1, ntd) /\ Holds(s, 11, w)
  <2>1. Holds(s, 1, s)
      BY <1>4, HoldsAll
  <2>2. Holds(s, 1, ntd) /\ Holds(s, 1 + Len(ntd), w)
      BY <1>2, <1>4, <2>1, Joined
  <2>3. QED
      BY <1>2, <2>2
<1>6. Holds(s, 1, nt) /\ Holds(s, 7, d)
  <2>1. Holds(s, 1, nt) /\ Holds(s, 1 + Len(nt), d)
      BY <1>1, <1>4, <1>5, Joined
  <2>2. QED
      BY <1>1, <2>1
<1>7. Holds(s, 1, n) /\ Holds(s, 6, t)
  <2>1. Holds(s, 1, n) /\ Holds(s, 1 + Len(n), t)
      BY <1>4, <1>6, Joined
  <2>2. QED
      BY <2>1
<1>8. QED
    BY <1>3, <1>4, <1>5, <1>6, <1>7

\* Two bytes make a sequence.
LEMMA PairOf ==
    ASSUME NEW u \in Seq(Byte), NEW a \in Byte, NEW b \in Byte, Len(u) = 2, u[1] = a, u[2] = b
    PROVE  u = <<a, b>>
<1>1. PICK v \in Seq(Byte) : v = <<a, b>> /\ Len(v) = 2
    BY TwoBytes
<1>2. v[1] = a /\ v[2] = b
    BY <1>1
<1>3. \A i \in 1..Len(u) : u[i] = v[i]
    BY <1>2
<1>4. u = v
    BY <1>1, <1>3, SeqEqual
<1>5. QED
    BY <1>1, <1>4

\* The first two bytes.
LEMMA FirstTwo ==
    ASSUME NEW s \in Seq(Byte), NEW n \in Nat, n = Len(s), n >= 2,
           NEW a \in Byte, NEW b \in Byte, s[1] = a, s[2] = b
    PROVE  SubSeq(s, 1, 2) = <<a, b>>
<1>1. \A i \in 1..2 : s[i] \in Byte
    OBVIOUS
<1>2. PICK u : u = SubSeq(s, 1, 2)
    OBVIOUS
<1>3. /\ u \in Seq(Byte) /\ Len(u) = IF 1 <= 2 THEN 2 - 1 + 1 ELSE 0
      /\ \A i \in 1..(2 - 1 + 1) : u[i] = s[1 + i - 1]
    BY <1>1, <1>2, SubSeqProperties
<1>4. Len(u) = 2
    BY <1>3
<1>5. 1 \in 1..(2 - 1 + 1) /\ 2 \in 1..(2 - 1 + 1) /\ 1 + 1 - 1 = 1 /\ 1 + 2 - 1 = 2
    OBVIOUS
<1>6. u[1] = a /\ u[2] = b
    BY <1>3, <1>5
<1>7. QED
    BY <1>2, <1>3, <1>4, <1>6, PairOf

\* A version is told from a length.
LEMMA VersionRead ==
    ASSUME NEW s \in Seq(Byte), NEW k \in Nat, Len(s) + 1 = 14 + k,
           NEW v \in Seq(Byte), Len(v) = 3, v[1] = 128, v[2] = 1, Holds(s, 1, v)
    PROVE  NegativeAt(s, 1) /\ SubSeq(s, 1, 2) = <<128, 1>>
<1>1. ByteAt(s, 1) = 128 /\ ByteAt(s, 2) = 1
  <2>1. 1 \in 1..3 /\ 2 \in 1..3 /\ 1 + 1 - 1 = 1 /\ 1 + 2 - 1 = 2
      OBVIOUS
  <2>2. \A i \in 1..3 : ByteAt(s, 1 + i - 1) = v[i]
      BY DEF Holds
  <2>3. QED
      BY <2>1, <2>2
<1>2. NegativeAt(s, 1)
  <2>1. 128 >= 128
      OBVIOUS
  <2>2. QED
      BY <1>1, <2>1 DEF NegativeAt
<1>3. PICK n \in Nat : n = Len(s)
    OBVIOUS
<1>4. n >= 13
    BY <1>3
<1>5. 1 \in DOMAIN s /\ 2 \in DOMAIN s
    BY <1>3, <1>4
<1>6. s[1] = 128 /\ s[2] = 1
    BY <1>1, <1>5 DEF ByteAt
<1>7. n >= 2 /\ 128 \in Byte /\ 1 \in Byte
    BY <1>4 DEF Byte
<1>8. SubSeq(s, 1, 2) = <<128, 1>>
    BY <1>3, <1>6, <1>7, FirstTwo
<1>9. QED
    BY <1>2, <1>8

\* A header with a version.
LEMMA VersionedRead ==
    ASSUME NEW s, NEW name, NEW type, NEW strict \in BOOLEAN,
           NegativeAt(s, 1), SubSeq(s, 1, 2) = <<128, 1>>, ByteAt(s, 4) = type,
           StringAt(s, 5) = name, AfterString(s, 5) = 10
    PROVE  /\ MessageBegin(strict, s, 1)
              = [error |-> "none", type |-> 0, name |-> name, end |-> 14]
           /\ LibMessageBegin(strict, s, 1)
              = [error |-> "none", type |-> type, name |-> name, end |-> 14]
<1>1. SubSeq(VERSION_1, 1, 2) = <<128, 1>>
  <2>1. 128 \in Byte /\ 1 \in Byte /\ 0 \in Byte
      BY DEF Byte
  <2>2. ASSUME NEW a \in Byte, NEW b \in Byte, NEW c \in Byte
        PROVE  SubSeq(<<a, b, c>>, 1, 2) = <<a, b>>
    <3>1. PICK v \in Seq(Byte) : v = <<a, b, c>> /\ Len(v) = 3 /\ v[1] = a /\ v[2] = b
      <4>1. <<a, b, c>> \in Seq(Byte) /\ Len(<<a, b, c>>) = 3
            /\ <<a, b, c>>[1] = a /\ <<a, b, c>>[2] = b
          OBVIOUS
      <4>2. QED
          BY <4>1
    <3>2. PICK n \in Nat : n = Len(v)
        OBVIOUS
    <3>3. n >= 2
        BY <3>1, <3>2
    <3>4. SubSeq(v, 1, 2) = <<a, b>>
        BY <3>1, <3>2, <3>3, FirstTwo
    <3>5. QED
        BY <3>1, <3>4
  <2>3. QED
      BY <2>1, <2>2 DEF VERSION_1
<1>2. 1 + 1 = 2 /\ 1 + 4 = 5 /\ 10 + 4 = 14 /\ 1 + 3 = 4
    OBVIOUS
<1>3. MessageBegin(strict, s, 1) = [error |-> "none", type |-> 0, name |-> name, end |-> 14]
    BY <1>1, <1>2 DEF MessageBegin
<1>4. PICK m : m = MessageBegin(strict, s, 1)
    OBVIOUS
<1>5. m = [error |-> "none", type |-> 0, name |-> name, end |-> 14]
    BY <1>3, <1>4
<1>6. m.error = "none"
    BY <1>5
<1>7. LibMessageBegin(strict, s, 1) = [m EXCEPT !.type = type]
    BY <1>2, <1>4, <1>6 DEF LibMessageBegin, WithType
<1>8. [m EXCEPT !.type = type] = [error |-> "none", type |-> type, name |-> name, end |-> 14]
  <2>1. ASSUME NEW x, x = [error |-> "none", type |-> 0, name |-> name, end |-> 14]
        PROVE  [x EXCEPT !.type = type]
               = [error |-> "none", type |-> type, name |-> name, end |-> 14]
      BY <2>1
  <2>2. QED
      BY <1>5, <2>1
<1>9. QED
    BY <1>3, <1>7, <1>8

\* What is read with a version.
LEMMA StrictRead ==
    ASSUME NEW s \in Seq(Byte), NEW w \in Seq(Byte), NEW name, NEW type \in Byte, NEW id,
           NEW v \in Seq(Byte), Len(v) = 3, v[1] = 128, v[2] = 1, Holds(s, 1, v),
           NEW t \in Seq(Byte), t = <<type>>, Holds(s, 4, t),
           StringAt(s, 5) = name, AfterString(s, 5) = 10, I32At(s, 10) = id,
           Len(s) + 1 = 14 + Len(w), Holds(s, 14, w)
    PROVE  IsMessageOf(s, TRUE, name, type, id, w)
<1>1. NegativeAt(s, 1) /\ SubSeq(s, 1, 2) = <<128, 1>>
  <2>1. PICK k \in Nat : k = Len(w)
      OBVIOUS
  <2>2. QED
      BY <2>1, VersionRead
<1>2. ByteAt(s, 4) = type
    BY ByteWritten
<1>3. SeqidBefore(s, 14) = id
  <2>1. 14 - 4 = 10
      OBVIOUS
  <2>2. QED
      BY <2>1 DEF SeqidBefore
<1>4. PICK yes \in BOOLEAN, no \in BOOLEAN : yes = TRUE /\ no = FALSE
    OBVIOUS
<1>5. /\ MessageBegin(yes, s, 1) = [error |-> "none", type |-> 0, name |-> name, end |-> 14]
      /\ MessageBegin(no, s, 1) = [error |-> "none", type |-> 0, name |-> name, end |-> 14]
      /\ LibMessageBegin(yes, s, 1)
         = [error |-> "none", type |-> type, name |-> name, end |-> 14]
      /\ LibMessageBegin(no, s, 1)
         = [error |-> "none", type |-> type, name |-> name, end |-> 14]
    BY <1>1, <1>2, VersionedRead
<1>6. QED
    BY <1>3, <1>4, <1>5 DEF IsMessageOf, Header

\* What is read without one.
LEMMA OldRead ==
    ASSUME NEW s \in Seq(Byte), NEW w \in Seq(Byte), NEW name, NEW type \in Byte, NEW id,
           NEW t \in Seq(Byte), t = <<type>>, Holds(s, 6, t),
           StringAt(s, 1) = name, AfterString(s, 1) = 6, ~NegativeAt(s, 1), I32At(s, 7) = id,
           Len(s) + 1 = 11 + Len(w), Holds(s, 11, w)
    PROVE  IsMessageOf(s, FALSE, name, type, id, w)
<1>1. ByteAt(s, 6) = type
    BY ByteWritten
<1>2. SeqidBefore(s, 11) = id
  <2>1. 11 - 4 = 7
      OBVIOUS
  <2>2. QED
      BY <2>1 DEF SeqidBefore
<1>3. MessageBegin(FALSE, s, 1) = [error |-> "none", type |-> type, name |-> name, end |-> 11]
  <2>1. 6 + 5 = 11
      OBVIOUS
  <2>2. QED
      BY <1>1, <2>1 DEF MessageBegin
<1>4. MessageBegin(TRUE, s, 1) = [error |-> "missing version"]
    BY DEF MessageBegin
<1>5. /\ LibMessageBegin(FALSE, s, 1)
         = [error |-> "none", type |-> type, name |-> name, end |-> 11]
      /\ LibMessageBegin(TRUE, s, 1) = [error |-> "missing version"]
    BY <1>3, <1>4 DEF LibMessageBegin, WithType
<1>6. QED
    BY <1>2, <1>3, <1>4, <1>5 DEF IsMessageOf, Header

\* The header of a writer that is strict.
LEMMA StrictHeader ==
    ASSUME NEW name \in {ADD, GET}, NEW type \in Byte, NEW id \in Nat, id <= MaxI32,
           NEW w \in Seq(Byte)
    PROVE  IsMessageOf(WriteMessageBegin(TRUE, name, type, id) \o w, TRUE, name, type, id, w)
<1>1. PICK v \in Seq(Byte) : v = VERSION_1 /\ Len(v) = 3 /\ v[1] = 128 /\ v[2] = 1
  <2>1. ASSUME NEW a \in Byte, NEW b \in Byte, NEW c \in Byte
        PROVE  <<a, b, c>> \in Seq(Byte) /\ Len(<<a, b, c>>) = 3
               /\ <<a, b, c>>[1] = a /\ <<a, b, c>>[2] = b
      OBVIOUS
  <2>2. 128 \in Byte /\ 1 \in Byte /\ 0 \in Byte
      BY DEF Byte
  <2>3. VERSION_1 \in Seq(Byte) /\ Len(VERSION_1) = 3 /\ VERSION_1[1] = 128 /\ VERSION_1[2] = 1
      BY <2>1, <2>2 DEF VERSION_1
  <2>4. QED
      BY <2>3
<1>2. PICK t \in Seq(Byte) : t = <<type>> /\ Len(t) = 1
    BY TwoBytes
<1>3. PICK n \in Seq(Byte) :
          /\ n = WriteString(name) /\ Len(n) = 5
          /\ \A r \in Seq(Byte), p \in Nat : Holds(r, p, n) =>
                StringAt(r, p) = name /\ AfterString(r, p) = p + 5 /\ ~NegativeAt(r, p)
    BY NameWritten
<1>4. PICK d \in Seq(Byte) :
          /\ d = WriteI32(id) /\ Len(d) = 4
          /\ \A r \in Seq(Byte), p \in Nat : Holds(r, p, d) => I32At(r, p) = id
    BY NumberWritten
<1>5. PICK vt, vtn, vtnd, s : vt = v \o t /\ vtn = vt \o n /\ vtnd = vtn \o d /\ s = vtnd \o w
    OBVIOUS
<1>6. /\ s \in Seq(Byte) /\ Len(s) + 1 = 14 + Len(w)
      /\ Holds(s, 1, v) /\ Holds(s, 4, t) /\ Holds(s, 5, n)
      /\ Holds(s, 10, d) /\ Holds(s, 14, w)
  <2>1. Len(v) = 3 /\ Len(t) = 1 /\ Len(n) = 5 /\ Len(d) = 4
      BY <1>1, <1>2, <1>3, <1>4
  <2>2. StrictJoin(s, v, t, n, d, w)
      BY <1>5, <2>1 DEF StrictJoin
  <2>3. QED
      BY <2>2, StrictParts, Zenon
<1>7. StringAt(s, 5) = name /\ AfterString(s, 5) = 10
  <2>1. StringAt(s, 5) = name /\ AfterString(s, 5) = 5 + 5
      BY <1>3, <1>6
  <2>2. QED
      BY <2>1
<1>8. I32At(s, 10) = id
    BY <1>4, <1>6
<1>9. IsMessageOf(s, TRUE, name, type, id, w)
    BY <1>1, <1>2, <1>6, <1>7, <1>8, StrictRead
<1>10. WriteMessageBegin(TRUE, name, type, id) \o w = s
    BY <1>1, <1>2, <1>3, <1>4, <1>5 DEF WriteMessageBegin
<1>11. QED
    BY <1>9, <1>10

\* The header of a writer that is not.
LEMMA OldHeader ==
    ASSUME NEW name \in {ADD, GET}, NEW type \in Byte, NEW id \in Nat, id <= MaxI32,
           NEW w \in Seq(Byte)
    PROVE  IsMessageOf(WriteMessageBegin(FALSE, name, type, id) \o w, FALSE, name, type, id, w)
<1>1. PICK t \in Seq(Byte) : t = <<type>> /\ Len(t) = 1
    BY TwoBytes
<1>2. PICK n \in Seq(Byte) :
          /\ n = WriteString(name) /\ Len(n) = 5
          /\ \A r \in Seq(Byte), p \in Nat : Holds(r, p, n) =>
                StringAt(r, p) = name /\ AfterString(r, p) = p + 5 /\ ~NegativeAt(r, p)
    BY NameWritten
<1>3. PICK d \in Seq(Byte) :
          /\ d = WriteI32(id) /\ Len(d) = 4
          /\ \A r \in Seq(Byte), p \in Nat : Holds(r, p, d) => I32At(r, p) = id
    BY NumberWritten
<1>4. PICK nt, ntd, s : nt = n \o t /\ ntd = nt \o d /\ s = ntd \o w
    OBVIOUS
<1>5. /\ s \in Seq(Byte) /\ Len(s) + 1 = 11 + Len(w)
      /\ Holds(s, 1, n) /\ Holds(s, 6, t) /\ Holds(s, 7, d) /\ Holds(s, 11, w)
  <2>1. Len(n) = 5 /\ Len(t) = 1 /\ Len(d) = 4
      BY <1>1, <1>2, <1>3
  <2>2. OldJoin(s, n, t, d, w)
      BY <1>4, <2>1 DEF OldJoin
  <2>3. QED
      BY <2>2, OldParts, Zenon
<1>6. StringAt(s, 1) = name /\ AfterString(s, 1) = 6 /\ ~NegativeAt(s, 1)
  <2>1. StringAt(s, 1) = name /\ AfterString(s, 1) = 1 + 5 /\ ~NegativeAt(s, 1)
      BY <1>2, <1>5
  <2>2. QED
      BY <2>1
<1>7. I32At(s, 7) = id
    BY <1>3, <1>5
<1>8. IsMessageOf(s, FALSE, name, type, id, w)
    BY <1>1, <1>5, <1>6, <1>7, OldRead
<1>9. WriteMessageBegin(FALSE, name, type, id) \o w = s
    BY <1>1, <1>2, <1>3, <1>4 DEF WriteMessageBegin
<1>10. QED
    BY <1>8, <1>9

\* The exception that a server writes: a structure without a result of get.
LEMMA ExceptionWritten ==
    ASSUME NEW name \in {ADD, GET}
    PROVE  /\ AppExceptionWrite(name, 1) \in Seq(Byte)
           /\ IsValue(T_STRUCT, AppExceptionWrite(name, 1))
           /\ \A s \in Seq(Byte), p \in Nat : Holds(s, p, AppExceptionWrite(name, 1)) =>
                 CocoaGetResultAt(s, p) = <<>>
<1>1. PICK c \in Byte : name = <<c>>
  <2>1. 97 \in Byte /\ 103 \in Byte
      BY DEF Byte
  <2>2. QED
      BY <2>1 DEF ADD, GET
<1>2. name \in Seq(Byte) /\ Len(name) = 1
    BY <1>1, TwoBytes
<1>3. PICK u \in Seq(Byte) : u = CString(name) /\ Len(u) <= 1
    BY <1>2, CStringType
<1>4. Len(u) <= MaxI32
  <2>1. PICK n \in Nat : n = Len(u)
      OBVIOUS
  <2>2. n <= 1000
      BY <1>3, <2>1
  <2>3. QED
      BY <2>1, <2>2, SmallNumber
<1>5. PICK a \in Seq(Byte) : a = WriteString(name) /\ IsValue(T_STRING, a)
  <2>1. LibWriteString(u) \in Seq(Byte) /\ IsValue(T_STRING, LibWriteString(u))
      BY <1>4, TextWritten
  <2>2. WriteString(name) = LibWriteString(u)
      BY <1>3 DEF WriteString, LibWriteString
  <2>3. QED
      BY <2>1, <2>2
<1>6. PICK b \in Seq(Byte) : b = WriteI32(1) /\ IsValue(T_I32, b)
  <2>1. 1 \in Nat /\ 1 <= MaxI32
      BY SmallNumber
  <2>2. WriteI32(1) \in Seq(Byte) /\ IsValue(T_I32, WriteI32(1))
      BY <2>1, NumberWritten, NumberIsAValue
  <2>3. QED
      BY <2>2
<1>7. IsOptValue(T_STRING, <<a>>) /\ IsOptValue(T_I32, <<b>>) /\ IsOptValue(T_STRING, <<>>)
  <2>1. T_STRING # T_STOP /\ T_I32 # T_STOP /\ T_STRING \in Byte /\ T_I32 \in Byte
      BY TypesAreBytes, NumberTypes DEF T_STRING, T_I32, T_STOP
  <2>2. QED
      BY <1>5, <1>6, <2>1, SetField, UnsetField DEF IsOptValue
<1>8. PICK z \in Seq(Byte) :
          z = (OptField(1, T_STRING, <<a>>) \o OptField(2, T_I32, <<b>>)) \o WriteFieldStop
  <2>1. OptField(1, T_STRING, <<a>>) \in Seq(Byte) /\ OptField(2, T_I32, <<b>>) \in Seq(Byte)
    <3>1. 1 \in 0..3 /\ 2 \in 0..3
        OBVIOUS
    <3>2. QED
        BY <1>7, <3>1, OptFieldType DEF IsOptValue
  <2>2. PICK x \in Seq(Byte), y \in Seq(Byte), r \in Seq(Byte) :
            /\ x = OptField(1, T_STRING, <<a>>) /\ y = OptField(2, T_I32, <<b>>)
            /\ r = WriteFieldStop
      BY <2>1, StopType
  <2>3. (x \o y) \o r \in Seq(Byte)
      OBVIOUS
  <2>4. QED
      BY <2>2, <2>3
<1>9. AppExceptionWrite(name, 1) = z
  <2>1. <<name>> # <<>> /\ <<name>>[1] = name /\ <<1>> # <<>> /\ <<1>>[1] = 1
        /\ <<a>> # <<>> /\ <<a>>[1] = a /\ <<b>> # <<>> /\ <<b>>[1] = b
      OBVIOUS
  <2>2. Field(1, T_STRING, WriteString, <<name>>) = WriteFieldBegin(T_STRING, 1) \o a
      BY <1>5, <2>1 DEF Field
  <2>3. Field(2, T_I32, WriteI32, <<1>>) = WriteFieldBegin(T_I32, 2) \o b
      BY <1>6, <2>1 DEF Field
  <2>4. OptField(1, T_STRING, <<a>>) = WriteFieldBegin(T_STRING, 1) \o a
        /\ OptField(2, T_I32, <<b>>) = WriteFieldBegin(T_I32, 2) \o b
      BY <2>1 DEF OptField
  <2>5. QED
      BY <1>8, <2>2, <2>3, <2>4 DEF AppExceptionWrite
<1>10. IsStruct(z, T_STRING, <<a>>, T_I32, <<b>>)
  <2>1. IsStruct(Struct(T_STRING, <<>>, T_STRING, <<a>>, T_I32, <<b>>),
                 T_STRING, <<a>>, T_I32, <<b>>)
      BY <1>7, StructWritten
  <2>2. OptField(3, T_STRING, <<>>) = <<>> /\ <<>> \o z = z
      BY ConcatEmptySeq DEF OptField
  <2>3. Struct(T_STRING, <<>>, T_STRING, <<a>>, T_I32, <<b>>) = z
      BY <1>8, <2>2 DEF Struct
  <2>4. QED
      BY <2>1, <2>3
<1>11. IsValue(T_STRUCT, z)
    BY <1>10 DEF IsStruct, IsValue
<1>12. ASSUME NEW s \in Seq(Byte), NEW p \in Nat, Holds(s, p, z)
       PROVE  CocoaGetResultAt(s, p) = <<>>
  <2>1. FieldsOf(s, p, 0, T_LIST) = <<>>
      BY <1>10, <1>12 DEF IsStruct
  <2>2. QED
      BY <2>1 DEF CocoaGetResultAt, Latest
<1>13. QED
    BY <1>9, <1>11, <1>12

-----------------------------------------------------------------------------
(* Requests.                                                                *)

\* The message that a client sends, and the one that a server keeps of it.
SentOf(k, m) == CASE k.lang = "cocoa" -> CMessage(m)
                  [] k.lang = "glib" -> CMessage(GlibMessage(m))
                  [] OTHER -> m
KeptOf(k, m) == IF k.server = "java" THEN SentOf(k, m) ELSE CMessage(SentOf(k, m))

\* The bytes w are the arguments of a call.
IsArgs(k, w, name, m) ==
    IF k.scheme = "tuple"
    THEN IF name = ADD
         THEN /\ w \in Seq(Byte)
              /\ \A s \in Seq(Byte), p \in Nat : Holds(s, p, w) =>
                    /\ JavaAddArgsTupleAt(s, p) = <<m>> /\ BitAt(s, p, 1)
                    /\ AfterMessageTuple(s, p + 1) = p + Len(w)
         ELSE w = <<>>
    ELSE IF name = ADD THEN IsAddArgs(w, SentOf(k, m)) ELSE w = WriteFieldStop

\* The bytes s are the call of the name with the argument m and the number id.
IsRequest(k, s, name, m, id) ==
    \E w \in Seq(Byte) :
        /\ IsArgs(k, w, name, m)
        /\ IsMessageOf(s, IF k.lang = "cocoa" THEN k.strict ELSE TRUE, name, T_CALL, id, w)

\* The names differ.
LEMMA NamesDiffer == ADD # GET
<1>1. ADD[1] = 97 /\ GET[1] = 103
    BY DEF ADD, GET
<1>2. QED
    BY <1>1

\* The types of messages are bytes.
LEMMA CallTypes == T_CALL \in Byte /\ T_REPLY \in Byte /\ T_EXCEPTION \in Byte
                   /\ T_REPLY # T_EXCEPTION /\ T_EXCEPTION # 0
BY DEF T_CALL, T_REPLY, T_EXCEPTION, Byte

\* The header of any writer.
LEMMA HeaderWritten ==
    ASSUME NEW strict \in BOOLEAN, NEW name \in {ADD, GET}, NEW type \in Byte,
           NEW id \in Nat, id <= MaxI32, NEW w \in Seq(Byte)
    PROVE  IsMessageOf(WriteMessageBegin(strict, name, type, id) \o w, strict, name, type, id, w)
<1>1. CASE strict = TRUE
    BY <1>1, StrictHeader
<1>2. CASE strict = FALSE
    BY <1>2, OldHeader
<1>3. QED
    BY <1>1, <1>2

\* What a client writes is its call.
LEMMA RequestWritten ==
    ASSUME link \in Links, NEW name \in {ADD, GET}, NEW m \in ShortMessage,
           NEW id \in Nat, id <= MaxI32, link.lang # "java" => id = 0
    PROVE  IsRequest(link, Request(name, m, id), name, m, id)
<1>1. /\ link.lang \in {"cocoa", "glib", "java", "async"} /\ link.strict \in BOOLEAN
      /\ link.scheme = "tuple" => link.lang \in {"java", "async"}
    BY LinksAssumption DEF Link
<1>2. PICK strict \in BOOLEAN : strict = IF link.lang = "cocoa" THEN link.strict ELSE TRUE
    BY <1>1
<1>3. ASSUME NEW w \in Seq(Byte), IsArgs(link, w, name, m),
             Request(name, m, id) = WriteMessageBegin(strict, name, T_CALL, id) \o w
      PROVE  IsRequest(link, Request(name, m, id), name, m, id)
  <2>1. IsMessageOf(Request(name, m, id), strict, name, T_CALL, id, w)
      BY <1>3, HeaderWritten, CallTypes
  <2>2. QED
      BY <1>2, <1>3, <2>1 DEF IsRequest
<1>4. CASE name = ADD
  <2>1. /\ IsAddArgs(JavaAddArgsWrite(<<m>>), m)
        /\ IsAddArgs(CocoaAddArgsWrite(<<m>>), CMessage(m))
        /\ IsAddArgs(GlibAddArgsWrite(m), CMessage(GlibMessage(m)))
      BY PlainArgs
  <2>2. CASE link.lang = "cocoa"
    <3>1. PICK w \in Seq(Byte) : w = CocoaAddArgsWrite(<<m>>)
        BY <2>1 DEF IsAddArgs
    <3>2. Request(name, m, id) = WriteMessageBegin(strict, name, T_CALL, id) \o w
        BY <1>1, <1>2, <1>4, <2>2, <3>1 DEF Request, CocoaSendAdd
    <3>3. IsArgs(link, w, name, m)
        BY <1>1, <1>4, <2>1, <2>2, <3>1 DEF IsArgs, SentOf
    <3>4. QED
        BY <1>3, <3>2, <3>3
  <2>3. CASE link.lang = "glib"
    <3>1. PICK w \in Seq(Byte) : w = GlibAddArgsWrite(m)
        BY <2>1 DEF IsAddArgs
    <3>2. Request(name, m, id) = WriteMessageBegin(strict, name, T_CALL, id) \o w
        BY <1>1, <1>2, <1>4, <2>3, <3>1 DEF Request, GlibSendAdd, LibWriteMessageBegin
    <3>3. IsArgs(link, w, name, m)
        BY <1>1, <1>4, <2>1, <2>3, <3>1 DEF IsArgs, SentOf
    <3>4. QED
        BY <1>3, <3>2, <3>3
  <2>4. CASE link.lang \in {"java", "async"} /\ link.scheme = "tuple"
    <3>1. PICK w \in Seq(Byte) : w = JavaAddArgsTuple(<<m>>)
        BY TupleArgs
    <3>2. Request(name, m, id) = WriteMessageBegin(strict, name, T_CALL, id) \o w
      <4>1. Request(name, m, id) = JavaSendAdd(m, id)
          BY <1>4, <2>4 DEF Request, AsyncSendAdd
      <4>2. JavaSendAdd(m, id) = WriteMessageBegin(strict, name, T_CALL, id) \o w
          BY <1>2, <1>4, <2>4, <3>1 DEF JavaSendAdd, LibWriteMessageBegin
      <4>3. QED
          BY <4>1, <4>2
    <3>3. IsArgs(link, w, name, m)
      <4>1. \A s \in Seq(Byte), p \in Nat : Holds(s, p, w) =>
                /\ JavaAddArgsTupleAt(s, p) = <<m>> /\ BitAt(s, p, 1)
                /\ AfterMessageTuple(s, p + 1) = p + Len(w)
          BY <3>1, TupleArgs
      <4>2. QED
          BY <1>4, <2>4, <4>1 DEF IsArgs
    <3>4. QED
        BY <1>3, <3>2, <3>3
  <2>5. CASE link.lang \in {"java", "async"} /\ link.scheme # "tuple"
    <3>1. PICK w \in Seq(Byte) : w = JavaAddArgsWrite(<<m>>)
        BY <2>1 DEF IsAddArgs
    <3>2. Request(name, m, id) = WriteMessageBegin(strict, name, T_CALL, id) \o w
      <4>1. Request(name, m, id) = JavaSendAdd(m, id)
          BY <1>4, <2>5 DEF Request, AsyncSendAdd
      <4>2. JavaSendAdd(m, id) = WriteMessageBegin(strict, name, T_CALL, id) \o w
          BY <1>2, <1>4, <2>5, <3>1 DEF JavaSendAdd, LibWriteMessageBegin
      <4>3. QED
          BY <4>1, <4>2
    <3>3. IsArgs(link, w, name, m)
        BY <1>4, <2>1, <2>5, <3>1 DEF IsArgs, SentOf
    <3>4. QED
        BY <1>3, <3>2, <3>3
  <2>6. QED
      BY <1>1, <2>2, <2>3, <2>4, <2>5
<1>5. CASE name = GET
  <2>1. name # ADD
      BY <1>5, NamesDiffer
  <2>2. CASE link.scheme = "tuple"
    <3>1. PICK w \in Seq(Byte) : w = <<>>
      <4>1. <<>> \in Seq(Byte)
          OBVIOUS
      <4>2. QED
          BY <4>1
    <3>2. Request(name, m, id) = WriteMessageBegin(strict, name, T_CALL, id) \o w
      <4>1. Request(name, m, id) = JavaSendGet(id)
          BY <1>1, <2>1, <2>2 DEF Request, AsyncSendGet
      <4>2. JavaSendGet(id) = WriteMessageBegin(strict, name, T_CALL, id) \o w
          BY <1>1, <1>2, <1>5, <2>2, <3>1 DEF JavaSendGet, LibWriteMessageBegin
      <4>3. QED
          BY <4>1, <4>2
    <3>3. IsArgs(link, w, name, m)
        BY <2>1, <2>2, <3>1 DEF IsArgs
    <3>4. QED
        BY <1>3, <3>2, <3>3
  <2>3. CASE link.scheme # "tuple"
    <3>1. PICK w \in Seq(Byte) : w = WriteFieldStop
        BY StopType
    <3>2. Request(name, m, id) = WriteMessageBegin(strict, name, T_CALL, id) \o w
      <4>1. CASE link.lang = "cocoa"
          BY <1>2, <1>5, <2>1, <3>1, <4>1 DEF Request, CocoaSendGet, CocoaGetArgsWrite
      <4>2. CASE link.lang = "glib"
          BY <1>2, <1>5, <2>1, <3>1, <4>2
          DEF Request, GlibSendGet, GlibGetArgsWrite, LibWriteMessageBegin
      <4>3. CASE link.lang \in {"java", "async"}
        <5>1. Request(name, m, id) = JavaSendGet(id)
            BY <2>1, <4>3 DEF Request, AsyncSendGet
        <5>2. JavaSendGet(id) = WriteMessageBegin(strict, name, T_CALL, id) \o w
            BY <1>2, <1>5, <2>3, <3>1, <4>3
            DEF JavaSendGet, LibWriteMessageBegin, JavaGetArgsWrite
        <5>3. QED
            BY <5>1, <5>2
      <4>4. QED
          BY <1>1, <4>1, <4>2, <4>3
    <3>3. IsArgs(link, w, name, m)
        BY <2>1, <2>3, <3>1 DEF IsArgs
    <3>4. QED
        BY <1>3, <3>2, <3>3
  <2>4. QED
      BY <2>2, <2>3
<1>6. QED
    BY <1>4, <1>5

-----------------------------------------------------------------------------
(* What a server makes of a request.                                        *)

\* The bytes w are what a server with the board b answers.
IsBody(k, w, name, b) ==
    IF name \notin k.methods
    THEN /\ w \in Seq(Byte) /\ IsValue(T_STRUCT, w)
         /\ \A s \in Seq(Byte), p \in Nat : Holds(s, p, w) => CocoaGetResultAt(s, p) = <<>>
    ELSE IF name = ADD THEN w = IF k.scheme = "tuple" THEN <<>> ELSE WriteFieldStop
    ELSE IF k.scheme = "tuple" THEN IsTupleResult(w, b)
    ELSE IsResult(w, IF k.server = "java" THEN b ELSE CMessages(b))

\* The bytes s are the answer to the call of the name and the number id.
IsReply(k, s, name, id, b) ==
    \E w \in Seq(Byte) :
        /\ IsBody(k, w, name, b)
        /\ IsMessageOf(s, k.server = "java", name,
                       IF name \in k.methods THEN T_REPLY ELSE T_EXCEPTION, id, w)

\* What is left behind by the call.
IsProcessed(k, r, s, name, m, id, b) ==
    /\ r.end = Len(s) + 1
    /\ IsReply(k, r.reply, name, id, b)
    /\ r.board = b \o (IF name = ADD /\ ADD \in k.methods THEN <<KeptOf(k, m)>> ELSE <<>>)

\* An answer with its header.
LEMMA ReplyWritten ==
    ASSUME NEW k, NEW strict \in BOOLEAN, strict <=> k.server = "java",
           NEW name \in {ADD, GET}, NEW type \in Byte,
           type = IF name \in k.methods THEN T_REPLY ELSE T_EXCEPTION,
           NEW id \in Nat, id <= MaxI32, NEW b, NEW w \in Seq(Byte), IsBody(k, w, name, b)
    PROVE  IsReply(k, WriteMessageBegin(strict, name, type, id) \o w, name, id, b)
<1>1. PICK s : s = WriteMessageBegin(strict, name, type, id) \o w
    OBVIOUS
<1>2. IsMessageOf(s, strict, name, type, id, w)
    BY <1>1, HeaderWritten
<1>3. strict = (k.server = "java")
    OBVIOUS
<1>4. IsMessageOf(s, k.server = "java", name,
                  IF name \in k.methods THEN T_REPLY ELSE T_EXCEPTION, id, w)
    BY <1>2, <1>3
<1>5. IsReply(k, s, name, id, b)
    BY <1>4 DEF IsReply
<1>6. QED
    BY <1>1, <1>5

\* Of a get the kept messages are those before.
LEMMA NothingAdded == \A b \in Seq(ShortMessage) : b \o <<>> = b
BY ConcatEmptySeq

\* What a server reads of a call: its header, then its arguments.
IsRead(k, s, name, m, id, h, w) ==
    /\ s \in Seq(Byte) /\ w \in Seq(Byte) /\ h \in Nat
    /\ IsArgs(k, w, name, m) /\ Holds(s, h, w) /\ Len(s) + 1 = h + Len(w)
    /\ SeqidBefore(s, h) = id
    /\ MessageBegin(FALSE, s, 1).name = name /\ MessageBegin(FALSE, s, 1).end = h
    /\ LibMessageBegin(FALSE, s, 1).name = name /\ LibMessageBegin(FALSE, s, 1).end = h

\* It reads what was sent.
LEMMA RequestRead ==
    ASSUME NEW k, NEW s, NEW name, NEW m, NEW id, IsRequest(k, s, name, m, id)
    PROVE  \E h \in Nat, w \in Seq(Byte) : IsRead(k, s, name, m, id, h, w)
<1>1. PICK strict : strict = IF k.lang = "cocoa" THEN k.strict ELSE TRUE
    OBVIOUS
<1>2. PICK w \in Seq(Byte) :
          IsArgs(k, w, name, m) /\ IsMessageOf(s, strict, name, T_CALL, id, w)
    BY <1>1 DEF IsRequest
<1>3. PICK h \in Nat : h = IF strict THEN 14 ELSE 11
  <2>1. 14 \in Nat /\ 11 \in Nat
      OBVIOUS
  <2>2. CASE strict
      BY <2>1, <2>2
  <2>3. CASE ~strict
      BY <2>1, <2>3
  <2>4. QED
      BY <2>2, <2>3
<1>4. /\ s \in Seq(Byte) /\ Holds(s, h, w) /\ Len(s) + 1 = h + Len(w)
      /\ SeqidBefore(s, h) = id
    BY <1>2, <1>3 DEF IsMessageOf
<1>5. \E t : MessageBegin(FALSE, s, 1) = [error |-> "none", type |-> t, name |-> name, end |-> h]
    BY <1>2, <1>3 DEF IsMessageOf, Header
<1>6. \E t : LibMessageBegin(FALSE, s, 1)
             = [error |-> "none", type |-> t, name |-> name, end |-> h]
    BY <1>2, <1>3 DEF IsMessageOf, Header
<1>7. IsRead(k, s, name, m, id, h, w)
  <2>1. ASSUME NEW g, \E t : g = [error |-> "none", type |-> t, name |-> name, end |-> h]
        PROVE  g.name = name /\ g.end = h
      BY <2>1
  <2>2. MessageBegin(FALSE, s, 1).name = name /\ MessageBegin(FALSE, s, 1).end = h
    <3>1. PICK g : g = MessageBegin(FALSE, s, 1)
        OBVIOUS
    <3>2. \E t : g = [error |-> "none", type |-> t, name |-> name, end |-> h]
        BY <1>5, <3>1
    <3>3. QED
        BY <2>1, <3>1, <3>2
  <2>3. LibMessageBegin(FALSE, s, 1).name = name /\ LibMessageBegin(FALSE, s, 1).end = h
    <3>1. PICK g : g = LibMessageBegin(FALSE, s, 1)
        OBVIOUS
    <3>2. \E t : g = [error |-> "none", type |-> t, name |-> name, end |-> h]
        BY <1>6, <3>1
    <3>3. QED
        BY <2>1, <3>1, <3>2
  <2>4. QED
      BY <1>2, <1>4, <2>2, <2>3 DEF IsRead
<1>8. QED
    BY <1>7

\* Arguments are a structure, where the tuple scheme is not used.
LEMMA ArgsAreAValue ==
    ASSUME NEW k, k.scheme # "tuple", NEW w \in Seq(Byte), NEW name, NEW m, IsArgs(k, w, name, m)
    PROVE  IsValue(T_STRUCT, w)
<1>1. CASE name = ADD
    BY <1>1 DEF IsArgs, IsAddArgs
<1>2. CASE name # ADD
    BY <1>2, StopIsAValue DEF IsArgs
<1>3. QED
    BY <1>1, <1>2

\* They are skipped to the end of the request.
LEMMA ArgsSkipped ==
    ASSUME NEW k, k.scheme # "tuple", NEW s, NEW name, NEW m, NEW id, NEW h, NEW w,
           IsRead(k, s, name, m, id, h, w)
    PROVE  SkipType(s, T_STRUCT, h) = Len(s) + 1
<1>1. s \in Seq(Byte) /\ w \in Seq(Byte) /\ h \in Nat
      /\ IsArgs(k, w, name, m) /\ Holds(s, h, w) /\ Len(s) + 1 = h + Len(w)
    BY DEF IsRead
<1>2. IsValue(T_STRUCT, w)
    BY <1>1, ArgsAreAValue
<1>3. SkipType(s, T_STRUCT, h) = h + Len(w)
    BY <1>1, <1>2 DEF IsValue
<1>4. QED
    BY <1>1, <1>3

\* A header is bytes.
LEMMA HeaderIsBytes ==
    ASSUME NEW strict \in BOOLEAN, NEW name \in {ADD, GET}, NEW type \in Byte,
           NEW id \in Nat, id <= MaxI32
    PROVE  WriteMessageBegin(strict, name, type, id) \in Seq(Byte)
<1>1. PICK t \in Seq(Byte) : t = <<type>>
    BY TwoBytes
<1>2. PICK n \in Seq(Byte) : n = WriteString(name)
    BY NameWritten
<1>3. PICK d \in Seq(Byte) : d = WriteI32(id)
    BY NumberWritten
<1>4. PICK v \in Seq(Byte) : v = VERSION_1
  <2>1. ASSUME NEW a \in Byte, NEW b \in Byte, NEW c \in Byte
        PROVE  <<a, b, c>> \in Seq(Byte)
      OBVIOUS
  <2>2. 128 \in Byte /\ 1 \in Byte /\ 0 \in Byte
      BY DEF Byte
  <2>3. VERSION_1 \in Seq(Byte)
      BY <2>1, <2>2 DEF VERSION_1
  <2>4. QED
      BY <2>3
<1>5. WriteMessageBegin(strict, name, type, id)
      = IF strict THEN ((v \o t) \o n) \o d ELSE (n \o t) \o d
    BY <1>1, <1>2, <1>3, <1>4 DEF WriteMessageBegin
<1>6. ((v \o t) \o n) \o d \in Seq(Byte) /\ (n \o t) \o d \in Seq(Byte)
    OBVIOUS
<1>7. QED
    BY <1>5, <1>6

\* The server in Java.
LEMMA JavaProcessed ==
    ASSUME link \in Links, link.server = "java", NEW name \in {ADD, GET},
           NEW m \in ShortMessage, NEW id \in Nat, id <= MaxI32,
           board \in Seq(ShortMessage), Len(board) <= MaxI32,
           NEW s, IsRequest(link, s, name, m, id)
    PROVE  IsProcessed(link, JavaProcess(s), s, name, m, id, board)
<1>1. link.scheme = "tuple" => link.methods = {ADD, GET}
    BY LinksAssumption
<1>2. PICK h \in Nat, w \in Seq(Byte) : IsRead(link, s, name, m, id, h, w)
    BY RequestRead
<1>3. PICK r : r = JavaProcess(s)
    OBVIOUS
<1>4. PICK g : g = LibMessageBegin(FALSE, s, 1)
    OBVIOUS
<1>5. /\ g.name = name /\ g.end = h /\ SeqidBefore(s, h) = id
      /\ IsArgs(link, w, name, m) /\ Holds(s, h, w) /\ Len(s) + 1 = h + Len(w) /\ s \in Seq(Byte)
    BY <1>2, <1>4 DEF IsRead
<1>6. r = JavaDispatch(s, g, id)
    BY <1>3, <1>4, <1>5 DEF JavaProcess, JavaProcessFrom
<1>7. PICK strict \in BOOLEAN : strict = TRUE
    OBVIOUS
<1>8. ASSUME NEW type \in Byte, type = IF name \in link.methods THEN T_REPLY ELSE T_EXCEPTION,
             NEW v \in Seq(Byte), IsBody(link, v, name, board)
      PROVE  IsReply(link, WriteMessageBegin(strict, name, type, id) \o v, name, id, board)
    BY <1>7, <1>8, ReplyWritten
<1>9. CASE name \notin link.methods
  <2>1. link.scheme # "tuple"
      BY <1>1, <1>9
  <2>2. PICK v \in Seq(Byte) : v = AppExceptionWrite(name, 1) /\ IsBody(link, v, name, board)
      BY <1>9, ExceptionWritten DEF IsBody
  <2>3. r = Processed(SkipType(s, T_STRUCT, h),
                      WriteMessageBegin(strict, name, T_EXCEPTION, id) \o v, board)
      BY <1>5, <1>6, <1>7, <1>9, <2>2 DEF JavaDispatch, LibWriteMessageBegin
  <2>4. IsReply(link, WriteMessageBegin(strict, name, T_EXCEPTION, id) \o v, name, id, board)
      BY <1>8, <1>9, <2>2, CallTypes
  <2>5. r.end = Len(s) + 1
    <3>1. SkipType(s, T_STRUCT, h) = Len(s) + 1
        BY <1>2, <2>1, ArgsSkipped
    <3>2. QED
        BY <2>3, <3>1 DEF Processed
  <2>6. IsReply(link, r.reply, name, id, board) /\ r.board = board
      BY <2>3, <2>4 DEF Processed
  <2>7. board = board \o <<>>
      BY NothingAdded
  <2>8. QED
      BY <1>3, <1>9, <2>5, <2>6, <2>7 DEF IsProcessed
<1>10. CASE name \in link.methods /\ name = ADD
  <2>1. PICK v \in Seq(Byte) : v = IF link.scheme = "tuple" THEN <<>> ELSE WriteFieldStop
    <3>1. <<>> \in Seq(Byte)
        OBVIOUS
    <3>2. QED
        BY <3>1, StopType
  <2>2. IsBody(link, v, name, board)
      BY <1>10, <2>1 DEF IsBody
  <2>3. IsReply(link, WriteMessageBegin(strict, name, T_REPLY, id) \o v, name, id, board)
      BY <1>8, <1>10, <2>2, CallTypes
  <2>4. r = JavaProcessAdd(s, h, id)
      BY <1>5, <1>6, <1>10 DEF JavaDispatch
  <2>5. KeptOf(link, m) = SentOf(link, m)
      BY DEF KeptOf
  <2>6. CASE link.scheme = "tuple"
    <3>1. PICK u : u = WriteMessageBegin(strict, name, T_REPLY, id)
        OBVIOUS
    <3>2. u \o <<>> = u
      <4>1. u \in Seq(Byte)
          BY <3>1, CallTypes, HeaderIsBytes
      <4>2. QED
          BY <4>1, ConcatEmptySeq
    <3>3. /\ JavaAddArgsTupleAt(s, h) = <<m>> /\ BitAt(s, h, 1)
          /\ AfterMessageTuple(s, h + 1) = h + Len(w)
        BY <1>5, <1>10, <2>6 DEF IsArgs
    <3>4. r = Processed(h + Len(w), u, board \o <<m>>)
        BY <1>7, <1>10, <2>4, <2>6, <3>1, <3>3 DEF JavaProcessAdd, LibWriteMessageBegin
    <3>5. IsReply(link, u, name, id, board)
        BY <2>1, <2>3, <2>6, <3>1, <3>2
    <3>6. r.end = h + Len(w) /\ r.reply = u /\ r.board = board \o <<m>>
        BY <3>4 DEF Processed
    <3>7. r.end = Len(s) + 1
        BY <1>5, <3>6
    <3>8. SentOf(link, m) = m
      <4>1. link.lang \in {"java", "async"}
          BY <2>6, LinksAssumption
      <4>2. QED
          BY <4>1 DEF SentOf
    <3>9. QED
        BY <1>3, <1>10, <2>5, <3>5, <3>6, <3>7, <3>8 DEF IsProcessed
  <2>7. CASE link.scheme # "tuple"
    <3>1. SkipType(s, T_STRUCT, h) = Len(s) + 1
        BY <1>2, <2>7, ArgsSkipped
    <3>2. JavaAddArgsAt(s, h) = <<SentOf(link, m)>>
        BY <1>5, <1>10, <2>7 DEF IsArgs, IsAddArgs
    <3>3. r = Processed(Len(s) + 1, WriteMessageBegin(strict, name, T_REPLY, id) \o v,
                        board \o <<SentOf(link, m)>>)
        BY <1>7, <1>10, <2>1, <2>4, <2>7, <3>1, <3>2
        DEF JavaProcessAdd, LibWriteMessageBegin, JavaAddResultWrite
    <3>4. /\ r.end = Len(s) + 1
          /\ r.reply = WriteMessageBegin(strict, name, T_REPLY, id) \o v
          /\ r.board = board \o <<SentOf(link, m)>>
        BY <3>3 DEF Processed
    <3>5. QED
        BY <1>3, <1>10, <2>3, <2>5, <3>4 DEF IsProcessed
  <2>8. QED
      BY <2>6, <2>7
<1>11. CASE name \in link.methods /\ name # ADD
  <2>1. name = GET
      BY <1>11
  <2>2. r = JavaProcessGet(s, h, id)
      BY <1>5, <1>6, <1>11 DEF JavaDispatch
  <2>3. PICK v \in Seq(Byte) :
            /\ v = IF link.scheme = "tuple" THEN JavaGetResultTuple(<<board>>)
                   ELSE JavaGetResultWrite(JavaServerMessage, <<board>>)
            /\ IsBody(link, v, name, board)
    <3>1. CASE link.scheme = "tuple"
      <4>1. IsTupleResult(JavaGetResultTuple(<<board>>), board)
          BY TupleResultWritten
      <4>2. PICK v \in Seq(Byte) : v = JavaGetResultTuple(<<board>>) /\ IsTupleResult(v, board)
          BY <4>1 DEF IsTupleResult
      <4>3. IsBody(link, v, name, board)
          BY <1>11, <3>1, <4>2 DEF IsBody
      <4>4. QED
          BY <3>1, <4>2, <4>3
    <3>2. CASE link.scheme # "tuple"
      <4>1. IsResult(JavaGetResultWrite(JavaServerMessage, <<board>>), board)
          BY JavaServerResult
      <4>2. PICK v \in Seq(Byte) : v = JavaGetResultWrite(JavaServerMessage, <<board>>)
                                   /\ IsResult(v, board)
          BY <4>1 DEF IsResult
      <4>3. IsBody(link, v, name, board)
          BY <1>11, <3>2, <4>2 DEF IsBody
      <4>4. QED
          BY <3>2, <4>2, <4>3
    <3>3. QED
        BY <3>1, <3>2
  <2>4. IsReply(link, WriteMessageBegin(strict, name, T_REPLY, id) \o v, name, id, board)
      BY <1>8, <1>11, <2>3, CallTypes
  <2>5. r = Processed(IF link.scheme = "tuple" THEN h ELSE SkipType(s, T_STRUCT, h),
                      WriteMessageBegin(strict, name, T_REPLY, id) \o v, board)
    <3>1. CASE link.scheme = "tuple"
        BY <1>7, <2>1, <2>2, <2>3, <3>1 DEF JavaProcessGet, LibWriteMessageBegin
    <3>2. CASE link.scheme # "tuple"
        BY <1>7, <2>1, <2>2, <2>3, <3>2 DEF JavaProcessGet, LibWriteMessageBegin
    <3>3. QED
        BY <3>1, <3>2
  <2>6. r.end = Len(s) + 1
    <3>1. CASE link.scheme = "tuple"
      <4>1. w = <<>>
          BY <1>5, <1>11, <3>1 DEF IsArgs
      <4>2. Len(w) = 0
          BY <4>1
      <4>3. r.end = h
          BY <2>5, <3>1 DEF Processed
      <4>4. QED
          BY <1>5, <4>2, <4>3
    <3>2. CASE link.scheme # "tuple"
      <4>1. SkipType(s, T_STRUCT, h) = Len(s) + 1
          BY <1>2, <3>2, ArgsSkipped
      <4>2. QED
          BY <2>5, <3>2, <4>1 DEF Processed
    <3>3. QED
        BY <3>1, <3>2
  <2>7. IsReply(link, r.reply, name, id, board) /\ r.board = board
      BY <2>4, <2>5 DEF Processed
  <2>8. board = board \o <<>>
      BY NothingAdded
  <2>9. QED
      BY <1>3, <1>11, <2>6, <2>7, <2>8 DEF IsProcessed
<1>12. QED
    BY <1>9, <1>10, <1>11

\* The server in Cocoa.
LEMMA CocoaProcessed ==
    ASSUME link \in Links, link.server = "cocoa", NEW name \in {ADD, GET},
           NEW m \in ShortMessage, NEW id \in Nat, id <= MaxI32,
           board \in Seq(ShortMessage), Len(board) <= MaxI32,
           NEW s, IsRequest(link, s, name, m, id)
    PROVE  IsProcessed(link, CocoaProcess(s), s, name, m, id, board)
<1>1. link.scheme # "tuple" /\ link.server # "java"
    BY LinksAssumption
<1>2. PICK h \in Nat, w \in Seq(Byte) : IsRead(link, s, name, m, id, h, w)
    BY RequestRead
<1>3. PICK r : r = CocoaProcess(s)
    OBVIOUS
<1>4. PICK g : g = MessageBegin(FALSE, s, 1)
    OBVIOUS
<1>5. /\ g.name = name /\ g.end = h /\ SeqidBefore(s, h) = id
      /\ IsArgs(link, w, name, m) /\ Holds(s, h, w) /\ Len(s) + 1 = h + Len(w) /\ s \in Seq(Byte)
    BY <1>2, <1>4 DEF IsRead
<1>6. r = CocoaDispatch(s, g, id)
    BY <1>3, <1>4, <1>5 DEF CocoaProcess, CocoaProcessFrom
<1>7. PICK strict \in BOOLEAN : strict = FALSE
    OBVIOUS
<1>8. ASSUME NEW type \in Byte, type = IF name \in link.methods THEN T_REPLY ELSE T_EXCEPTION,
             NEW v \in Seq(Byte), IsBody(link, v, name, board)
      PROVE  IsReply(link, WriteMessageBegin(strict, name, type, id) \o v, name, id, board)
    BY <1>1, <1>7, <1>8, ReplyWritten
<1>9. SkipType(s, T_STRUCT, h) = Len(s) + 1
    BY <1>1, <1>2, ArgsSkipped
<1>10. CASE name \notin link.methods
  <2>1. PICK v \in Seq(Byte) : v = AppExceptionWrite(name, 1) /\ IsBody(link, v, name, board)
      BY <1>10, ExceptionWritten DEF IsBody
  <2>2. r = Processed(SkipType(s, T_STRUCT, h),
                      WriteMessageBegin(strict, name, T_EXCEPTION, id) \o v, board)
      BY <1>5, <1>6, <1>7, <1>10, <2>1 DEF CocoaDispatch
  <2>3. IsReply(link, WriteMessageBegin(strict, name, T_EXCEPTION, id) \o v, name, id, board)
      BY <1>8, <1>10, <2>1, CallTypes
  <2>4. r.end = Len(s) + 1 /\ IsReply(link, r.reply, name, id, board) /\ r.board = board
      BY <1>9, <2>2, <2>3 DEF Processed
  <2>5. board = board \o <<>>
      BY NothingAdded
  <2>6. QED
      BY <1>3, <1>10, <2>4, <2>5 DEF IsProcessed
<1>11. CASE name \in link.methods /\ name = ADD
  <2>1. PICK v \in Seq(Byte) : v = WriteFieldStop
      BY StopType
  <2>2. IsBody(link, v, name, board)
      BY <1>1, <1>11, <2>1 DEF IsBody
  <2>3. IsReply(link, WriteMessageBegin(strict, name, T_REPLY, id) \o v, name, id, board)
      BY <1>8, <1>11, <2>2, CallTypes
  <2>4. r = CocoaProcessAdd(s, h, id)
      BY <1>5, <1>6, <1>11 DEF CocoaDispatch
  <2>5. KeptOf(link, m) = CMessage(SentOf(link, m))
      BY <1>1 DEF KeptOf
  <2>6. CocoaAddArgsAt(s, h) = <<KeptOf(link, m)>>
      BY <1>1, <1>5, <1>11, <2>5 DEF IsArgs, IsAddArgs
  <2>7. r = Processed(Len(s) + 1, WriteMessageBegin(strict, name, T_REPLY, id) \o v,
                      board \o <<KeptOf(link, m)>>)
      BY <1>7, <1>9, <1>11, <2>1, <2>4, <2>6 DEF CocoaProcessAdd, CocoaAddResultWrite
  <2>8. /\ r.end = Len(s) + 1
        /\ r.reply = WriteMessageBegin(strict, name, T_REPLY, id) \o v
        /\ r.board = board \o <<KeptOf(link, m)>>
      BY <2>7 DEF Processed
  <2>9. QED
      BY <1>3, <1>11, <2>3, <2>8 DEF IsProcessed
<1>12. CASE name \in link.methods /\ name # ADD
  <2>1. name = GET
      BY <1>12
  <2>2. r = CocoaProcessGet(s, h, id)
      BY <1>5, <1>6, <1>12 DEF CocoaDispatch
  <2>3. PICK v \in Seq(Byte) : /\ v = CocoaGetResultWrite(CocoaServerMessage, <<board>>)
                               /\ IsBody(link, v, name, board)
    <3>1. IsResult(CocoaGetResultWrite(CocoaServerMessage, <<board>>), CMessages(board))
        BY CocoaServerResult
    <3>2. PICK v \in Seq(Byte) : v = CocoaGetResultWrite(CocoaServerMessage, <<board>>)
                                 /\ IsResult(v, CMessages(board))
        BY <3>1 DEF IsResult
    <3>3. IsBody(link, v, name, board)
        BY <1>1, <1>12, <3>2 DEF IsBody
    <3>4. QED
        BY <3>2, <3>3
  <2>4. IsReply(link, WriteMessageBegin(strict, name, T_REPLY, id) \o v, name, id, board)
      BY <1>8, <1>12, <2>3, CallTypes
  <2>5. r = Processed(SkipType(s, T_STRUCT, h),
                      WriteMessageBegin(strict, name, T_REPLY, id) \o v, board)
      BY <1>7, <2>1, <2>2, <2>3 DEF CocoaProcessGet
  <2>6. r.end = Len(s) + 1 /\ IsReply(link, r.reply, name, id, board) /\ r.board = board
      BY <1>9, <2>4, <2>5 DEF Processed
  <2>7. board = board \o <<>>
      BY NothingAdded
  <2>8. QED
      BY <1>3, <1>12, <2>6, <2>7 DEF IsProcessed
<1>13. QED
    BY <1>10, <1>11, <1>12

\* Any server.
LEMMA RequestProcessed ==
    ASSUME link \in Links, NEW name \in {ADD, GET},
           NEW m \in ShortMessage, NEW id \in Nat, id <= MaxI32,
           board \in Seq(ShortMessage), Len(board) <= MaxI32,
           NEW s, IsRequest(link, s, name, m, id)
    PROVE  IsProcessed(link, Process(s), s, name, m, id, board)
<1>1. link.server \in {"java", "cocoa"}
    BY LinksAssumption DEF Link
<1>2. CASE link.server = "java"
    BY <1>2, JavaProcessed DEF Process
<1>3. CASE link.server = "cocoa"
    BY <1>3, CocoaProcessed DEF Process
<1>4. QED
    BY <1>1, <1>2, <1>3

\* The message kept is the one promised, and it is short.
LEMMA KeptIsPromised ==
    ASSUME link \in Links, NEW m \in ShortMessage
    PROVE  /\ KeptMessage(m) = KeptOf(link, m) /\ KeptOf(link, m) \in ShortMessage
           /\ link.server = "cocoa" => CMessage(KeptOf(link, m)) = KeptOf(link, m)
<1>1. /\ link.lang \in {"cocoa", "glib", "java", "async"} /\ link.server \in {"java", "cocoa"}
    BY LinksAssumption DEF Link
<1>2. /\ CMessage(m) \in ShortMessage /\ CMessage(CMessage(m)) = CMessage(m)
      /\ GlibMessage(m) \in ShortMessage
    BY CMessageWritten, GlibMessageWritten
<1>3. PICK g \in ShortMessage : g = GlibMessage(m)
    BY <1>2
<1>4. CMessage(g) \in ShortMessage /\ CMessage(CMessage(g)) = CMessage(g)
    BY CMessageWritten
<1>5. KeptOf(link, m) = CASE link.lang = "glib" -> CMessage(g)
                          [] {link.lang, link.server} \subseteq {"java", "async"} -> m
                          [] OTHER -> CMessage(m)
  <2>1. CASE link.lang = "cocoa"
      BY <1>1, <1>2, <2>1 DEF KeptOf, SentOf
  <2>2. CASE link.lang = "glib"
      BY <1>1, <1>3, <1>4, <2>2 DEF KeptOf, SentOf
  <2>3. CASE link.lang \in {"java", "async"}
      BY <1>1, <2>3 DEF KeptOf, SentOf
  <2>4. QED
      BY <1>1, <2>1, <2>2, <2>3
<1>6. KeptMessage(m) = KeptOf(link, m)
  <2>1. CASE link.lang = "glib"
    <3>1. KeptOf(link, m) = CMessage(g)
        BY <1>5, <2>1
    <3>2. ASSUME NEW f \in Fields
          PROVE  KeptField(f) = CField(GlibSent(f))
      <4>1. CASE f = <<>>
        <5>1. KeptField(f) = <<<<>>>>
            BY <1>1, <2>1, <4>1 DEF KeptField
        <5>2. PICK e \in Seq(Byte) : e = <<>>
          <6>1. <<>> \in Seq(Byte)
              OBVIOUS
          <6>2. QED
              BY <6>1
        <5>3. CString(e) = e
          <6>1. \A i \in 1..Len(e) : e[i] # 0
              BY <5>2
          <6>2. QED
              BY <6>1, CStringType
        <5>4. GlibSent(f) = <<e>> /\ <<e>> # <<>> /\ <<e>>[1] = e
            BY <4>1, <5>2 DEF GlibSent
        <5>5. CField(<<e>>) = <<e>>
            BY <5>3, <5>4 DEF CField
        <5>6. QED
            BY <5>1, <5>2, <5>4, <5>5
      <4>2. CASE f # <<>>
        <5>1. KeptField(f) = <<CString(f[1])>>
            BY <1>1, <2>1, <4>2 DEF KeptField
        <5>2. GlibSent(f) = f
            BY <4>2 DEF GlibSent
        <5>3. CField(f) = <<CString(f[1])>>
            BY <4>2 DEF CField
        <5>4. QED
            BY <5>1, <5>2, <5>3
      <4>3. QED
          BY <4>1, <4>2
    <3>3. m.text \in Fields /\ m.date \in Fields
        BY DEF ShortMessage, Message
    <3>4. g.text = GlibSent(m.text) /\ g.date = GlibSent(m.date)
        BY <1>3 DEF GlibMessage
    <3>5. KeptMessage(m) = CMessage(g)
        BY <3>2, <3>3, <3>4 DEF KeptMessage, CMessage
    <3>6. QED
        BY <3>1, <3>5
  <2>2. CASE link.lang # "glib" /\ {link.lang, link.server} \subseteq {"java", "async"}
    <3>1. KeptOf(link, m) = m
        BY <1>5, <2>2
    <3>2. \A f : KeptField(f) = f
        BY <2>2 DEF KeptField
    <3>3. KeptMessage(m) = [text |-> m.text, date |-> m.date]
        BY <3>2 DEF KeptMessage
    <3>4. m = [text |-> m.text, date |-> m.date]
        BY DEF ShortMessage, Message
    <3>5. QED
        BY <3>1, <3>3, <3>4
  <2>3. CASE link.lang # "glib" /\ ~({link.lang, link.server} \subseteq {"java", "async"})
    <3>1. KeptOf(link, m) = CMessage(m)
        BY <1>5, <2>3
    <3>2. ASSUME NEW f
          PROVE  KeptField(f) = CField(f)
      <4>1. CASE f = <<>>
          BY <2>3, <4>1 DEF KeptField, CField
      <4>2. CASE f # <<>>
          BY <2>3, <4>2 DEF KeptField, CField
      <4>3. QED
          BY <4>1, <4>2
    <3>3. KeptMessage(m) = CMessage(m)
        BY <3>2 DEF KeptMessage, CMessage
    <3>4. QED
        BY <3>1, <3>3
  <2>4. QED
      BY <2>1, <2>2, <2>3
<1>7. KeptOf(link, m) \in ShortMessage
    BY <1>2, <1>4, <1>5
<1>8. link.server = "cocoa" => CMessage(KeptOf(link, m)) = KeptOf(link, m)
    BY <1>2, <1>4, <1>5
<1>9. QED
    BY <1>6, <1>7, <1>8

-----------------------------------------------------------------------------
(* What a client makes of an answer.                                        *)

\* A header that is read without an error.
IsHeaderOf(h, type, name, p) ==
    h.error = "none" /\ h.type = type /\ h.name = name /\ h.end = p

\* What a client reads of an answer: its header, then its body.
IsReplyRead(k, s, name, id, b, p, w) ==
    LET type == IF name \in k.methods THEN T_REPLY ELSE T_EXCEPTION
    IN  /\ s \in Seq(Byte) /\ w \in Seq(Byte) /\ p \in Nat /\ p >= 5
        /\ IsBody(k, w, name, b) /\ Holds(s, p, w) /\ Len(s) + 1 = p + Len(w)
        /\ SeqidBefore(s, p) = id
        /\ k.server = "java" =>
              /\ IsHeaderOf(MessageBegin(FALSE, s, 1), 0, name, p)
              /\ IsHeaderOf(MessageBegin(TRUE, s, 1), 0, name, p)
              /\ IsHeaderOf(LibMessageBegin(FALSE, s, 1), type, name, p)
              /\ IsHeaderOf(LibMessageBegin(TRUE, s, 1), type, name, p)
        /\ k.server # "java" =>
              /\ IsHeaderOf(MessageBegin(FALSE, s, 1), type, name, p)
              /\ IsHeaderOf(LibMessageBegin(FALSE, s, 1), type, name, p)
              /\ MessageBegin(TRUE, s, 1).error = "missing version"
              /\ LibMessageBegin(TRUE, s, 1).error = "missing version"

\* A header written is read.
LEMMA HeaderOf == \A type, name, p :
    IsHeaderOf([error |-> "none", type |-> type, name |-> name, end |-> p], type, name, p)
BY DEF IsHeaderOf

\* It reads what was sent.
LEMMA ReplyRead ==
    ASSUME NEW k, NEW s, NEW name, NEW id, NEW b, IsReply(k, s, name, id, b)
    PROVE  \E p \in Nat, w \in Seq(Byte) : IsReplyRead(k, s, name, id, b, p, w)
<1>1. PICK type : type = IF name \in k.methods THEN T_REPLY ELSE T_EXCEPTION
    OBVIOUS
<1>2. PICK w \in Seq(Byte) :
          IsBody(k, w, name, b) /\ IsMessageOf(s, k.server = "java", name, type, id, w)
    BY <1>1 DEF IsReply
<1>3. CASE k.server = "java"
  <2>1. PICK p \in Nat : p = 14 /\ p >= 5
      OBVIOUS
  <2>2. IsMessageOf(s, TRUE, name, type, id, w)
      BY <1>2, <1>3
  <2>3. /\ s \in Seq(Byte) /\ Holds(s, p, w) /\ Len(s) + 1 = p + Len(w)
        /\ SeqidBefore(s, p) = id
      BY <2>1, <2>2 DEF IsMessageOf
  <2>4. PICK g, e : g = [error |-> "none", type |-> 0, name |-> name, end |-> p]
                 /\ e = [error |-> "none", type |-> type, name |-> name, end |-> p]
      OBVIOUS
  <2>5. /\ MessageBegin(FALSE, s, 1) = g /\ MessageBegin(TRUE, s, 1) = g
        /\ LibMessageBegin(FALSE, s, 1) = e /\ LibMessageBegin(TRUE, s, 1) = e
      BY <2>1, <2>2, <2>4 DEF IsMessageOf, Header
  <2>6. IsHeaderOf(g, 0, name, p) /\ IsHeaderOf(e, type, name, p)
      BY <2>4, HeaderOf
  <2>7. IsReplyRead(k, s, name, id, b, p, w)
      BY <1>1, <1>2, <1>3, <2>1, <2>3, <2>5, <2>6 DEF IsReplyRead
  <2>8. QED
      BY <2>7
<1>4. CASE k.server # "java"
  <2>1. PICK p \in Nat : p = 11 /\ p >= 5
      OBVIOUS
  <2>2. IsMessageOf(s, FALSE, name, type, id, w)
      BY <1>2, <1>4
  <2>3. /\ s \in Seq(Byte) /\ Holds(s, p, w) /\ Len(s) + 1 = p + Len(w)
        /\ SeqidBefore(s, p) = id
      BY <2>1, <2>2 DEF IsMessageOf
  <2>4. PICK g, e : g = [error |-> "missing version"]
                 /\ e = [error |-> "none", type |-> type, name |-> name, end |-> p]
      OBVIOUS
  <2>5. /\ MessageBegin(FALSE, s, 1) = e /\ MessageBegin(TRUE, s, 1) = g
        /\ LibMessageBegin(FALSE, s, 1) = e /\ LibMessageBegin(TRUE, s, 1) = g
      BY <2>1, <2>2, <2>4 DEF IsMessageOf, Header
  <2>6. IsHeaderOf(e, type, name, p) /\ g.error = "missing version"
      BY <2>4, HeaderOf
  <2>7. IsReplyRead(k, s, name, id, b, p, w)
      BY <1>1, <1>2, <1>4, <2>1, <2>3, <2>5, <2>6 DEF IsReplyRead
  <2>8. QED
      BY <2>7
<1>5. QED
    BY <1>3, <1>4

\* The board as a server writes it.
WrittenOf(k, b) == IF k.server = "java" THEN b ELSE CMessages(b)

\* A body that is not of the tuple scheme.
LEMMA BodyRead ==
    ASSUME NEW k, k.scheme # "tuple", NEW name \in {ADD, GET}, NEW b,
           NEW s \in Seq(Byte), NEW w \in Seq(Byte), NEW p \in Nat,
           IsBody(k, w, name, b), Holds(s, p, w), Len(s) + 1 = p + Len(w)
    PROVE  /\ SkipType(s, T_STRUCT, p) = Len(s) + 1
           /\ name \notin k.methods => CocoaGetResultAt(s, p) = <<>>
           /\ name \in k.methods /\ name = GET =>
                 /\ JavaGetResultAt(s, p) = <<WrittenOf(k, b)>>
                 /\ CocoaGetResultAt(s, p) = <<CMessages(WrittenOf(k, b))>>
                 /\ GlibGetResultAt(s, p) = CMessages(WrittenOf(k, b))
<1>1. CASE name \notin k.methods
  <2>1. IsValue(T_STRUCT, w) /\ CocoaGetResultAt(s, p) = <<>>
      BY <1>1 DEF IsBody
  <2>2. SkipType(s, T_STRUCT, p) = p + Len(w)
      BY <2>1 DEF IsValue
  <2>3. QED
      BY <1>1, <2>1, <2>2
<1>2. CASE name \in k.methods /\ name = ADD
  <2>1. w = WriteFieldStop
      BY <1>2 DEF IsBody
  <2>2. SkipType(s, T_STRUCT, p) = p + Len(w)
      BY <2>1, StopIsAValue DEF IsValue
  <2>3. QED
      BY <1>2, <2>2, NamesDiffer
<1>3. CASE name \in k.methods /\ name = GET
  <2>1. PICK x : x = WrittenOf(k, b)
      OBVIOUS
  <2>2. IsResult(w, x)
      BY <1>3, <2>1, NamesDiffer DEF IsBody, WrittenOf
  <2>3. SkipType(s, T_STRUCT, p) = p + Len(w)
      BY <2>2 DEF IsResult, IsValue
  <2>4. /\ JavaGetResultAt(s, p) = <<x>> /\ CocoaGetResultAt(s, p) = <<CMessages(x)>>
        /\ GlibGetResultAt(s, p) = CMessages(x)
      BY <2>2 DEF IsResult
  <2>5. QED
      BY <1>3, <2>1, <2>3, <2>4
<1>4. QED
    BY <1>1, <1>2, <1>3

-----------------------------------------------------------------------------
(* The outcome of a call that is answered.                                  *)

\* Who refuses, whose exceptions are lost, and the board as a client sees it.
Refuses(k) == k.server = "cocoa" /\ (k.lang = "glib" \/ (k.lang = "cocoa" /\ k.strict))
Loses(k) == k.lang = "cocoa" /\ k.server = "java"
SeenOf(k, b) == IF k.lang \in {"java", "async"} THEN WrittenOf(k, b)
                ELSE CMessages(WrittenOf(k, b))
IsReceived(k, r, s, name, b) ==
    /\ Refuses(k) => r.out = "missing version" /\ r.end <= Len(s) + 1
    /\ ~Refuses(k) =>
          /\ r.end = Len(s) + 1
          /\ name \notin k.methods =>
                r.out = IF ~Loses(k) THEN "exception"
                        ELSE IF name = ADD THEN "ok" ELSE "missing result"
          /\ name \in k.methods => r.out = "ok" /\ (name = GET => r.val = <<SeenOf(k, b)>>)

\* A result that is there.
LEMMA ResultThere ==
    ASSUME NEW end, NEW x
    PROVE  Result(end, <<x>>) = Answer("ok", end, <<x>>)
<1>1. <<x>> # <<>>
    OBVIOUS
<1>2. QED
    BY <1>1 DEF Result

\* The parts of an answer.
LEMMA AnswerParts == \A o, e, v :
    Answer(o, e, v).out = o /\ Answer(o, e, v).end = e /\ Answer(o, e, v).val = v
BY DEF Answer

\* A header that was read: what is behind it counts, or an exception.
LEMMA HeadedParts ==
    ASSUME NEW s, NEW h, NEW type, NEW name, NEW p, IsHeaderOf(h, type, name, p), NEW rest
    PROVE  Headed(s, h, rest) = IF type = T_EXCEPTION THEN AppException(s, p) ELSE rest
BY DEF Headed, IsHeaderOf

\* One that is refused.
LEMMA RefusedParts ==
    ASSUME NEW s, NEW h, h.error = "missing version", NEW rest
    PROVE  Headed(s, h, rest).out = "missing version" /\ Headed(s, h, rest).end = 5
<1>1. PICK o, e, v, a : o = h.error /\ e = 5 /\ v = <<>> /\ a = Answer(o, e, v)
    OBVIOUS
<1>2. Headed(s, h, rest) = a
    BY <1>1 DEF Headed, Refused
<1>3. a.out = o /\ a.end = e
    BY <1>1 DEF Answer
<1>4. QED
    BY <1>1, <1>2, <1>3

\* The number before a header is there.
LEMMA LongEnough ==
    ASSUME NEW k, NEW s, NEW name, NEW id, NEW b, NEW p, NEW w,
           IsReplyRead(k, s, name, id, b, p, w)
    PROVE  5 <= Len(s) + 1
<1>1. s \in Seq(Byte) /\ w \in Seq(Byte) /\ p \in Nat /\ p >= 5 /\ Len(s) + 1 = p + Len(w)
    BY DEF IsReplyRead
<1>2. PICK n \in Nat, j \in Nat : n = Len(s) /\ j = Len(w)
    BY <1>1
<1>3. QED
    BY <1>1, <1>2

\* An exception.
LEMMA ExceptionParts ==
    ASSUME NEW s, NEW p
    PROVE  AppException(s, p).out = "exception" /\ AppException(s, p).end = SkipType(s, T_STRUCT, p)
BY AnswerParts DEF AppException

\* The Cocoa client.
LEMMA CocoaReceived ==
    ASSUME link \in Links, link.lang = "cocoa", NEW name \in {ADD, GET}, NEW id, NEW b, NEW s,
           IsReply(link, s, name, id, b), NEW r,
           r = IF name = ADD THEN CocoaRecvAdd(s) ELSE CocoaRecvGet(s)
    PROVE  IsReceived(link, r, s, name, b)
<1>1. /\ link.scheme # "tuple" /\ link.server \in {"java", "cocoa"} /\ link.strict \in BOOLEAN
    BY LinksAssumption DEF Link
<1>2. PICK p \in Nat, w \in Seq(Byte) : IsReplyRead(link, s, name, id, b, p, w)
    BY ReplyRead
<1>3. PICK type : type = IF name \in link.methods THEN T_REPLY ELSE T_EXCEPTION
    OBVIOUS
<1>4. s \in Seq(Byte) /\ IsBody(link, w, name, b) /\ Holds(s, p, w) /\ Len(s) + 1 = p + Len(w)
    BY <1>2 DEF IsReplyRead
<1>5. /\ SkipType(s, T_STRUCT, p) = Len(s) + 1
      /\ name \notin link.methods => CocoaGetResultAt(s, p) = <<>>
      /\ name \in link.methods /\ name = GET =>
            CocoaGetResultAt(s, p) = <<CMessages(WrittenOf(link, b))>>
  <2>1. SkipType(s, T_STRUCT, p) = Len(s) + 1
      BY <1>1, <1>4, BodyRead
  <2>2. ASSUME name \notin link.methods
        PROVE  CocoaGetResultAt(s, p) = <<>>
      BY <1>2, <1>4, <2>2 DEF IsBody, IsReplyRead
  <2>3. name \in link.methods /\ name = GET =>
            CocoaGetResultAt(s, p) = <<CMessages(WrittenOf(link, b))>>
      BY <1>1, <1>4, BodyRead
  <2>4. QED
      BY <2>1, <2>2, <2>3
<1>6. PICK h : h = MessageBegin(link.strict, s, 1)
    OBVIOUS
<1>7. PICK rest : rest = IF name = ADD THEN Answer("ok", SkipType(s, T_STRUCT, h.end), <<>>)
                         ELSE Result(SkipType(s, T_STRUCT, h.end), CocoaGetResultAt(s, h.end))
    OBVIOUS
<1>8. r = Headed(s, h, rest)
    BY <1>6, <1>7, NamesDiffer DEF CocoaRecvAdd, CocoaRecvGet, CocoaAdded, CocoaGot
<1>9. ASSUME h.end = p
      PROVE  /\ rest.end = Len(s) + 1
             /\ rest.out = IF name \notin link.methods /\ name = GET THEN "missing result"
                           ELSE "ok"
             /\ name \in link.methods /\ name = GET =>
                   rest.val = <<CMessages(WrittenOf(link, b))>>
  <2>1. CASE name = ADD
    <3>1. rest = Answer("ok", Len(s) + 1, <<>>)
        BY <1>5, <1>7, <1>9, <2>1
    <3>2. QED
        BY <2>1, <3>1, AnswerParts, NamesDiffer
  <2>2. CASE name = GET /\ name \in link.methods
    <3>1. PICK x : x = CMessages(WrittenOf(link, b))
        OBVIOUS
    <3>2. rest = Result(Len(s) + 1, <<x>>)
        BY <1>5, <1>7, <1>9, <2>2, <3>1, NamesDiffer
    <3>3. rest = Answer("ok", Len(s) + 1, <<x>>)
        BY <3>2, ResultThere
    <3>4. rest.end = Len(s) + 1 /\ rest.out = "ok" /\ rest.val = <<x>>
        BY <3>3 DEF Answer
    <3>5. QED
        BY <2>2, <3>1, <3>4
  <2>3. CASE name = GET /\ name \notin link.methods
    <3>1. rest = Result(Len(s) + 1, <<>>)
        BY <1>5, <1>7, <1>9, <2>3, NamesDiffer
    <3>2. rest = Answer("missing result", Len(s) + 1, <<>>)
        BY <3>1 DEF Result
    <3>3. rest.end = Len(s) + 1 /\ rest.out = "missing result"
        BY <3>2 DEF Answer
    <3>4. QED
        BY <2>3, <3>3
  <2>4. QED
      BY <2>1, <2>2, <2>3
<1>10. CASE link.server = "java"
  <2>1. IsHeaderOf(h, 0, name, p)
    <3>1. CASE link.strict = TRUE
        BY <1>2, <1>6, <1>10, <3>1 DEF IsReplyRead
    <3>2. CASE link.strict = FALSE
        BY <1>2, <1>6, <1>10, <3>2 DEF IsReplyRead
    <3>3. QED
        BY <1>1, <3>1, <3>2
  <2>2. h.end = p
      BY <2>1 DEF IsHeaderOf
  <2>3. r = rest
    <3>1. PICK zero : zero = 0
        OBVIOUS
    <3>2. IsHeaderOf(h, zero, name, p)
        BY <2>1, <3>1
    <3>3. Headed(s, h, rest) = IF zero = T_EXCEPTION THEN AppException(s, p) ELSE rest
        BY <3>2, HeadedParts
    <3>4. QED
        BY <1>8, <3>1, <3>3, CallTypes
  <2>4. ~Refuses(link) /\ Loses(link) /\ SeenOf(link, b) = CMessages(WrittenOf(link, b))
      BY <1>10 DEF Refuses, Loses, SeenOf
  <2>5. QED
      BY <1>9, <2>2, <2>3, <2>4, NamesDiffer DEF IsReceived
<1>11. CASE link.server # "java" /\ link.strict = TRUE
  <2>1. h.error = "missing version"
      BY <1>2, <1>6, <1>11 DEF IsReplyRead
  <2>2. r.out = "missing version" /\ r.end = 5
      BY <1>8, <2>1, RefusedParts
  <2>3. Refuses(link)
      BY <1>1, <1>11 DEF Refuses
  <2>4. r.end <= Len(s) + 1
      BY <1>2, <1>4, <2>2, LongEnough
  <2>5. QED
      BY <2>2, <2>3, <2>4 DEF IsReceived
<1>12. CASE link.server # "java" /\ link.strict = FALSE
  <2>1. IsHeaderOf(h, type, name, p)
      BY <1>2, <1>3, <1>6, <1>12 DEF IsReplyRead
  <2>2. h.end = p
      BY <2>1 DEF IsHeaderOf
  <2>3. ~Refuses(link) /\ ~Loses(link) /\ SeenOf(link, b) = CMessages(WrittenOf(link, b))
      BY <1>12 DEF Refuses, Loses, SeenOf
  <2>4. CASE name \in link.methods
    <3>1. r = rest
        BY <1>3, <1>8, <2>1, <2>4, HeadedParts, CallTypes
    <3>2. QED
        BY <1>9, <2>2, <2>3, <2>4, <3>1 DEF IsReceived
  <2>5. CASE name \notin link.methods
    <3>1. r = AppException(s, p)
        BY <1>3, <1>8, <2>1, <2>5, HeadedParts
    <3>2. r.out = "exception" /\ r.end = Len(s) + 1
        BY <1>5, <3>1, ExceptionParts
    <3>3. QED
        BY <2>3, <2>5, <3>2 DEF IsReceived
  <2>6. QED
      BY <2>4, <2>5
<1>13. QED
    BY <1>1, <1>10, <1>11, <1>12

\* The client of c_glib.
LEMMA GlibReceived ==
    ASSUME link \in Links, link.lang = "glib", NEW name \in {ADD, GET}, NEW id, NEW b, NEW s,
           IsReply(link, s, name, id, b), NEW r,
           r = IF name = ADD THEN GlibRecvAdd(s) ELSE GlibRecvGet(s)
    PROVE  IsReceived(link, r, s, name, b)
<1>1. /\ link.scheme # "tuple" /\ link.server \in {"java", "cocoa"}
    BY LinksAssumption DEF Link
<1>2. PICK p \in Nat, w \in Seq(Byte) : IsReplyRead(link, s, name, id, b, p, w)
    BY ReplyRead
<1>3. PICK type : type = IF name \in link.methods THEN T_REPLY ELSE T_EXCEPTION
    OBVIOUS
<1>4. s \in Seq(Byte) /\ IsBody(link, w, name, b) /\ Holds(s, p, w) /\ Len(s) + 1 = p + Len(w)
    BY <1>2 DEF IsReplyRead
<1>5. /\ SkipType(s, T_STRUCT, p) = Len(s) + 1
      /\ name \in link.methods /\ name = GET =>
            GlibGetResultAt(s, p) = CMessages(WrittenOf(link, b))
  <2>1. SkipType(s, T_STRUCT, p) = Len(s) + 1
      BY <1>1, <1>4, BodyRead
  <2>2. name \in link.methods /\ name = GET =>
            GlibGetResultAt(s, p) = CMessages(WrittenOf(link, b))
      BY <1>1, <1>4, BodyRead
  <2>3. QED
      BY <2>1, <2>2
<1>6. PICK h : h = LibMessageBegin(TRUE, s, 1)
    OBVIOUS
<1>7. PICK val : val = IF name = ADD THEN <<>> ELSE <<GlibGetResultAt(s, h.end)>>
    OBVIOUS
<1>8. PICK rest : rest = Answer(IF h.name = name THEN "ok" ELSE "wrong method name",
                                SkipType(s, T_STRUCT, h.end),
                                IF h.name = name THEN val ELSE <<>>)
    OBVIOUS
<1>9. r = Headed(s, h, rest)
  <2>1. CASE name = ADD
      BY <1>6, <1>7, <1>8, <2>1 DEF GlibRecvAdd, GlibAnswer
  <2>2. CASE name = GET
      BY <1>6, <1>7, <1>8, <2>2, NamesDiffer DEF GlibRecvGet, GlibGot, GlibAnswer
  <2>3. QED
      BY <2>1, <2>2
<1>10. CASE link.server = "java"
  <2>1. IsHeaderOf(h, type, name, p)
      BY <1>2, <1>3, <1>6, <1>10 DEF IsReplyRead
  <2>2. h.end = p /\ h.name = name
      BY <2>1 DEF IsHeaderOf
  <2>3. ~Refuses(link) /\ ~Loses(link) /\ SeenOf(link, b) = CMessages(WrittenOf(link, b))
      BY <1>10 DEF Refuses, Loses, SeenOf
  <2>4. CASE name \in link.methods
    <3>1. r = rest
        BY <1>3, <1>9, <2>1, <2>4, HeadedParts, CallTypes
    <3>2. r.out = "ok" /\ r.end = Len(s) + 1 /\ r.val = val
        BY <1>5, <1>8, <2>2, <3>1, AnswerParts
    <3>3. name = GET => val = <<CMessages(WrittenOf(link, b))>>
        BY <1>5, <1>7, <2>2, <2>4, NamesDiffer
    <3>4. QED
        BY <2>3, <2>4, <3>2, <3>3 DEF IsReceived
  <2>5. CASE name \notin link.methods
    <3>1. r = AppException(s, p)
        BY <1>3, <1>9, <2>1, <2>5, HeadedParts
    <3>2. r.out = "exception" /\ r.end = Len(s) + 1
        BY <1>5, <3>1, ExceptionParts
    <3>3. QED
        BY <2>3, <2>5, <3>2 DEF IsReceived
  <2>6. QED
      BY <2>4, <2>5
<1>11. CASE link.server # "java"
  <2>1. h.error = "missing version"
      BY <1>2, <1>6, <1>11 DEF IsReplyRead
  <2>2. r.out = "missing version" /\ r.end = 5
      BY <1>9, <2>1, RefusedParts
  <2>3. Refuses(link)
      BY <1>1, <1>11 DEF Refuses
  <2>4. r.end <= Len(s) + 1
      BY <1>2, <1>4, <2>2, LongEnough
  <2>5. QED
      BY <2>2, <2>3, <2>4 DEF IsReceived
<1>12. QED
    BY <1>10, <1>11

\* The clients in Java.
LEMMA JavaReceived ==
    ASSUME link \in Links, link.lang \in {"java", "async"}, NEW name \in {ADD, GET}, NEW id,
           NEW b, NEW s, IsReply(link, s, name, id, b), NEW r,
           r = IF name = ADD THEN JavaRecvAdd(s, id) ELSE JavaRecvGet(s, id)
    PROVE  IsReceived(link, r, s, name, b)
<1>1. /\ link.server \in {"java", "cocoa"}
      /\ link.scheme = "tuple" => link.server = "java" /\ link.methods = {ADD, GET}
    BY LinksAssumption DEF Link
<1>2. PICK p \in Nat, w \in Seq(Byte) : IsReplyRead(link, s, name, id, b, p, w)
    BY ReplyRead
<1>3. PICK type : type = IF name \in link.methods THEN T_REPLY ELSE T_EXCEPTION
    OBVIOUS
<1>4. /\ s \in Seq(Byte) /\ IsBody(link, w, name, b) /\ Holds(s, p, w) /\ Len(s) + 1 = p + Len(w)
      /\ SeqidBefore(s, p) = id
    BY <1>2 DEF IsReplyRead
<1>5. PICK h : h = LibMessageBegin(FALSE, s, 1)
    OBVIOUS
<1>6. IsHeaderOf(h, type, name, p)
    BY <1>1, <1>2, <1>3, <1>5 DEF IsReplyRead
<1>7. h.end = p /\ h.name = name
    BY <1>6 DEF IsHeaderOf
<1>8. ~Refuses(link) /\ ~Loses(link) /\ SeenOf(link, b) = WrittenOf(link, b)
    BY DEF Refuses, Loses, SeenOf
<1>9. PICK rest :
          rest = IF name = ADD
                 THEN Answer("ok", IF link.scheme = "tuple" THEN p ELSE SkipType(s, T_STRUCT, p), <<>>)
                 ELSE IF link.scheme = "tuple"
                 THEN Result(AfterGetResultTuple(s, p), JavaGetResultTupleAt(s, p))
                 ELSE Result(SkipType(s, T_STRUCT, p), JavaGetResultAt(s, p))
    OBVIOUS
<1>10. r = Headed(s, h, rest)
  <2>1. CASE name = ADD
    <3>1. r = JavaRecv(s, h, id, rest)
        BY <1>5, <1>7, <1>9, <2>1 DEF JavaRecvAdd, JavaAdded
    <3>2. QED
        BY <1>4, <1>7, <3>1 DEF JavaRecv
  <2>2. CASE name = GET
    <3>1. r = JavaRecv(s, h, id, rest)
        BY <1>5, <1>7, <1>9, <2>2, NamesDiffer DEF JavaRecvGet, JavaGot
    <3>2. QED
        BY <1>4, <1>7, <3>1 DEF JavaRecv
  <2>3. QED
      BY <2>1, <2>2
<1>11. CASE name \in link.methods
  <2>1. r = rest
      BY <1>3, <1>6, <1>10, <1>11, HeadedParts, CallTypes
  <2>2. rest.out = "ok" /\ rest.end = Len(s) + 1
        /\ (name = GET => rest.val = <<WrittenOf(link, b)>>)
    <3>1. CASE link.scheme = "tuple"
      <4>1. WrittenOf(link, b) = b
          BY <1>1, <3>1 DEF WrittenOf
      <4>2. CASE name = ADD
        <5>1. w = <<>>
            BY <1>4, <1>11, <3>1, <4>2 DEF IsBody
        <5>2. Len(w) = 0
            BY <5>1
        <5>3. rest = Answer("ok", p, <<>>)
            BY <1>9, <3>1, <4>2
        <5>4. rest.out = "ok" /\ rest.end = p
            BY <5>3, AnswerParts
        <5>5. QED
            BY <1>4, <4>2, <5>2, <5>4, NamesDiffer
      <4>3. CASE name = GET
        <5>1. IsTupleResult(w, b)
            BY <1>11, <3>1, <4>3, NamesDiffer, <1>4 DEF IsBody
        <5>2. JavaGetResultTupleAt(s, p) = <<b>> /\ AfterGetResultTuple(s, p) = p + Len(w)
            BY <1>4, <5>1 DEF IsTupleResult
        <5>3. rest = Result(Len(s) + 1, <<b>>)
            BY <1>4, <1>9, <3>1, <4>3, <5>2, NamesDiffer
        <5>4. rest = Answer("ok", Len(s) + 1, <<b>>)
            BY <5>3, ResultThere
        <5>5. QED
            BY <4>1, <5>4, AnswerParts
      <4>4. QED
          BY <4>2, <4>3
    <3>2. CASE link.scheme # "tuple"
      <4>1. /\ SkipType(s, T_STRUCT, p) = Len(s) + 1
            /\ name = GET => JavaGetResultAt(s, p) = <<WrittenOf(link, b)>>
          BY <1>4, <1>11, <3>2, BodyRead, ZenonT(60)
      <4>2. CASE name = ADD
        <5>1. rest = Answer("ok", Len(s) + 1, <<>>)
            BY <1>9, <3>2, <4>1, <4>2
        <5>2. QED
            BY <4>2, <5>1, AnswerParts, NamesDiffer
      <4>3. CASE name = GET
        <5>1. PICK x : x = WrittenOf(link, b)
            OBVIOUS
        <5>2. rest = Result(Len(s) + 1, <<x>>)
            BY <1>9, <3>2, <4>1, <4>3, <5>1, NamesDiffer
        <5>3. rest = Answer("ok", Len(s) + 1, <<x>>)
            BY <5>2, ResultThere
        <5>4. QED
            BY <5>1, <5>3, AnswerParts
      <4>4. QED
          BY <4>2, <4>3
    <3>3. QED
        BY <3>1, <3>2
  <2>3. QED
      BY <1>8, <1>11, <2>1, <2>2 DEF IsReceived
<1>12. CASE name \notin link.methods
  <2>1. link.scheme # "tuple"
      BY <1>1, <1>12
  <2>2. r = AppException(s, p)
      BY <1>3, <1>6, <1>10, <1>12, HeadedParts
  <2>3. SkipType(s, T_STRUCT, p) = Len(s) + 1
      BY <1>4, <2>1, BodyRead
  <2>4. r.out = "exception" /\ r.end = Len(s) + 1
      BY <2>2, <2>3, ExceptionParts
  <2>5. QED
      BY <1>8, <1>12, <2>4 DEF IsReceived
<1>13. QED
    BY <1>11, <1>12

\* Any client.
LEMMA ReplyReceived ==
    ASSUME link \in Links, call.name \in {ADD, GET}, link.lang # "java" => seqid = 0,
           NEW b, NEW s, IsReply(link, s, call.name, seqid, b)
    PROVE  IsReceived(link, Received(s), s, call.name, b)
<1>1. link.lang \in {"cocoa", "glib", "java", "async"}
    BY LinksAssumption DEF Link
<1>2. CASE link.lang = "cocoa"
    BY <1>2, CocoaReceived DEF Received
<1>3. CASE link.lang = "glib"
    BY <1>3, GlibReceived DEF Received
<1>4. CASE link.lang \in {"java", "async"}
  <2>1. ExpectedId = seqid
      BY <1>4 DEF ExpectedId
  <2>2. Received(s) = IF call.name = ADD THEN JavaRecvAdd(s, seqid) ELSE JavaRecvGet(s, seqid)
      BY <1>4, <2>1 DEF Received
  <2>3. QED
      BY <1>4, <2>2, JavaReceived
<1>5. QED
    BY <1>1, <1>2, <1>3, <1>4

-----------------------------------------------------------------------------
(* The adds and the board.                                                  *)

\* A call that is done.
Call == [name : {ADD, GET}, msg : ShortMessage, out : Outcomes, val : Results]

\* The messages of some of the calls, one by one and together.
KeptEach(k, d, calls) ==
    [i \in 1..Len(d) |-> IF i \in calls THEN <<KeptOf(k, d[i].msg)>> ELSE <<>>]
KeptAll(k, d, calls) == FlattenSeq(KeptEach(k, d, calls))

\* The first n parts are the same.
SameParts(ss, tt, n) == \A i \in 1..n : tt[i] = ss[i]

\* The parts tt together are those of ss and the last.
FlatMore(tt, ss, m, S) ==
    FlattenSeq(tt) = FlattenSeq(ss) \o tt[m] /\ FlattenSeq(ss) \in Seq(S)

\* What a call that is done adds to them.
LEMMA FlattenAppended ==
    ASSUME NEW S, NEW n \in Nat, NEW m \in Nat, m = n + 1,
           NEW ss \in [1..n -> Seq(S)], NEW tt \in [1..m -> Seq(S)],
           SameParts(ss, tt, n)
    PROVE  FlatMore(tt, ss, m, S)
<1>1. PICK F \in [0..n -> Seq(S)] : Flattened(F, n, ss)
    BY FlattenSteps
<1>2. PICK H \in [0..m -> Seq(S)] : Flattened(H, m, tt)
    BY FlattenSteps
<1>3. /\ F[0] = <<>> /\ H[0] = <<>>
      /\ \A k \in 1..n : F[k] = F[k - 1] \o ss[k]
      /\ \A k \in 1..m : H[k] = H[k - 1] \o tt[k]
      /\ FlattenSeq(ss) = F[n] /\ FlattenSeq(tt) = H[m]
    BY <1>1, <1>2 DEF Flattened
<1>4. DEFINE T == {k \in 0..n : H[k] = F[k]}
<1>5. 0 \in T
    BY <1>3
<1>6. ASSUME NEW k \in 0..(n - 1), k \in T
      PROVE  k + 1 \in T
  <2>1. PICK j \in 1..n : j = k + 1 /\ j \in 1..m /\ j \in 0..n /\ j - 1 = k
      OBVIOUS
  <2>2. F[j] = F[j - 1] \o ss[j]
      BY <1>3
  <2>3. H[j] = H[j - 1] \o tt[j]
      BY <1>3, <2>1
  <2>4. H[j] = F[j]
    <3>1. H[k] = F[k] /\ tt[j] = ss[j]
        BY <1>6 DEF SameParts
    <3>2. QED
        BY <2>1, <2>2, <2>3, <3>1
  <2>5. QED
      BY <2>1, <2>4
<1>7. T \in SUBSET (0..n)
    OBVIOUS
<1> HIDE DEF T
<1>8. T = 0..n
    BY <1>5, <1>6, <1>7, OneByte, G!InductionUpTo
<1>9. H[n] = F[n]
  <2>1. n \in T
      BY <1>8
  <2>2. QED
      BY <2>1 DEF T
<1>10. m \in 1..m /\ m - 1 = n
    OBVIOUS
<1>11. H[m] = H[n] \o tt[m]
    BY <1>3, <1>10
<1>12. F[n] \in Seq(S)
    OBVIOUS
<1>13. QED
    BY <1>3, <1>9, <1>11, <1>12 DEF FlatMore

\* The parts ss of the messages kept.
AreKept(ss, k, d, calls, n) ==
    /\ ss \in [1..n -> Seq(ShortMessage)]
    /\ \A i \in 1..n : ss[i] = IF i \in calls THEN <<KeptOf(k, d[i].msg)>> ELSE <<>>

\* The messages kept of calls.
LEMMA KeptEachType ==
    ASSUME NEW k, NEW n \in Nat, NEW d, n = Len(d), NEW calls,
           \A i \in 1..n : KeptOf(k, d[i].msg) \in ShortMessage
    PROVE  AreKept(KeptEach(k, d, calls), k, d, calls, n)
<1>1. PICK S : S = ShortMessage
    OBVIOUS
<1>2. ASSUME NEW i \in 1..n
      PROVE  (IF i \in calls THEN <<KeptOf(k, d[i].msg)>> ELSE <<>>) \in Seq(S)
  <2>1. PICK x \in S : x = KeptOf(k, d[i].msg)
      BY <1>1
  <2>2. <<x>> \in Seq(S) /\ <<>> \in Seq(S)
      OBVIOUS
  <2>3. QED
      BY <2>1, <2>2
<1>3. /\ KeptEach(k, d, calls) \in [1..n -> Seq(S)]
      /\ \A i \in 1..n : KeptEach(k, d, calls)[i]
                         = IF i \in calls THEN <<KeptOf(k, d[i].msg)>> ELSE <<>>
    BY <1>2 DEF KeptEach
<1>4. QED
    BY <1>1, <1>3 DEF AreKept


\* The sequence e of m elements is d and c.
IsMore(e, d, c, n, m) ==
    /\ e = Append(d, c) /\ Len(e) = m /\ e[m] = c
    /\ m = n + 1 /\ n = Len(d) /\ n \in Nat /\ m \in Nat
    /\ \A i \in 1..n : e[i] = d[i]

\* A sequence with one element more.
LEMMA OneMore ==
    ASSUME NEW S, NEW d \in Seq(S), NEW c \in S
    PROVE  \E e \in Seq(S), n \in Nat, m \in Nat : IsMore(e, d, c, n, m)
<1>1. PICK n \in Nat, m \in Nat : n = Len(d) /\ m = n + 1
    OBVIOUS
<1>2. PICK e : e = Append(d, c)
    OBVIOUS
<1>3. e \in Seq(S) /\ Len(e) = n + 1
    BY <1>1, <1>2
<1>4. e[n + 1] = c /\ \A i \in 1..n : e[i] = d[i]
    BY <1>1, <1>2
<1>5. IsMore(e, d, c, n, m)
    BY <1>1, <1>2, <1>3, <1>4 DEF IsMore
<1>6. QED
    BY <1>3, <1>5

\* What is kept of a short message is short.
KeepsShort(k) == \A m \in ShortMessage : KeptOf(k, m) \in ShortMessage

\* The message of a call is short.
LEMMA CallIsShort == \A c \in Call : c.msg \in ShortMessage
BY DEF Call

\* What a call more adds to the messages kept.
Grows(k, d, e, c, calls, m) ==
    /\ KeptAll(k, d, calls) \in Seq(ShortMessage)
    /\ KeptAll(k, e, calls)
       = KeptAll(k, d, calls) \o (IF m \in calls THEN <<KeptOf(k, c.msg)>> ELSE <<>>)

\* One call more.
LEMMA KeptAppended ==
    ASSUME NEW k, NEW d \in Seq(Call), NEW c \in Call, NEW calls, KeepsShort(k),
           NEW e \in Seq(Call), NEW n \in Nat, NEW m \in Nat, IsMore(e, d, c, n, m)
    PROVE  Grows(k, d, e, c, calls, m)
<1>1. n \in Nat /\ n = Len(d) /\ m \in Nat /\ m = n + 1
    BY DEF IsMore
<1>2. Len(e) = m /\ e[m] = c /\ \A i \in 1..n : e[i] = d[i]
    BY DEF IsMore
<1>3. PICK ss, tt : ss = KeptEach(k, d, calls) /\ tt = KeptEach(k, e, calls)
    OBVIOUS
<1>4. \A i \in 1..n : KeptOf(k, d[i].msg) \in ShortMessage
  <2>1. \A i \in 1..n : d[i] \in Call
      BY <1>1
  <2>2. \A i \in 1..n : d[i].msg \in ShortMessage
      BY <2>1, CallIsShort
  <2>3. QED
      BY <2>2 DEF KeepsShort
<1>5. \A i \in 1..m : KeptOf(k, e[i].msg) \in ShortMessage
  <2>1. \A i \in 1..m : e[i] \in Call
      BY <1>2
  <2>2. \A i \in 1..m : e[i].msg \in ShortMessage
      BY <2>1, CallIsShort
  <2>3. QED
      BY <2>2 DEF KeepsShort
<1>6. /\ ss \in [1..n -> Seq(ShortMessage)]
      /\ \A i \in 1..n : ss[i] = IF i \in calls THEN <<KeptOf(k, d[i].msg)>> ELSE <<>>
  <2>1. AreKept(ss, k, d, calls, n)
      BY <1>1, <1>3, <1>4, KeptEachType
  <2>2. QED
      BY <2>1 DEF AreKept
<1>7. /\ tt \in [1..m -> Seq(ShortMessage)]
      /\ \A i \in 1..m : tt[i] = IF i \in calls THEN <<KeptOf(k, e[i].msg)>> ELSE <<>>
  <2>1. AreKept(tt, k, e, calls, m)
      BY <1>1, <1>2, <1>3, <1>5, KeptEachType
  <2>2. QED
      BY <2>1 DEF AreKept
<1>8. \A i \in 1..n : tt[i] = ss[i]
  <2>1. ASSUME NEW i \in 1..n
        PROVE  tt[i] = ss[i]
    <3>1. i \in 1..m
        BY <1>1
    <3>2. e[i] = d[i]
        BY <1>2
    <3>3. QED
        BY <1>6, <1>7, <3>1, <3>2
  <2>2. QED
      BY <2>1
<1>9. FlattenSeq(tt) = FlattenSeq(ss) \o tt[m] /\ FlattenSeq(ss) \in Seq(ShortMessage)
  <2>1. PICK S : S = ShortMessage
      OBVIOUS
  <2>2. ss \in [1..n -> Seq(S)] /\ tt \in [1..m -> Seq(S)]
      BY <1>6, <1>7, <2>1
  <2>3. SameParts(ss, tt, n)
      BY <1>8 DEF SameParts
  <2>4. FlatMore(tt, ss, m, S)
      BY <1>1, <2>2, <2>3, FlattenAppended
  <2>5. QED
      BY <2>1, <2>4 DEF FlatMore
<1>10. tt[m] = IF m \in calls THEN <<KeptOf(k, c.msg)>> ELSE <<>>
  <2>1. m \in 1..m
      BY <1>1
  <2>2. QED
      BY <1>2, <1>7, <2>1
<1>11. KeptAll(k, d, calls) = FlattenSeq(ss) /\ KeptAll(k, e, calls) = FlattenSeq(tt)
    BY <1>3 DEF KeptAll
<1>12. QED
    BY <1>9, <1>10, <1>11 DEF Grows

\* Only which calls there are counts.
LEMMA KeptOfSame ==
    ASSUME NEW k, NEW d, NEW a, NEW b, \A i \in 1..Len(d) : i \in a <=> i \in b
    PROVE  KeptAll(k, d, a) = KeptAll(k, d, b)
<1>1. KeptEach(k, d, a) = KeptEach(k, d, b)
    BY DEF KeptEach
<1>2. QED
    BY <1>1 DEF KeptAll

\* The board b holds what these calls of d have added, and u; each add that
\* returned is one of them, unless the server has no add.
AreTheAdds(k, d, b, u, did) ==
    /\ \A i \in did : i \in 1..Len(d) /\ d[i].name = ADD /\ d[i].out \in {"ok", "failed"}
    /\ b = KeptAll(k, d, did) \o u
    /\ ADD \in k.methods => \A i \in 1..Len(d) : d[i].name = ADD /\ d[i].out = "ok" => i \in did
    /\ ADD \notin k.methods =>
          did = {} /\ \A i \in 1..Len(d) : d[i].name = ADD /\ d[i].out = "ok" => Loses(k)
IsTheAdds(k, d, b, u) == \E did : AreTheAdds(k, d, b, u, did)

\* The add that is answered.
AddOf(k, name, m) == IF name = ADD /\ ADD \in k.methods THEN <<KeptOf(k, m)>> ELSE <<>>

\* At first there is nothing.
LEMMA NoAdds ==
    ASSUME NEW k
    PROVE  IsTheAdds(k, <<>>, <<>>, <<>>)
<1>1. PICK d : d = <<>>
    OBVIOUS
<1>2. Len(d) = 0
    BY <1>1
<1>3. KeptAll(k, d, {}) = <<>>
  <2>1. KeptEach(k, d, {}) = <<>>
      BY <1>2 DEF KeptEach
  <2>2. KeptEach(k, d, {}) \in [1..0 -> Seq({})]
      BY <1>2 DEF KeptEach
  <2>3. PICK F \in [0..0 -> Seq({})] : Flattened(F, 0, KeptEach(k, d, {}))
      BY <2>2, FlattenSteps
  <2>4. QED
      BY <2>3 DEF Flattened, KeptAll
<1>4. <<>> \o <<>> = <<>>
    OBVIOUS
<1>5. \A i \in 1..Len(d) : FALSE
    BY <1>2
<1>6. AreTheAdds(k, d, d, d, {})
    BY <1>1, <1>3, <1>4, <1>5 DEF AreTheAdds
<1>7. QED
    BY <1>1, <1>6 DEF IsTheAdds

\* An answer changes the board and what is answered alike.
LEMMA AddAnswered ==
    ASSUME NEW k, NEW d \in Seq(Call), KeepsShort(k), NEW b, IsTheAdds(k, d, b, <<>>),
           NEW x \in Seq(ShortMessage)
    PROVE  IsTheAdds(k, d, b \o x, x)
<1>1. PICK did : AreTheAdds(k, d, b, <<>>, did)
    BY DEF IsTheAdds
<1>2. KeptAll(k, d, did) \in Seq(ShortMessage)
  <2>1. PICK n \in Nat : n = Len(d)
      OBVIOUS
  <2>2. \A i \in 1..n : KeptOf(k, d[i].msg) \in ShortMessage
    <3>1. \A i \in 1..n : d[i] \in Call
        BY <2>1
    <3>2. QED
        BY <3>1, CallIsShort DEF KeepsShort
  <2>3. PICK S : S = ShortMessage
      OBVIOUS
  <2>4. KeptEach(k, d, did) \in [1..n -> Seq(S)]
    <3>1. AreKept(KeptEach(k, d, did), k, d, did, n)
        BY <2>1, <2>2, KeptEachType
    <3>2. QED
        BY <2>3, <3>1 DEF AreKept
  <2>5. PICK F \in [0..n -> Seq(S)] : Flattened(F, n, KeptEach(k, d, did))
      BY <2>4, FlattenSteps
  <2>6. KeptAll(k, d, did) = F[n]
      BY <2>5 DEF Flattened, KeptAll
  <2>7. n \in 0..n
      OBVIOUS
  <2>8. QED
      BY <2>3, <2>5, <2>6, <2>7
<1>3. b = KeptAll(k, d, did)
  <2>1. b = KeptAll(k, d, did) \o <<>>
      BY <1>1 DEF AreTheAdds
  <2>2. QED
      BY <1>2, <2>1, ConcatEmptySeq
<1>4. AreTheAdds(k, d, b \o x, x, did)
    BY <1>1, <1>3 DEF AreTheAdds
<1>5. QED
    BY <1>4 DEF IsTheAdds

\* The add that was answered is done, or may be: it is one of the calls now.
LEMMA AddDone ==
    ASSUME NEW k, NEW d \in Seq(Call), KeepsShort(k), NEW c \in Call,
           ADD \in k.methods, c.name = ADD, c.out \in {"ok", "failed"},
           NEW b, IsTheAdds(k, d, b, <<KeptOf(k, c.msg)>>)
    PROVE  IsTheAdds(k, Append(d, c), b, <<>>)
<1>1. PICK x \in ShortMessage : x = KeptOf(k, c.msg)
    BY CallIsShort DEF KeepsShort
<1>2. PICK did : AreTheAdds(k, d, b, <<x>>, did)
    BY <1>1 DEF IsTheAdds
<1>3. PICK e \in Seq(Call), n \in Nat, m \in Nat : IsMore(e, d, c, n, m)
    BY OneMore
<1>4. /\ e = Append(d, c) /\ Len(e) = m /\ e[m] = c /\ \A i \in 1..n : e[i] = d[i]
      /\ n = Len(d) /\ m = n + 1
    BY <1>3 DEF IsMore
<1>5. PICK now : now = did \cup {m}
    OBVIOUS
<1>6. KeptAll(k, d, now) = KeptAll(k, d, did)
  <2>1. \A i \in 1..Len(d) : i \in now <=> i \in did
      BY <1>4, <1>5
  <2>2. QED
      BY <2>1, KeptOfSame
<1>7. /\ KeptAll(k, d, now) \in Seq(ShortMessage)
      /\ KeptAll(k, e, now) = KeptAll(k, d, now) \o <<x>>
  <2>1. Grows(k, d, e, c, now, m)
      BY <1>3, KeptAppended
  <2>2. /\ KeptAll(k, d, now) \in Seq(ShortMessage)
        /\ KeptAll(k, e, now)
           = KeptAll(k, d, now) \o (IF m \in now THEN <<KeptOf(k, c.msg)>> ELSE <<>>)
      BY <2>1 DEF Grows
  <2>3. m \in now
      BY <1>5
  <2>4. QED
      BY <1>1, <2>2, <2>3
<1>8. b = KeptAll(k, e, now)
    BY <1>2, <1>6, <1>7 DEF AreTheAdds
<1>9. b = KeptAll(k, e, now) \o <<>>
  <2>1. PICK y \in Seq(ShortMessage) : y = KeptAll(k, d, now)
      BY <1>7
  <2>2. y \o <<x>> \in Seq(ShortMessage)
      OBVIOUS
  <2>3. KeptAll(k, e, now) \in Seq(ShortMessage)
      BY <1>7, <2>1, <2>2
  <2>4. QED
      BY <1>8, <2>3, ConcatEmptySeq
<1>10. AreTheAdds(k, e, b, <<>>, now)
  <2>1. \A i \in now : i \in 1..Len(e) /\ e[i].name = ADD /\ e[i].out \in {"ok", "failed"}
    <3>1. ASSUME NEW i \in did
          PROVE  i \in 1..m /\ e[i].name = ADD /\ e[i].out \in {"ok", "failed"}
      <4>1. i \in 1..n /\ d[i].name = ADD /\ d[i].out \in {"ok", "failed"}
          BY <1>2, <1>4 DEF AreTheAdds
      <4>2. i \in 1..m
          BY <1>4, <4>1
      <4>3. e[i] = d[i]
          BY <1>4, <4>1
      <4>4. QED
          BY <4>1, <4>2, <4>3
    <3>2. m \in 1..m /\ e[m].name = ADD /\ e[m].out \in {"ok", "failed"}
        BY <1>4
    <3>3. QED
        BY <1>4, <1>5, <3>1, <3>2
  <2>2. ASSUME NEW i \in 1..Len(e), e[i].name = ADD, e[i].out = "ok"
        PROVE  i \in now
    <3>1. CASE i = m
        BY <1>5, <3>1
    <3>2. CASE i # m
      <4>1. i \in 1..n
          BY <1>4, <3>2
      <4>2. d[i].name = ADD /\ d[i].out = "ok"
          BY <1>4, <2>2, <4>1
      <4>3. i \in did
          BY <1>2, <1>4, <4>1, <4>2 DEF AreTheAdds
      <4>4. QED
          BY <1>5, <4>3
    <3>3. QED
        BY <3>1, <3>2
  <2>3. QED
      BY <1>9, <2>1, <2>2 DEF AreTheAdds
<1>11. QED
    BY <1>4, <1>10 DEF IsTheAdds

\* A call that adds nothing.
LEMMA NothingDone ==
    ASSUME NEW k, NEW d \in Seq(Call), KeepsShort(k), NEW c \in Call,
           c.name = ADD /\ c.out = "ok" => ADD \notin k.methods /\ Loses(k),
           NEW b, IsTheAdds(k, d, b, <<>>)
    PROVE  IsTheAdds(k, Append(d, c), b, <<>>)
<1>1. PICK did : AreTheAdds(k, d, b, <<>>, did)
    BY DEF IsTheAdds
<1>2. PICK e \in Seq(Call), n \in Nat, m \in Nat : IsMore(e, d, c, n, m)
    BY OneMore
<1>3. /\ e = Append(d, c) /\ Len(e) = m /\ e[m] = c /\ \A i \in 1..n : e[i] = d[i]
      /\ n = Len(d) /\ m = n + 1
    BY <1>2 DEF IsMore
<1>4. m \notin did
    BY <1>1, <1>3 DEF AreTheAdds
<1>5. /\ KeptAll(k, d, did) \in Seq(ShortMessage)
      /\ KeptAll(k, e, did) = KeptAll(k, d, did) \o <<>>
  <2>1. Grows(k, d, e, c, did, m)
      BY <1>2, KeptAppended
  <2>2. /\ KeptAll(k, d, did) \in Seq(ShortMessage)
        /\ KeptAll(k, e, did)
           = KeptAll(k, d, did) \o (IF m \in did THEN <<KeptOf(k, c.msg)>> ELSE <<>>)
      BY <2>1 DEF Grows
  <2>3. QED
      BY <1>4, <2>2
<1>6. KeptAll(k, e, did) = KeptAll(k, d, did)
    BY <1>5, ConcatEmptySeq
<1>7. b = KeptAll(k, e, did) \o <<>>
    BY <1>1, <1>6 DEF AreTheAdds
<1>8. \A i \in did : i \in 1..Len(e) /\ e[i].name = ADD /\ e[i].out \in {"ok", "failed"}
  <2>1. ASSUME NEW i \in did
        PROVE  i \in 1..m /\ e[i].name = ADD /\ e[i].out \in {"ok", "failed"}
    <3>1. i \in 1..n /\ d[i].name = ADD /\ d[i].out \in {"ok", "failed"}
        BY <1>1, <1>3 DEF AreTheAdds
    <3>2. i \in 1..m
        BY <1>3, <3>1
    <3>3. e[i] = d[i]
        BY <1>3, <3>1
    <3>4. QED
        BY <3>1, <3>2, <3>3
  <2>2. QED
      BY <1>3, <2>1
<1>9. ASSUME NEW i \in 1..Len(e), e[i].name = ADD, e[i].out = "ok"
      PROVE  \/ i = m /\ ADD \notin k.methods /\ Loses(k)
             \/ i \in 1..Len(d) /\ d[i].name = ADD /\ d[i].out = "ok"
  <2>1. CASE i = m
      BY <1>3, <1>9, <2>1
  <2>2. CASE i # m
    <3>1. i \in 1..n
        BY <1>3, <2>2
    <3>2. d[i].name = ADD /\ d[i].out = "ok"
        BY <1>3, <1>9, <3>1
    <3>3. QED
        BY <1>3, <3>1, <3>2
  <2>3. QED
      BY <2>1, <2>2
<1>10. AreTheAdds(k, e, b, <<>>, did)
  <2>1. CASE ADD \in k.methods
      BY <1>1, <1>7, <1>8, <1>9, <2>1 DEF AreTheAdds
  <2>2. CASE ADD \notin k.methods
      BY <1>1, <1>7, <1>8, <1>9, <2>2 DEF AreTheAdds
  <2>3. QED
      BY <2>1, <2>2
<1>11. QED
    BY <1>3, <1>10 DEF IsTheAdds

-----------------------------------------------------------------------------
(* The invariant.                                                           *)

\* A board of a server that cuts texts at their first zero byte.
IsCut(b) == \A i \in 1..Len(b) : CMessage(b[i]) = b[i]

\* No call of d was refused.
NoneOf(d) == \A i \in DOMAIN d : d[i].out \notin Refusals

Typed ==
    /\ link \in Links /\ pc \in {"idle", "sent", "answered"}
    /\ out \in Seq(Byte) /\ inp \in Seq(Byte) /\ seqid \in Nat
    /\ board \in Seq(ShortMessage)
    /\ call.name \in {ADD, GET} /\ call.msg \in ShortMessage
    /\ done \in Seq(Call)
Counted ==
    /\ link.lang # "java" => seqid = 0
    /\ seqid <= Len(done) + (IF pc = "idle" THEN 0 ELSE 1)
    /\ Len(board) <= Len(done) + (IF pc = "answered" THEN 1 ELSE 0)
    /\ Len(done) + (IF pc = "idle" THEN 0 ELSE 1) <= MaxCalls
Asked == /\ pc = "sent" => IsRequest(link, out, call.name, call.msg, seqid)
         /\ pc # "sent" => out = <<>>
Answered == NoneOf(done) => /\ pc = "answered" => IsReply(link, inp, call.name, seqid, board)
                            /\ pc # "answered" => inp = <<>>
Cut == link.server = "cocoa" => IsCut(board)
RefusedRightly == \A i \in 1..Len(done) : done[i].out \in Refusals => Refuses(link)
Added == NoneOf(done) =>
    /\ pc = "answered" => IsTheAdds(link, done, board, AddOf(link, call.name, call.msg))
    /\ pc # "answered" => IsTheAdds(link, done, board, <<>>)
Got == (pc = "idle" /\ NoneOf(done) /\ done # <<>>
           /\ Last(done).name = GET /\ Last(done).out = "ok") =>
       Last(done).val = <<SeenOf(link, board)>>
WInv == Typed /\ Counted /\ Asked /\ Answered /\ Cut /\ RefusedRightly /\ Added /\ Got

-----------------------------------------------------------------------------
(* What its parts need.                                                     *)

\* A board and what is added to it.
LEMMA BoardAppended ==
    ASSUME NEW b \in Seq(ShortMessage), NEW x \in Seq(ShortMessage)
    PROVE  /\ b \o x \in Seq(ShortMessage) /\ Len(b \o x) = Len(b) + Len(x)
           /\ IsCut(b) /\ IsCut(x) => IsCut(b \o x)
<1>1. PICK n \in Nat, m \in Nat : n = Len(b) /\ m = Len(x)
    OBVIOUS
<1>2. PICK c : c = b \o x
    OBVIOUS
<1>3. /\ c \in Seq(ShortMessage) /\ Len(c) = n + m
      /\ \A i \in 1..(n + m) : c[i] = IF i <= n THEN b[i] ELSE x[i - n]
    BY <1>1, <1>2
<1>4. ASSUME IsCut(b), IsCut(x), NEW i \in 1..(n + m)
      PROVE  CMessage(c[i]) = c[i]
  <2>1. CASE i <= n
    <3>1. i \in 1..n /\ c[i] = b[i]
        BY <1>3, <2>1
    <3>2. CMessage(b[i]) = b[i]
        BY <1>1, <1>4, <3>1 DEF IsCut
    <3>3. QED
        BY <3>1, <3>2
  <2>2. CASE ~(i <= n)
    <3>1. PICK j \in 1..m : j = i - n
        BY <2>2
    <3>2. c[i] = x[j]
        BY <1>3, <2>2, <3>1
    <3>3. CMessage(x[j]) = x[j]
        BY <1>1, <1>4 DEF IsCut
    <3>4. QED
        BY <3>2, <3>3
  <2>3. QED
      BY <2>1, <2>2
<1>5. IsCut(b) /\ IsCut(x) => IsCut(c)
    BY <1>3, <1>4 DEF IsCut
<1>6. QED
    BY <1>1, <1>2, <1>3, <1>5

\* What is kept of an add.
LEMMA AddOfType ==
    ASSUME link \in Links, NEW name, NEW m \in ShortMessage
    PROVE  /\ AddOf(link, name, m) \in Seq(ShortMessage) /\ Len(AddOf(link, name, m)) <= 1
           /\ link.server = "cocoa" => IsCut(AddOf(link, name, m))
<1>1. PICK x \in ShortMessage : x = KeptOf(link, m)
                                /\ (link.server = "cocoa" => CMessage(x) = x)
    BY KeptIsPromised
<1>2. CASE AddOf(link, name, m) = <<x>>
  <2>1. <<x>> \in Seq(ShortMessage) /\ Len(<<x>>) = 1 /\ <<x>>[1] = x
      OBVIOUS
  <2>2. link.server = "cocoa" => IsCut(<<x>>)
      BY <1>1, <2>1 DEF IsCut
  <2>3. QED
      BY <1>2, <2>1, <2>2
<1>3. CASE AddOf(link, name, m) = <<>>
  <2>1. <<>> \in Seq(ShortMessage) /\ Len(<<>>) = 0
      OBVIOUS
  <2>2. IsCut(<<>>)
      BY <2>1 DEF IsCut
  <2>3. QED
      BY <1>3, <2>1, <2>2
<1>4. QED
    BY <1>1, <1>2, <1>3 DEF AddOf

\* Every server keeps short messages.
LEMMA ServersKeepShort ==
    ASSUME link \in Links
    PROVE  KeepsShort(link)
BY KeptIsPromised DEF KeepsShort

\* Requests and answers are bytes.
LEMMA TheyAreBytes ==
    ASSUME NEW k, NEW s, NEW name, NEW id
    PROVE  /\ \A m : IsRequest(k, s, name, m, id) => s \in Seq(Byte)
           /\ \A b : IsReply(k, s, name, id, b) => s \in Seq(Byte)
<1>1. ASSUME NEW m, IsRequest(k, s, name, m, id)
      PROVE  s \in Seq(Byte)
    BY <1>1, RequestRead DEF IsRead
<1>2. ASSUME NEW b, IsReply(k, s, name, id, b)
      PROVE  s \in Seq(Byte)
    BY <1>2, ReplyRead DEF IsReplyRead
<1>3. QED
    BY <1>1, <1>2

\* The answer to an add does not depend on the board.
LEMMA ReplyOfAdd ==
    ASSUME NEW k, NEW s, NEW name, NEW id, NEW b, NEW c, IsReply(k, s, name, id, b),
           name = ADD
    PROVE  IsReply(k, s, name, id, c)
<1>1. \A w : IsBody(k, w, name, b) <=> IsBody(k, w, name, c)
    BY DEF IsBody
<1>2. QED
    BY <1>1 DEF IsReply

\* Numbers of calls are numbers of four bytes.
LEMMA CallsAreFew ==
    ASSUME NEW n \in Nat, n <= MaxCalls
    PROVE  n <= MaxI32
<1>1. PICK big \in Nat : big = MaxI32
    BY MaxI32Type
<1>2. MaxCalls \in 0..big
    BY <1>1, MaxCallsAssumption
<1>3. QED
    BY <1>1, <1>2

\* What is read to its end is gone.
LEMMA NothingLeft ==
    ASSUME NEW s \in Seq(Byte), NEW e, e = Len(s) + 1
    PROVE  SubSeq(s, e, Len(s)) = <<>> /\ Complete(s, e)
<1>1. PICK n \in Nat : n = Len(s)
    OBVIOUS
<1>2. PICK m \in Int : m = n + 1 /\ n < m
    OBVIOUS
<1>3. SubSeq(s, m, n) = <<>>
    BY <1>2, SubSeqEmpty
<1>4. e = m /\ e <= n + 1
    BY <1>1, <1>2
<1>5. QED
    BY <1>1, <1>3, <1>4 DEF Complete

\* The invariant holds at first.
LEMMA InvInit == Init => WInv
<1> SUFFICES ASSUME Init PROVE WInv
    OBVIOUS
<1>1. NoMessage \in ShortMessage
  <2>1. <<>> \in Fields
      BY UnsetField
  <2>2. NoMessage \in Message
      BY <2>1 DEF NoMessage, Message
  <2>3. Short(NoMessage.text) /\ Short(NoMessage.date)
      BY DEF NoMessage, Short
  <2>4. QED
      BY <2>2, <2>3 DEF ShortMessage
<1>2. Typed
    BY <1>1 DEF Init, Typed
<1>3. PICK d : d = done /\ d = <<>> /\ Len(d) = 0
    BY DEF Init
<1>4. Counted
  <2>1. MaxCalls >= 0 /\ MaxCalls \in Int
    <3>1. PICK big \in Nat : big = MaxI32
        BY MaxI32Type
    <3>2. MaxCalls \in 0..big
        BY <3>1, MaxCallsAssumption
    <3>3. QED
        BY <3>2
  <2>2. Len(board) = 0 /\ seqid = 0 /\ pc = "idle" /\ Len(done) = 0
      BY <1>3 DEF Init
  <2>3. QED
      BY <2>1, <2>2 DEF Counted
<1>5. Asked /\ Answered
    BY DEF Init, Asked, Answered
<1>6. Cut
  <2>1. Len(board) = 0
      BY DEF Init
  <2>2. QED
      BY <2>1 DEF Cut, IsCut
<1>7. RefusedRightly
    BY <1>3 DEF RefusedRightly
<1>8. Added
  <2>1. IsTheAdds(link, <<>>, <<>>, <<>>)
      BY NoAdds
  <2>2. QED
      BY <2>1 DEF Init, Added
<1>9. Got
    BY <1>3 DEF Got
<1>10. QED
    BY <1>2, <1>4, <1>5, <1>6, <1>7, <1>8, <1>9 DEF WInv

-----------------------------------------------------------------------------
(* The steps.                                                               *)

\* A call is sent.
LEMMA InvSend ==
    ASSUME WInv, NEW name \in {ADD, GET}, NEW m \in ShortMessage, Send(name, m)
    PROVE  WInv'
<1>1. Typed /\ Counted /\ Asked /\ Answered /\ Cut /\ RefusedRightly /\ Added
    BY DEF WInv
<1>2. /\ pc = "idle" /\ Len(done) < MaxCalls /\ out' = out \o Request(name, m, NextId)
      /\ seqid' = NextId /\ pc' = "sent" /\ call' = [name |-> name, msg |-> m]
      /\ link' = link /\ inp' = inp /\ board' = board /\ done' = done
    BY DEF Send
<1>3. call'.name = name /\ call'.msg = m
    BY <1>2
<1>4. PICK n \in Nat, k \in Nat, i \in Nat :
          n = Len(done) /\ k = Len(board) /\ i = seqid
    BY <1>1 DEF Typed
<1>5. MaxCalls \in Nat
  <2>1. PICK big \in Nat : big = MaxI32
      BY MaxI32Type
  <2>2. MaxCalls \in 0..big
      BY <2>1, MaxCallsAssumption
  <2>3. QED
      BY <2>2
<1>6. i <= n /\ k <= n /\ n + 1 <= MaxCalls
    BY <1>1, <1>2, <1>4, <1>5 DEF Counted
<1>7. PICK id \in Nat : id = NextId /\ id <= n + 1 /\ (link.lang # "java" => id = 0)
  <2>1. CASE link.lang = "java"
      BY <1>4, <1>6, <2>1 DEF NextId
  <2>2. CASE link.lang # "java"
      BY <1>6, <2>2 DEF NextId
  <2>3. QED
      BY <2>1, <2>2
<1>8. id <= MaxI32
  <2>1. id <= MaxCalls
      BY <1>5, <1>6, <1>7
  <2>2. QED
      BY <2>1, CallsAreFew
<1>9. PICK s : s = Request(name, m, id) /\ IsRequest(link, s, name, m, id)
    BY <1>1, <1>7, <1>8, RequestWritten DEF Typed
<1>10. s \in Seq(Byte) /\ out' = s
  <2>1. s \in Seq(Byte)
      BY <1>9, TheyAreBytes
  <2>2. out = <<>> /\ out' = out \o s
      BY <1>1, <1>2, <1>7, <1>9 DEF Asked
  <2>3. <<>> \o s = s
      BY <2>1, ConcatEmptySeq
  <2>4. QED
      BY <2>1, <2>2, <2>3
<1>11. Typed'
    BY <1>1, <1>2, <1>3, <1>7, <1>10 DEF Typed
<1>12. Counted'
  <2>1. Len(done)' = n /\ Len(board)' = k /\ seqid' = id /\ pc' = "sent" /\ link' = link
      BY <1>2, <1>4, <1>7
  <2>2. QED
      BY <1>5, <1>6, <1>7, <2>1 DEF Counted
<1>13. Asked'
    BY <1>2, <1>3, <1>7, <1>9, <1>10 DEF Asked
<1>14. Answered'
    BY <1>1, <1>2 DEF Answered
<1>15. Cut' /\ RefusedRightly'
    BY <1>1, <1>2 DEF Cut, RefusedRightly
<1>16. Added'
    BY <1>1, <1>2 DEF Added
<1>17. Got'
    BY <1>2 DEF Got
<1>18. QED
    BY <1>11, <1>12, <1>13, <1>14, <1>15, <1>16, <1>17 DEF WInv

\* What a server leaves of a call under way.
LEMMA SentIsProcessed ==
    ASSUME WInv, pc = "sent"
    PROVE  IsProcessed(link, Process(out), out, call.name, call.msg, seqid, board)
<1>1. Typed /\ Counted /\ Asked
    BY DEF WInv
<1>2. PICK n \in Nat, k \in Nat, i \in Nat :
          n = Len(done) /\ k = Len(board) /\ i = seqid
    BY <1>1 DEF Typed
<1>3. MaxCalls \in Nat
  <2>1. PICK big \in Nat : big = MaxI32
      BY MaxI32Type
  <2>2. MaxCalls \in 0..big
      BY <2>1, MaxCallsAssumption
  <2>3. QED
      BY <2>2
<1>4. i <= MaxCalls /\ k <= MaxCalls
    BY <1>1, <1>2, <1>3 DEF Counted
<1>5. seqid <= MaxI32 /\ Len(board) <= MaxI32
    BY <1>2, <1>4, CallsAreFew
<1>6. IsRequest(link, out, call.name, call.msg, seqid)
    BY <1>1 DEF Asked
<1>7. QED
    BY <1>1, <1>5, <1>6, RequestProcessed DEF Typed

\* What it does to the board.
LEMMA BoardAfter ==
    ASSUME WInv, pc = "sent", NEW r, r = Process(out)
    PROVE  /\ r.board = board \o AddOf(link, call.name, call.msg)
           /\ r.board \in Seq(ShortMessage) /\ Len(r.board) <= Len(board) + 1
           /\ link.server = "cocoa" => IsCut(r.board)
<1>1. IsProcessed(link, r, out, call.name, call.msg, seqid, board)
    BY SentIsProcessed
<1>2. PICK x : x = AddOf(link, call.name, call.msg)
    OBVIOUS
<1>3. r.board = board \o x
    BY <1>1, <1>2 DEF IsProcessed, AddOf
<1>4. link \in Links /\ board \in Seq(ShortMessage) /\ call.msg \in ShortMessage
    BY DEF WInv, Typed
<1>5. x \in Seq(ShortMessage) /\ Len(x) <= 1 /\ (link.server = "cocoa" => IsCut(x))
    BY <1>2, <1>4, AddOfType
<1>6. /\ board \o x \in Seq(ShortMessage) /\ Len(board \o x) = Len(board) + Len(x)
      /\ IsCut(board) /\ IsCut(x) => IsCut(board \o x)
    BY <1>4, <1>5, BoardAppended
<1>7. link.server = "cocoa" => IsCut(board)
    BY DEF WInv, Cut
<1>8. Len(board \o x) <= Len(board) + 1
  <2>1. PICK n \in Nat, m \in Nat : n = Len(board) /\ m = Len(x)
      BY <1>4, <1>5
  <2>2. QED
      BY <1>5, <1>6, <2>1
<1>9. QED
    BY <1>2, <1>3, <1>5, <1>6, <1>7, <1>8

\* A call is answered, on a connection or by HTTP.
LEMMA InvAnswer ==
    ASSUME WInv, pc = "sent", NEW r, r = Process(out), board' = r.board, out' = <<>>,
           pc' = "answered", inp' \in Seq(Byte), NoneOf(done) => inp' = r.reply,
           UNCHANGED <<link, seqid, call, done>>
    PROVE  WInv'
<1>1. Typed /\ Counted /\ Asked /\ Answered /\ Cut /\ RefusedRightly /\ Added
    BY DEF WInv
<1>2. link' = link /\ seqid' = seqid /\ call' = call /\ done' = done
    OBVIOUS
<1>3. PICK x : x = AddOf(link, call.name, call.msg)
    OBVIOUS
<1>4. /\ board' = board \o x /\ board' \in Seq(ShortMessage)
      /\ Len(board)' <= Len(board) + 1 /\ (link.server = "cocoa" => IsCut(board'))
    BY <1>3, BoardAfter
<1>5. IsProcessed(link, r, out, call.name, call.msg, seqid, board)
    BY SentIsProcessed
<1>6. Typed'
  <2>1. <<>> \in Seq(Byte)
      OBVIOUS
  <2>2. QED
      BY <1>1, <1>2, <1>4, <2>1 DEF Typed
<1>7. Counted'
  <2>1. PICK n \in Nat, k \in Nat, j \in Nat :
            n = Len(done) /\ k = Len(board) /\ j = Len(board')
      BY <1>1, <1>4 DEF Typed
  <2>2. j <= k + 1
      BY <1>4, <2>1
  <2>3. k <= n
      BY <1>1, <2>1 DEF Counted
  <2>4. Len(done)' = n /\ Len(board)' = j
      BY <1>2, <2>1
  <2>5. j <= n + 1
      BY <2>2, <2>3
  <2>6. QED
      BY <1>1, <1>2, <2>1, <2>4, <2>5 DEF Counted
<1>8. Asked'
    BY DEF Asked
<1>9. Answered'
  <2>1. ASSUME NoneOf(done)
        PROVE  IsReply(link, inp', call.name, seqid, board')
    <3>1. IsReply(link, inp', call.name, seqid, board)
        BY <1>5, <2>1 DEF IsProcessed
    <3>2. CASE call.name = ADD
        BY <3>1, <3>2, ReplyOfAdd
    <3>3. CASE call.name # ADD
      <4>1. x = <<>>
          BY <1>3, <3>3 DEF AddOf
      <4>2. board \o <<>> = board
          BY <1>1, NothingAdded DEF Typed
      <4>3. QED
          BY <1>4, <3>1, <4>1, <4>2
    <3>4. QED
        BY <3>2, <3>3
  <2>2. QED
      BY <1>2, <2>1 DEF Answered
<1>10. Cut'
    BY <1>2, <1>4 DEF Cut
<1>11. RefusedRightly'
    BY <1>1, <1>2 DEF RefusedRightly
<1>12. Added'
  <2>1. ASSUME NoneOf(done)
        PROVE  IsTheAdds(link, done, board', x)
    <3>1. IsTheAdds(link, done, board, <<>>)
        BY <1>1, <2>1 DEF Added
    <3>2. x \in Seq(ShortMessage) /\ KeepsShort(link) /\ done \in Seq(Call)
        BY <1>1, <1>3, AddOfType, ServersKeepShort DEF Typed
    <3>3. IsTheAdds(link, done, board \o x, x)
        BY <3>1, <3>2, AddAnswered
    <3>4. QED
        BY <1>4, <3>3
  <2>2. QED
      BY <1>2, <1>3, <2>1 DEF Added
<1>13. Got'
    BY DEF Got
<1>14. QED
    BY <1>6, <1>7, <1>8, <1>9, <1>10, <1>11, <1>12, <1>13 DEF WInv

\* A server answers on its connection.
LEMMA InvServe == WInv /\ Serve => WInv'
<1> SUFFICES ASSUME WInv, Serve PROVE WInv'
    OBVIOUS
<1>1. PICK r : /\ r = Process(out) /\ out' = SubSeq(out, r.end, Len(out))
               /\ inp' = inp \o r.reply /\ board' = r.board
    BY DEF Serve
<1>2. pc = "sent" /\ pc' = "answered" /\ UNCHANGED <<link, seqid, call, done>>
    BY DEF Serve
<1>3. Typed /\ Asked /\ Answered
    BY DEF WInv
<1>4. IsProcessed(link, r, out, call.name, call.msg, seqid, board)
    BY <1>1, <1>2, SentIsProcessed
<1>5. r.end = Len(out) + 1 /\ IsReply(link, r.reply, call.name, seqid, board)
    BY <1>4 DEF IsProcessed
<1>6. out' = <<>>
    BY <1>1, <1>3, <1>5, NothingLeft DEF Typed
<1>7. r.reply \in Seq(Byte)
    BY <1>5, TheyAreBytes
<1>8. inp' \in Seq(Byte)
  <2>1. PICK a \in Seq(Byte), b \in Seq(Byte) : a = inp /\ b = r.reply
      BY <1>3, <1>7 DEF Typed
  <2>2. a \o b \in Seq(Byte)
      OBVIOUS
  <2>3. QED
      BY <1>1, <2>1, <2>2
<1>9. NoneOf(done) => inp' = r.reply
  <2>1. ASSUME NoneOf(done)
        PROVE  inp' = r.reply
    <3>1. inp = <<>>
        BY <1>2, <1>3, <2>1 DEF Answered
    <3>2. <<>> \o r.reply = r.reply
        BY <1>7, ConcatEmptySeq
    <3>3. QED
        BY <1>1, <3>1, <3>2
  <2>2. QED
      BY <2>1
<1>10. QED
    BY <1>1, <1>2, <1>6, <1>8, <1>9, InvAnswer

\* It answers a POST.
LEMMA InvHttpFlush == WInv /\ HttpFlush => WInv'
<1> SUFFICES ASSUME WInv, HttpFlush PROVE WInv'
    OBVIOUS
<1>1. PICK r : r = Process(out) /\ inp' = r.reply /\ board' = r.board
    BY DEF HttpFlush
<1>2. pc = "sent" /\ out' = <<>> /\ pc' = "answered" /\ UNCHANGED <<link, seqid, call, done>>
    BY DEF HttpFlush
<1>3. IsProcessed(link, r, out, call.name, call.msg, seqid, board)
    BY <1>1, <1>2, SentIsProcessed
<1>4. inp' \in Seq(Byte)
    BY <1>1, <1>3, TheyAreBytes DEF IsProcessed
<1>5. QED
    BY <1>1, <1>2, <1>4, InvAnswer

\* One call more is done.
IsDoneMore(e, d, c) ==
    /\ e \in Seq(Call) /\ Len(e) = Len(d) + 1 /\ Last(e) = c /\ e # <<>>
    /\ NoneOf(e) <=> NoneOf(d) /\ c.out \notin Refusals
    /\ \A i \in 1..Len(e) : e[i] = c \/ (i \in 1..Len(d) /\ e[i] = d[i])

\* It follows the others.
LEMMA DoneMore ==
    ASSUME NEW d \in Seq(Call), NEW c \in Call, NEW e, e = Append(d, c)
    PROVE  IsDoneMore(e, d, c)
<1>1. PICK g \in Seq(Call), n \in Nat, m \in Nat : IsMore(g, d, c, n, m)
    BY OneMore
<1>2. /\ g = e /\ Len(e) = m /\ e[m] = c /\ \A i \in 1..n : e[i] = d[i]
      /\ n = Len(d) /\ m = n + 1
    BY <1>1 DEF IsMore
<1>3. e \in Seq(Call) /\ e # <<>>
    BY <1>1, <1>2
<1>4. Last(e) = c
    BY <1>2 DEF Last
<1>5. \A i \in 1..m : e[i] = c \/ (i \in 1..n /\ e[i] = d[i])
  <2>1. ASSUME NEW i \in 1..m
        PROVE  e[i] = c \/ (i \in 1..n /\ e[i] = d[i])
    <3>1. CASE i = m
        BY <1>2, <3>1
    <3>2. CASE i # m
      <4>1. i \in 1..n
          BY <1>2, <3>2
      <4>2. QED
          BY <1>2, <4>1
    <3>3. QED
        BY <3>1, <3>2
  <2>2. QED
      BY <2>1
<1>6. DOMAIN e = 1..m /\ DOMAIN d = 1..n /\ m \in 1..m /\ \A i \in 1..n : i \in 1..m
    BY <1>2, <1>3
<1>7. NoneOf(e) <=> NoneOf(d) /\ c.out \notin Refusals
  <2>1. ASSUME NoneOf(e)
        PROVE  NoneOf(d) /\ c.out \notin Refusals
    <3>1. \A i \in 1..m : e[i].out \notin Refusals
        BY <1>6, <2>1 DEF NoneOf
    <3>2. \A i \in 1..n : d[i].out \notin Refusals
        BY <1>2, <1>6, <3>1
    <3>3. c.out \notin Refusals
        BY <1>2, <1>6, <3>1
    <3>4. QED
        BY <1>6, <3>2, <3>3 DEF NoneOf
  <2>2. ASSUME NoneOf(d), c.out \notin Refusals
        PROVE  NoneOf(e)
    <3>1. \A i \in 1..n : d[i].out \notin Refusals
        BY <1>6, <2>2 DEF NoneOf
    <3>2. \A i \in 1..m : e[i].out \notin Refusals
        BY <1>5, <2>2, <3>1
    <3>3. QED
        BY <1>6, <3>2 DEF NoneOf
  <2>3. QED
      BY <2>1, <2>2
<1>8. QED
    BY <1>2, <1>3, <1>4, <1>5, <1>7 DEF IsDoneMore

\* A call ends.
LEMMA InvEnd ==
    ASSUME WInv, pc # "idle", pc' = "idle", out' = <<>>, inp' \in Seq(Byte),
           UNCHANGED <<link, seqid, call>>,
           board' \in Seq(ShortMessage), Len(board') <= Len(done) + 1,
           link.server = "cocoa" => IsCut(board'),
           NEW c \in Call, done' = Append(done, c), c.out \in Refusals => Refuses(link),
           NoneOf(done) /\ c.out \notin Refusals =>
               inp' = <<>> /\ IsTheAdds(link, Append(done, c), board', <<>>),
           NoneOf(done) /\ c.name = GET /\ c.out = "ok" => c.val = <<SeenOf(link, board')>>
    PROVE  WInv'
<1>1. Typed /\ Counted /\ RefusedRightly
    BY DEF WInv
<1>2. link' = link /\ seqid' = seqid /\ call' = call
    OBVIOUS
<1>3. PICK e : e = Append(done, c)
    OBVIOUS
<1>4. /\ e \in Seq(Call) /\ Len(e) = Len(done) + 1 /\ Last(e) = c /\ e # <<>>
      /\ NoneOf(e) <=> NoneOf(done) /\ c.out \notin Refusals
      /\ \A i \in 1..Len(e) : e[i] = c \/ (i \in 1..Len(done) /\ e[i] = done[i])
  <2>1. done \in Seq(Call)
      BY <1>1 DEF Typed
  <2>2. IsDoneMore(e, done, c)
      BY <1>3, <2>1, DoneMore
  <2>3. QED
      BY <2>2 DEF IsDoneMore
<1>5. done' = e
    BY <1>3
<1>6. Typed'
  <2>1. <<>> \in Seq(Byte)
      OBVIOUS
  <2>2. QED
      BY <1>1, <1>2, <1>4, <1>5, <2>1 DEF Typed
<1>7. Counted'
  <2>1. PICK n \in Nat, j \in Nat, i \in Nat :
            n = Len(done) /\ j = Len(board') /\ i = seqid
      BY <1>1 DEF Typed
  <2>2. MaxCalls \in Nat
    <3>1. PICK big \in Nat : big = MaxI32
        BY MaxI32Type
    <3>2. MaxCalls \in 0..big
        BY <3>1, MaxCallsAssumption
    <3>3. QED
        BY <3>2
  <2>3. n + 1 <= MaxCalls /\ i <= n + 1 /\ (link.lang # "java" => i = 0)
      BY <1>1, <2>1, <2>2 DEF Counted
  <2>4. j <= n + 1
      BY <2>1
  <2>5. Len(done)' = n + 1 /\ Len(board)' = j /\ seqid' = i /\ pc' = "idle" /\ link' = link
      BY <1>2, <1>4, <1>5, <2>1
  <2>6. QED
      BY <2>2, <2>3, <2>4, <2>5 DEF Counted
<1>8. Asked'
    BY DEF Asked
<1>9. Answered'
    BY <1>4, <1>5 DEF Answered
<1>10. Cut'
    BY <1>2 DEF Cut
<1>11. RefusedRightly'
    BY <1>1, <1>2, <1>4, <1>5 DEF RefusedRightly
<1>12. Added'
    BY <1>2, <1>3, <1>4, <1>5 DEF Added
<1>13. Got'
    BY <1>2, <1>4, <1>5 DEF Got
<1>14. QED
    BY <1>6, <1>7, <1>8, <1>9, <1>10, <1>11, <1>12, <1>13 DEF WInv

\* The record of a call.
LEMMA CallType ==
    ASSUME NEW name \in {ADD, GET}, NEW m \in ShortMessage, NEW o \in Outcomes,
           NEW v \in Results, NEW c, c = [name |-> name, msg |-> m, out |-> o, val |-> v]
    PROVE  c \in Call /\ c.name = name /\ c.msg = m /\ c.out = o /\ c.val = v
BY DEF Call

\* A request fails, done or not.
LEMMA InvHttpFail == WInv /\ HttpFail => WInv'
<1> SUFFICES ASSUME WInv, HttpFail PROVE WInv'
    OBVIOUS
<1>1. /\ pc = "sent" /\ out' = <<>> /\ pc' = "idle" /\ link' = link /\ inp' = inp
      /\ seqid' = seqid /\ call' = call
      /\ done' = Append(done, [name |-> call.name, msg |-> call.msg,
                               out |-> "failed", val |-> <<>>])
    BY DEF HttpFail
<1>2. board' = board \/ \E r : r = Process(out) /\ board' = r.board
    BY DEF HttpFail
<1>3. Typed /\ Counted /\ Answered /\ Cut /\ Added
    BY DEF WInv
<1>4. "failed" \in Outcomes /\ "failed" \notin Refusals /\ <<>> \in Results
    BY NoneIsAResult DEF Outcomes, Refusals
<1>5. PICK c : c = [name |-> call.name, msg |-> call.msg, out |-> "failed", val |-> <<>>]
    OBVIOUS
<1>6. /\ c \in Call /\ c.name = call.name /\ c.msg = call.msg /\ c.out = "failed"
  <2>1. PICK a \in {ADD, GET}, m \in ShortMessage, o \in Outcomes, v \in Results :
            a = call.name /\ m = call.msg /\ o = "failed" /\ v = <<>>
      BY <1>3, <1>4 DEF Typed
  <2>2. c = [name |-> a, msg |-> m, out |-> o, val |-> v]
      BY <1>5, <2>1
  <2>3. c \in Call /\ c.name = a /\ c.msg = m /\ c.out = o /\ c.val = v
      BY <2>2, CallType
  <2>4. QED
      BY <2>1, <2>3
<1>7. PICK x : x = AddOf(link, call.name, call.msg)
    OBVIOUS
<1>8. /\ board' \in Seq(ShortMessage) /\ Len(board') <= Len(done) + 1
      /\ link.server = "cocoa" => IsCut(board')
      /\ board' = board \/ board' = board \o x
  <2>1. PICK n \in Nat, k \in Nat : n = Len(done) /\ k = Len(board)
      BY <1>3 DEF Typed
  <2>2. k <= n
      BY <1>1, <1>3, <2>1 DEF Counted
  <2>3. CASE board' = board
      BY <1>3, <2>1, <2>2, <2>3 DEF Typed, Cut
  <2>4. ASSUME NEW r, r = Process(out), board' = r.board
        PROVE  /\ board' \in Seq(ShortMessage) /\ Len(board') <= Len(done) + 1
               /\ link.server = "cocoa" => IsCut(board')
               /\ board' = board \o x
    <3>1. /\ r.board = board \o AddOf(link, call.name, call.msg)
          /\ r.board \in Seq(ShortMessage) /\ Len(r.board) <= Len(board) + 1
          /\ link.server = "cocoa" => IsCut(r.board)
        BY <1>1, <2>4, BoardAfter
    <3>2. PICK b \in Seq(ShortMessage) : b = board'
        BY <2>4, <3>1
    <3>3. PICK j \in Nat : j = Len(b)
        OBVIOUS
    <3>4. j <= k + 1
        BY <2>1, <2>4, <3>1, <3>2, <3>3
    <3>5. j <= n + 1
        BY <2>2, <3>4
    <3>6. QED
        BY <1>7, <2>1, <2>4, <3>1, <3>2, <3>3, <3>5
  <2>5. QED
      BY <1>2, <2>3, <2>4
<1>9. ASSUME NoneOf(done)
      PROVE  inp' = <<>> /\ IsTheAdds(link, Append(done, c), board', <<>>)
  <2>1. inp' = <<>>
      BY <1>1, <1>3, <1>9 DEF Answered
  <2>2. /\ IsTheAdds(link, done, board, <<>>) /\ KeepsShort(link) /\ done \in Seq(Call)
        /\ x \in Seq(ShortMessage)
      BY <1>1, <1>3, <1>7, <1>9, AddOfType, ServersKeepShort DEF Typed, Added
  <2>3. CASE board' = board
    <3>1. IsTheAdds(link, Append(done, c), board, <<>>)
        BY <1>6, <2>2, NothingDone
    <3>2. QED
        BY <2>1, <2>3, <3>1
  <2>4. CASE board' = board \o x
    <3>1. IsTheAdds(link, done, board \o x, x)
        BY <2>2, AddAnswered
    <3>2. CASE call.name = ADD /\ ADD \in link.methods
      <4>1. x = <<KeptOf(link, c.msg)>>
          BY <1>6, <1>7, <3>2 DEF AddOf
      <4>2. PICK b : b = board \o x
          OBVIOUS
      <4>3. IsTheAdds(link, done, b, <<KeptOf(link, c.msg)>>)
          BY <3>1, <4>1, <4>2
      <4>4. c.out \in {"ok", "failed"}
          BY <1>6
      <4>5. IsTheAdds(link, Append(done, c), b, <<>>)
          BY <1>6, <2>2, <3>2, <4>3, <4>4, AddDone
      <4>6. QED
          BY <2>1, <2>4, <4>2, <4>5
    <3>3. CASE ~(call.name = ADD /\ ADD \in link.methods)
      <4>1. x = <<>>
          BY <1>7, <3>3 DEF AddOf
      <4>2. board \o <<>> = board
          BY <1>3, NothingAdded DEF Typed
      <4>3. IsTheAdds(link, Append(done, c), board, <<>>)
          BY <1>6, <2>2, NothingDone
      <4>4. QED
          BY <2>1, <2>4, <4>1, <4>2, <4>3
    <3>4. QED
        BY <3>2, <3>3
  <2>5. QED
      BY <1>8, <2>3, <2>4
<1>10. inp' \in Seq(Byte)
    BY <1>1, <1>3 DEF Typed
<1>11. c.out # "ok" /\ c.out \notin Refusals
    BY <1>4, <1>6
<1>12. QED
    BY <1>1, <1>5, <1>6, <1>8, <1>9, <1>10, <1>11, InvEnd

\* Answers and refusals.
LEMMA RefusalsRefuse ==
    /\ "missing version" \in Refusals /\ "ok" \notin Refusals
    /\ "exception" \notin Refusals /\ "missing result" \notin Refusals
BY DEF Refusals

\* An answer is read.
LEMMA InvRecv == WInv /\ Recv => WInv'
<1> SUFFICES ASSUME WInv, Recv PROVE WInv'
    OBVIOUS
<1>1. Typed /\ Counted /\ Asked /\ Answered /\ Cut /\ RefusedRightly /\ Added
    BY DEF WInv
<1>2. PICK r : /\ r = Received(inp)
               /\ inp' = SubSeq(inp, r.end, Len(inp))
               /\ done' = Append(done, [name |-> call.name, msg |-> call.msg,
                                        out |-> r.out, val |-> r.val])
    BY DEF Recv
<1>3. /\ pc = "answered" /\ pc' = "idle" /\ out' = out /\ UNCHANGED <<link, seqid, call>>
      /\ board' = board /\ link' = link
    BY DEF Recv
<1>4. inp \in Seq(Byte) /\ done \in Seq(Call) /\ board \in Seq(ShortMessage) /\ link \in Links
    BY <1>1 DEF Typed
<1>5. r.out \in Outcomes /\ r.end \in Nat /\ r.end >= 1 /\ r.val \in Results
    BY <1>2, <1>4, ReceivedType DEF IsAnswer
<1>6. PICK c : c = [name |-> call.name, msg |-> call.msg, out |-> r.out, val |-> r.val]
    OBVIOUS
<1>7. c \in Call /\ c.name = call.name /\ c.msg = call.msg /\ c.out = r.out /\ c.val = r.val
  <2>1. PICK a \in {ADD, GET}, m \in ShortMessage, o \in Outcomes, v \in Results :
            a = call.name /\ m = call.msg /\ o = r.out /\ v = r.val
      BY <1>1, <1>5 DEF Typed
  <2>2. c = [name |-> a, msg |-> m, out |-> o, val |-> v]
      BY <1>6, <2>1
  <2>3. c \in Call /\ c.name = a /\ c.msg = m /\ c.out = o /\ c.val = v
      BY <2>2, CallType
  <2>4. QED
      BY <2>1, <2>3
<1>8. inp' \in Seq(Byte)
  <2>1. PICK p \in Nat, n \in Nat : p = r.end /\ p >= 1 /\ n = Len(inp)
      BY <1>4, <1>5
  <2>2. SubSeq(inp, p, n) \in Seq(Byte)
      BY <1>4, <2>1
  <2>3. QED
      BY <1>2, <2>1, <2>2
<1>9. out' = <<>>
    BY <1>1, <1>3 DEF Asked
<1>10. board' \in Seq(ShortMessage) /\ Len(board') <= Len(done) + 1
  <2>1. Len(board) <= Len(done) + 1
      BY <1>1, <1>3 DEF Counted
  <2>2. QED
      BY <1>3, <1>4, <2>1
<1>11. link.server = "cocoa" => IsCut(board')
    BY <1>1, <1>3 DEF Cut
<1>12. ASSUME NoneOf(done)
       PROVE  IsReceived(link, r, inp, call.name, board)
  <2>1. IsReply(link, inp, call.name, seqid, board)
      BY <1>1, <1>3, <1>12 DEF Answered
  <2>2. call.name \in {ADD, GET} /\ (link.lang # "java" => seqid = 0)
      BY <1>1 DEF Typed, Counted
  <2>3. IsReceived(link, Received(inp), inp, call.name, board)
      BY <1>4, <2>1, <2>2, ReplyReceived
  <2>4. QED
      BY <1>2, <2>3
<1>13. ASSUME NoneOf(done), ~Refuses(link)
       PROVE  /\ r.end = Len(inp) + 1 /\ r.out \notin Refusals
              /\ call.name \notin link.methods =>
                    r.out = IF ~Loses(link) THEN "exception"
                            ELSE IF call.name = ADD THEN "ok" ELSE "missing result"
              /\ call.name \in link.methods =>
                    r.out = "ok" /\ (call.name = GET => r.val = <<SeenOf(link, board)>>)
    BY <1>12, <1>13, RefusalsRefuse DEF IsReceived
<1>14. ASSUME NoneOf(done), Refuses(link)
       PROVE  r.out = "missing version" /\ r.out \in Refusals /\ r.out # "ok"
    BY <1>12, <1>14, RefusalsRefuse DEF IsReceived
<1>15. c.out \in Refusals => Refuses(link)
  <2>1. CASE NoneOf(done)
      BY <1>7, <1>13, <2>1
  <2>2. CASE ~NoneOf(done)
    <3>1. PICK i \in 1..Len(done) : done[i].out \in Refusals
        BY <1>4, <2>2 DEF NoneOf
    <3>2. QED
        BY <1>1, <3>1 DEF RefusedRightly
  <2>3. QED
      BY <2>1, <2>2
<1>16. ASSUME NoneOf(done), c.out \notin Refusals
       PROVE  inp' = <<>> /\ IsTheAdds(link, Append(done, c), board', <<>>)
  <2>1. ~Refuses(link)
      BY <1>7, <1>14, <1>16
  <2>2. r.end = Len(inp) + 1
      BY <1>13, <1>16, <2>1
  <2>3. inp' = <<>>
      BY <1>2, <1>4, <2>2, NothingLeft
  <2>4. KeepsShort(link) /\ IsTheAdds(link, done, board, AddOf(link, call.name, call.msg))
      BY <1>1, <1>3, <1>4, <1>16, ServersKeepShort DEF Added
  <2>5. CASE call.name = ADD /\ ADD \in link.methods
    <3>1. c.name = ADD /\ c.out \in {"ok", "failed"}
        BY <1>7, <1>13, <1>16, <2>1, <2>5
    <3>2. IsTheAdds(link, done, board, <<KeptOf(link, c.msg)>>)
        BY <1>7, <2>4, <2>5 DEF AddOf
    <3>3. IsTheAdds(link, Append(done, c), board, <<>>)
        BY <1>4, <1>7, <2>4, <2>5, <3>1, <3>2, AddDone
    <3>4. QED
        BY <1>3, <2>3, <3>3
  <2>6. CASE ~(call.name = ADD /\ ADD \in link.methods)
    <3>1. IsTheAdds(link, done, board, <<>>)
        BY <2>4, <2>6 DEF AddOf
    <3>2. c.name = ADD /\ c.out = "ok" => ADD \notin link.methods /\ Loses(link)
      <4>1. ASSUME c.name = ADD, c.out = "ok"
            PROVE  ADD \notin link.methods /\ Loses(link)
        <5>1. call.name = ADD /\ call.name \notin link.methods /\ r.out = "ok"
            BY <1>7, <2>6, <4>1
        <5>2. r.out = IF ~Loses(link) THEN "exception"
                      ELSE IF call.name = ADD THEN "ok" ELSE "missing result"
            BY <1>13, <1>16, <2>1, <5>1
        <5>3. QED
            BY <5>1, <5>2
      <4>2. QED
          BY <4>1
    <3>3. IsTheAdds(link, Append(done, c), board, <<>>)
        BY <1>4, <1>7, <2>4, <3>1, <3>2, NothingDone
    <3>4. QED
        BY <1>3, <2>3, <3>3
  <2>7. QED
      BY <2>5, <2>6
<1>17. ASSUME NoneOf(done), c.name = GET, c.out = "ok"
       PROVE  c.val = <<SeenOf(link, board')>>
  <2>1. ~Refuses(link) /\ call.name = GET /\ r.out = "ok"
      BY <1>7, <1>14, <1>17
  <2>2. CASE call.name \in link.methods
      BY <1>3, <1>7, <1>13, <1>17, <2>1, <2>2
  <2>3. CASE call.name \notin link.methods
    <3>1. r.out = IF ~Loses(link) THEN "exception"
                  ELSE IF call.name = ADD THEN "ok" ELSE "missing result"
        BY <1>13, <1>17, <2>1, <2>3
    <3>2. QED
        BY <2>1, <3>1, NamesDiffer
  <2>4. QED
      BY <2>2, <2>3
<1>18. done' = Append(done, c) /\ pc # "idle"
    BY <1>2, <1>3, <1>6
<1>19. QED
    BY <1>3, <1>7, <1>8, <1>9, <1>10, <1>11, <1>15, <1>16, <1>17, <1>18, InvEnd

\* Nothing else happens.
LEMMA InvUnchanged == WInv /\ UNCHANGED vars => WInv'
BY DEF WInv, vars, Typed, Counted, Asked, Answered, Cut, RefusedRightly, Added, Got

\* No step breaks the invariant.
LEMMA InvNext == WInv /\ [Next]_vars => WInv'
<1> SUFFICES ASSUME WInv, [Next]_vars PROVE WInv'
    OBVIOUS
<1>1. NoMessage \in ShortMessage
  <2>1. <<>> \in Fields
      BY UnsetField
  <2>2. NoMessage \in Message
      BY <2>1 DEF NoMessage, Message
  <2>3. Short(NoMessage.text) /\ Short(NoMessage.date)
      BY DEF NoMessage, Short
  <2>4. QED
      BY <2>2, <2>3 DEF ShortMessage
<1>2. ASSUME NEW m \in Messages, Send(ADD, m)
      PROVE  WInv'
  <2>1. m \in ShortMessage
      BY MessagesAssumption, MessageType DEF ShortMessage
  <2>2. ADD \in {ADD, GET}
      OBVIOUS
  <2>3. QED
      BY <1>2, <2>1, <2>2, InvSend
<1>3. CASE Send(GET, NoMessage)
  <2>1. GET \in {ADD, GET}
      OBVIOUS
  <2>2. QED
      BY <1>1, <1>3, <2>1, InvSend
<1>4. CASE Serve
    BY <1>4, InvServe
<1>5. CASE HttpFlush
    BY <1>5, InvHttpFlush
<1>6. CASE HttpFail
    BY <1>6, InvHttpFail
<1>7. CASE Recv
    BY <1>7, InvRecv
<1>8. CASE UNCHANGED vars
    BY <1>8, InvUnchanged
<1>9. QED
    BY <1>2, <1>3, <1>4, <1>5, <1>6, <1>7, <1>8 DEF Next

-----------------------------------------------------------------------------
(* The theorems.                                                            *)

\* The invariant holds.
LEMMA Invariant == Spec => []WInv
<1>1. WInv /\ [Next]_vars => WInv'
    BY InvNext
<1>2. QED
    BY InvInit, <1>1, PTL DEF Spec

\* The calls that are done are those numbered.
LEMMA DoneIsNumbered ==
    ASSUME WInv
    PROVE  DOMAIN done = 1..Len(done) /\ done \in Seq(Call)
BY DEF WInv, Typed

\* No call was refused.
LEMMA NoneIsRefused ==
    ASSUME NoneRefused
    PROVE  NoneOf(done)
BY DEF NoneRefused, NoneOf

\* What WInv says of the types.
LEMMA InvType == WInv => TypeOK
<1> SUFFICES ASSUME WInv PROVE TypeOK
    OBVIOUS
<1>1. Typed
    BY DEF WInv
<1>2. \A m \in ShortMessage : IsMessage(m)
    BY MessageType DEF ShortMessage
<1>3. \A i \in DOMAIN board : IsMessage(board[i])
  <2>1. \A i \in DOMAIN board : board[i] \in ShortMessage
      BY <1>1 DEF Typed
  <2>2. QED
      BY <1>2, <2>1
<1>4. \A i \in DOMAIN done : done[i].name \in {ADD, GET} /\ done[i].out \in Outcomes
  <2>1. \A i \in DOMAIN done : done[i] \in Call
      BY <1>1 DEF Typed
  <2>2. \A c \in Call : c.name \in {ADD, GET} /\ c.out \in Outcomes
      BY DEF Call
  <2>3. QED
      BY <2>1, <2>2
<1>5. IsMessage(call.msg)
    BY <1>1, <1>2 DEF Typed
<1>6. QED
    BY <1>1, <1>3, <1>4, <1>5 DEF TypeOK, Typed

\* What it says of the steps.
LEMMA InvInStep == WInv => InStep
<1> SUFFICES ASSUME WInv, NoneRefused
             PROVE  /\ pc = "sent" => Complete(out, Process(out).end)
                    /\ pc = "answered" => Complete(inp, Received(inp).end)
                    /\ pc = "idle" => out = <<>> /\ inp = <<>>
    BY DEF InStep
<1>1. Typed /\ Counted /\ Asked /\ Answered
    BY DEF WInv
<1>2. NoneOf(done)
    BY NoneIsRefused
<1>3. out \in Seq(Byte) /\ inp \in Seq(Byte)
    BY <1>1 DEF Typed
<1>4. ASSUME pc = "sent"
      PROVE  Complete(out, Process(out).end)
  <2>1. PICK r : r = Process(out)
      OBVIOUS
  <2>2. r.end = Len(out) + 1
      BY <1>4, <2>1, SentIsProcessed DEF IsProcessed
  <2>3. Complete(out, r.end)
      BY <1>3, <2>2, NothingLeft
  <2>4. QED
      BY <2>1, <2>3
<1>5. ASSUME pc = "answered"
      PROVE  Complete(inp, Received(inp).end)
  <2>1. PICK r : r = Received(inp)
      OBVIOUS
  <2>2. IsReply(link, inp, call.name, seqid, board)
      BY <1>1, <1>2, <1>5 DEF Answered
  <2>3. link \in Links /\ call.name \in {ADD, GET} /\ (link.lang # "java" => seqid = 0)
      BY <1>1 DEF Typed, Counted
  <2>4. IsReceived(link, Received(inp), inp, call.name, board)
      BY <2>2, <2>3, ReplyReceived
  <2>5. CASE Refuses(link)
      BY <2>1, <2>4, <2>5 DEF IsReceived, Complete
  <2>6. CASE ~Refuses(link)
    <3>1. r.end = Len(inp) + 1
        BY <2>1, <2>4, <2>6 DEF IsReceived
    <3>2. Complete(inp, r.end)
        BY <1>3, <3>1, NothingLeft
    <3>3. QED
        BY <2>1, <3>2
  <2>7. QED
      BY <2>5, <2>6
<1>6. pc = "idle" => out = <<>> /\ inp = <<>>
    BY <1>1, <1>2 DEF Asked, Answered
<1>7. QED
    BY <1>4, <1>5, <1>6

\* What it says of refusals.
LEMMA InvRefused == WInv => OnlyStrictRefuse
<1> SUFFICES ASSUME WInv, NEW i \in DOMAIN done, done[i].out \in Refusals
             PROVE  link.server = "cocoa" /\ (link.lang = "glib" \/ (link.lang = "cocoa" /\ link.strict))
    BY DEF OnlyStrictRefuse
<1>1. i \in 1..Len(done)
    BY DoneIsNumbered
<1>2. Refuses(link)
    BY <1>1 DEF WInv, RefusedRightly
<1>3. QED
    BY <1>2 DEF Refuses

\* What it says of the board.
LEMMA InvBoard == WInv => BoardIsTheAdds
<1> SUFFICES ASSUME WInv, NoneRefused
             PROVE  \E did \in SUBSET AddsOf({"ok", "failed"}) :
                        /\ board = MessagesOf(did) \o Under
                        /\ IF ADD \in link.methods THEN AddsOf({"ok"}) \subseteq did
                           ELSE did = {} /\ (AddsOf({"ok"}) = {} \/ ExceptionLost)
    BY DEF BoardIsTheAdds
<1>1. Typed /\ Added /\ NoneOf(done)
    BY NoneIsRefused DEF WInv
<1>2. DOMAIN done = 1..Len(done) /\ done \in Seq(Call)
    BY DoneIsNumbered
<1>3. link \in Links /\ call.msg \in ShortMessage
    BY <1>1 DEF Typed
<1>4. PICK u : u = IF pc = "answered" THEN AddOf(link, call.name, call.msg) ELSE <<>>
    OBVIOUS
<1>5. IsTheAdds(link, done, board, u)
    BY <1>1, <1>4 DEF Added
<1>6. PICK did : AreTheAdds(link, done, board, u, did)
    BY <1>5 DEF IsTheAdds
<1>7. Under = u
  <2>1. KeptMessage(call.msg) = KeptOf(link, call.msg)
      BY <1>3, KeptIsPromised
  <2>2. QED
      BY <1>4, <2>1 DEF Under, AddOf
<1>8. MessagesOf(did) = KeptAll(link, done, did)
  <2>1. \A i \in 1..Len(done) : KeptMessage(done[i].msg) = KeptOf(link, done[i].msg)
    <3>1. \A i \in 1..Len(done) : done[i].msg \in ShortMessage
      <4>1. \A i \in 1..Len(done) : done[i] \in Call
          BY <1>2
      <4>2. QED
          BY <4>1, CallIsShort
    <3>2. QED
        BY <1>3, <3>1, KeptIsPromised
  <2>2. [i \in DOMAIN done |-> IF i \in did THEN <<KeptMessage(done[i].msg)>> ELSE <<>>]
        = KeptEach(link, done, did)
      BY <1>2, <2>1 DEF KeptEach
  <2>3. QED
      BY <2>2 DEF MessagesOf, KeptAll
<1>9. did \in SUBSET AddsOf({"ok", "failed"})
    BY <1>2, <1>6 DEF AreTheAdds, AddsOf
<1>10. board = MessagesOf(did) \o Under
    BY <1>6, <1>7, <1>8 DEF AreTheAdds
<1>11. CASE ADD \in link.methods
  <2>1. AddsOf({"ok"}) \subseteq did
      BY <1>2, <1>6, <1>11 DEF AreTheAdds, AddsOf
  <2>2. QED
      BY <1>9, <1>10, <1>11, <2>1
<1>12. CASE ADD \notin link.methods
  <2>1. did = {} /\ \A i \in 1..Len(done) : done[i].name = ADD /\ done[i].out = "ok" => Loses(link)
      BY <1>6, <1>12 DEF AreTheAdds
  <2>2. AddsOf({"ok"}) = {} \/ ExceptionLost
      BY <1>2, <2>1 DEF AddsOf, Loses, ExceptionLost
  <2>3. QED
      BY <1>9, <1>10, <1>12, <2>1, <2>2
<1>13. QED
    BY <1>11, <1>12

\* What a client sees of a board, message by message.
LEMMA SeenEach ==
    ASSUME NEW k, NEW b \in Seq(ShortMessage), k.server \in {"java", "cocoa"},
           k.server = "cocoa" => IsCut(b)
    PROVE  /\ Len(SeenOf(k, b)) = Len(b)
           /\ \A i \in 1..Len(b) :
                 SeenOf(k, b)[i] = IF k.lang \in {"java", "async"} THEN b[i] ELSE CMessage(b[i])
<1>1. PICK n \in Nat : n = Len(b)
    OBVIOUS
<1>2. PICK c : c = CMessages(b)
    OBVIOUS
<1>3. Len(c) = n /\ \A i \in 1..n : c[i] = CMessage(b[i])
    BY <1>1, <1>2 DEF CMessages
<1>4. CASE k.server = "java"
  <2>1. WrittenOf(k, b) = b
      BY <1>4 DEF WrittenOf
  <2>2. QED
      BY <1>1, <1>2, <1>3, <2>1 DEF SeenOf
<1>5. CASE k.server = "cocoa"
  <2>1. \A i \in 1..n : CMessage(b[i]) = b[i]
      BY <1>1, <1>5 DEF IsCut
  <2>2. c \in Seq(ShortMessage)
    <3>1. \A i \in 1..n : c[i] \in ShortMessage
      <4>1. \A i \in 1..n : b[i] \in ShortMessage
          BY <1>1
      <4>2. QED
          BY <1>3, <2>1, <4>1
    <3>2. c = [i \in 1..n |-> c[i]]
        BY <1>1, <1>2, <1>3 DEF CMessages
    <3>3. [i \in 1..n |-> c[i]] \in Seq(ShortMessage)
        BY <3>1
    <3>4. QED
        BY <3>2, <3>3
  <2>3. c = b
      BY <1>1, <1>3, <2>1, <2>2, SeqEqual
  <2>4. WrittenOf(k, b) = b
      BY <1>2, <1>5, <2>3 DEF WrittenOf
  <2>5. QED
      BY <1>1, <1>2, <1>3, <2>1, <2>4 DEF SeenOf
<1>6. QED
    BY <1>4, <1>5

\* What the invariant says of a get.
LEMMA InvGet == WInv => GetIsTheBoard
<1> SUFFICES ASSUME WInv, pc = "idle", NoneRefused, done # <<>>,
                    Last(done).name = GET, Last(done).out = "ok"
             PROVE  /\ Len(Last(done).val[1]) = Len(board)
                    /\ \A i \in DOMAIN board :
                          LET seen(f) == IF link.lang \in {"java", "async"} \/ f = <<>> THEN f
                                         ELSE <<CString(f[1])>>
                          IN  Last(done).val[1][i]
                              = [text |-> seen(board[i].text), date |-> seen(board[i].date)]
    BY DEF GetIsTheBoard
<1>1. Typed /\ Cut /\ Got /\ NoneOf(done)
    BY NoneIsRefused DEF WInv
<1>2. board \in Seq(ShortMessage) /\ link.server \in {"java", "cocoa"}
    BY <1>1, LinksAssumption DEF Typed, Link
<1>3. PICK x : x = SeenOf(link, board)
    OBVIOUS
<1>4. Last(done).val = <<x>>
    BY <1>1, <1>3 DEF Got
<1>5. Last(done).val[1] = x
    BY <1>4
<1>6. /\ Len(x) = Len(board)
      /\ \A i \in 1..Len(board) :
            x[i] = IF link.lang \in {"java", "async"} THEN board[i] ELSE CMessage(board[i])
    BY <1>1, <1>2, <1>3, SeenEach DEF Cut
<1>7. ASSUME NEW i \in DOMAIN board
      PROVE  LET seen(f) == IF link.lang \in {"java", "async"} \/ f = <<>> THEN f
                            ELSE <<CString(f[1])>>
             IN  x[i] = [text |-> seen(board[i].text), date |-> seen(board[i].date)]
  <2>1. i \in 1..Len(board) /\ board[i] \in ShortMessage
      BY <1>2
  <2>2. PICK m \in ShortMessage : m = board[i]
      BY <2>1
  <2>3. x[i] = IF link.lang \in {"java", "async"} THEN m ELSE CMessage(m)
      BY <1>6, <2>1, <2>2
  <2>4. CASE link.lang \in {"java", "async"}
    <3>1. m = [text |-> m.text, date |-> m.date]
        BY DEF ShortMessage, Message
    <3>2. QED
        BY <2>2, <2>3, <2>4, <3>1
  <2>5. CASE link.lang \notin {"java", "async"}
    <3>1. x[i] = [text |-> IF m.text = <<>> THEN <<>> ELSE <<CString(m.text[1])>>,
                  date |-> IF m.date = <<>> THEN <<>> ELSE <<CString(m.date[1])>>]
        BY <2>3, <2>5 DEF CMessage, CField
    <3>2. QED
        BY <2>2, <2>5, <3>1
  <2>6. QED
      BY <2>4, <2>5
<1>8. QED
    BY <1>5, <1>6, <1>7

\* What it says of the orders.
LEMMA InvOrders == WInv => OrdersAgree
<1> SUFFICES ASSUME WInv, NEW i \in DOMAIN done, NEW j \in DOMAIN done
             PROVE  LET a == done[i].msg  b == done[j].msg  x == done[i].val  y == done[j].val
                    IN  /\ JavaMessageEquals(a, b) <=> JavaMessageCompareTo(a, b) = 0
                        /\ JavaMessageCompareTo(a, b) = -JavaMessageCompareTo(b, a)
                        /\ JavaAddArgsEquals(<<a>>, <<b>>)
                           <=> JavaAddArgsCompareTo(<<a>>, <<b>>) = 0
                        /\ JavaGetResultEquals(x, y) <=> JavaGetResultCompareTo(x, y) = 0
                        /\ JavaGetResultCompareTo(x, y) = -JavaGetResultCompareTo(y, x)
                        /\ JavaMessageEquals(a, JavaMessageCopy(a))
    BY DEF OrdersAgree
<1>1. \A c \in Call : c.msg \in Message /\ c.val \in Results
    BY DEF Call, ShortMessage
<1>2. done[i] \in Call /\ done[j] \in Call
    BY DoneIsNumbered
<1>3. QED
    BY <1>1, <1>2, OrdersOfTwo

\* Whatever the connection and the messages, what is on the way is bytes, and
\* a call has one of the outcomes.
THEOREM WireTyped == Spec => []TypeOK
BY Invariant, InvType, PTL

\* A client and a server that share a connection stay in step: what one of the
\* generated clients writes, the processor reads to the last byte, and the other
\* way round, until a client refuses an answer.
THEOREM StaysInStep == Spec => []InStep
BY Invariant, InvInStep, PTL

\* Nobody refuses an answer but a client that insists on versions, of a Cocoa
\* server, which writes none.
THEOREM RefusesRightly == Spec => []OnlyStrictRefuse
BY Invariant, InvRefused, PTL

\* The board of the server is the adds of the client, each once and in their
\* order, those that returned all of them.
THEOREM AddsAreDoneOnce == Spec => []BoardIsTheAdds
BY Invariant, InvBoard, PTL

\* A get that returns messages returns the board.
THEOREM GetsTheBoard == Spec => []GetIsTheBoard
BY Invariant, InvGet, PTL

\* equals and compareTo of the Java classes agree on all that is sent.
THEOREM OrdersDoAgree == Spec => []OrdersAgree
BY Invariant, InvOrders, PTL

================================================================================
