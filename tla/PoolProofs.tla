----------------------------- MODULE PoolProofs -----------------------------
(***************************************************************************)
(* What the operators of PoolState and Economy return, and the types of    *)
(* the Pool after every event, for every log and every value of the        *)
(* constants.                                                              *)
(***************************************************************************)
EXTENDS Pool, FiniteSetTheorems, TLAPS

L == INSTANCE Lemmas

-----------------------------------------------------------------------------
(* Sums.                                                                   *)

\* A set of numbers with zero and all its sums.
Additive(T) == T \subseteq Int /\ 0 \in T /\ \A x, y \in T : x + y \in T

\* The recursive function inside Sum exists and stays in T.
LEMMA SumDefined ==
  ASSUME NEW n \in Nat, NEW T, Additive(T), NEW f \in [1 .. n -> T]
  PROVE  \E g \in [0 .. n -> T] :
            g = [k \in 0 .. n |-> IF k = 0 THEN 0 ELSE g[k - 1] + f[k]]
<1> DEFINE step == [k \in 1 .. n |-> [t \in T |-> t + f[k]]]
<1>1. step \in [1 .. n -> [T -> T]]
  <2>1. ASSUME NEW k \in 1 .. n, NEW t \in T PROVE t + f[k] \in T
    <3>1. f[k] \in T
      OBVIOUS
    <3> QED BY <3>1 DEF Additive
  <2> QED BY <2>1
<1>2. 0 \in T
  BY DEF Additive
<1> HIDE DEF step
<1>3. PICK g \in [0 .. n -> T] : L!Recurs(g, n, 0, step)
  BY <1>1, <1>2, L!RecursionDefined
<1>4. ASSUME NEW k \in 1 .. n PROVE step[k][g[k - 1]] = g[k - 1] + f[k]
  BY DEF step
<1>5. g = [k \in 0 .. n |-> IF k = 0 THEN 0 ELSE g[k - 1] + f[k]]
  BY <1>3, <1>4 DEF L!Recurs
<1> QED BY <1>5

\* g holds the partial sums of f.
SumsUp(g, n, f) ==
  /\ g[0] = 0
  /\ \A k \in 1 .. n : g[k] = g[k - 1] + f[k]
  /\ Sum(f, n) = g[n]

\* The partial sums of f satisfy the recursion that Sum chooses by.
LEMMA PartialSums ==
  ASSUME NEW n \in Nat, NEW T, Additive(T), NEW f \in [1 .. n -> T]
  PROVE  \E g \in [0 .. n -> T] : SumsUp(g, n, f)
<1> DEFINE upTo == CHOOSE g : g = [k \in 0 .. n |-> IF k = 0 THEN 0 ELSE g[k - 1] + f[k]]
<1>1. upTo = [k \in 0 .. n |-> IF k = 0 THEN 0 ELSE upTo[k - 1] + f[k]]
  <2>1. \E g \in [0 .. n -> T] :
           g = [k \in 0 .. n |-> IF k = 0 THEN 0 ELSE g[k - 1] + f[k]]
    BY SumDefined
  <2> QED BY <2>1, Zenon
<1>2. Sum(f, n) = upTo[n]
  BY DEF Sum
<1> HIDE DEF upTo
<1> DEFINE S == {k \in 0 .. n : upTo[k] \in T}
<1>3. 0 \in S
  BY <1>1 DEF Additive
<1>4. ASSUME NEW k \in 0 .. n - 1, k \in S PROVE k + 1 \in S
  <2>1. upTo[k] \in T /\ f[k + 1] \in T
    BY <1>4
  <2>2. upTo[k] + f[k + 1] \in T
    BY <2>1 DEF Additive
  <2>3. upTo[k + 1] = upTo[k] + f[k + 1]
    BY <1>1
  <2> QED BY <2>2, <2>3
<1> HIDE DEF S
<1>5. 0 .. n \subseteq S
  BY <1>3, <1>4, L!IntervalInduction
<1>6. upTo \in [0 .. n -> T]
  BY <1>5, <1>1 DEF S
<1>7. upTo[0] = 0 /\ \A k \in 1 .. n : upTo[k] = upTo[k - 1] + f[k]
  BY <1>1
<1> QED BY <1>2, <1>6, <1>7 DEF SumsUp

\* A sum of elements of a set closed under addition is in that set.
LEMMA SumIsIn ==
  ASSUME NEW n \in Nat, NEW T, Additive(T), NEW f \in [1 .. n -> T]
  PROVE  Sum(f, n) \in T
<1>1. PICK g \in [0 .. n -> T] : SumsUp(g, n, f)
  BY PartialSums
<1> QED BY <1>1 DEF SumsUp

\* A sum of integers is an integer.
LEMMA SumInt ==
  ASSUME NEW n \in Nat, NEW f \in [1 .. n -> Int]
  PROVE  Sum(f, n) \in Int
<1>1. Additive(Int)
  BY DEF Additive
<1> QED BY <1>1, SumIsIn

\* A sum of naturals is a natural.
LEMMA SumNat ==
  ASSUME NEW n \in Nat, NEW f \in [1 .. n -> Nat]
  PROVE  Sum(f, n) \in Nat
<1>1. Additive(Nat)
  BY DEF Additive
<1> QED BY <1>1, SumIsIn

\* No term of a sum of natural numbers exceeds it.
LEMMA SumBounds ==
  ASSUME NEW n \in Nat, NEW f \in [1 .. n -> Nat], NEW i \in 1 .. n
  PROVE  f[i] <= Sum(f, n)
<1>1. Additive(Nat)
  BY DEF Additive
<1>2. PICK g \in [0 .. n -> Nat] : SumsUp(g, n, f)
  BY <1>1, PartialSums
<1> DEFINE S == {k \in 0 .. n : i <= k => f[i] <= g[k]}
<1>3. 0 \in S
  OBVIOUS
<1>4. ASSUME NEW k \in 0 .. n - 1, k \in S PROVE k + 1 \in S
  <2>1. g[k + 1] = g[k] + f[k + 1] /\ g[k] \in Nat /\ f[k + 1] \in Nat /\ f[i] \in Nat
    BY <1>2 DEF SumsUp
  <2>2. CASE i <= k
    BY <2>1, <2>2, <1>4
  <2>3. CASE i = k + 1
    BY <2>1, <2>3
  <2>4. CASE i > k + 1
    BY <2>4
  <2> QED BY <2>2, <2>3, <2>4
<1> HIDE DEF S
<1>5. 0 .. n \subseteq S
  BY <1>3, <1>4, L!IntervalInduction
<1> QED BY <1>2, <1>5 DEF S, SumsUp

\* The sum of two functions is the sum of their sums.
LEMMA SumPlus ==
  ASSUME NEW n \in Nat, NEW f \in [1 .. n -> Int], NEW g \in [1 .. n -> Int],
         NEW h \in [1 .. n -> Int], \A i \in 1 .. n : h[i] = f[i] + g[i]
  PROVE  Sum(h, n) = Sum(f, n) + Sum(g, n)
<1>1. Additive(Int)
  BY DEF Additive
<1>2. PICK F \in [0 .. n -> Int] : SumsUp(F, n, f)
  BY <1>1, PartialSums
<1>3. PICK G \in [0 .. n -> Int] : SumsUp(G, n, g)
  BY <1>1, PartialSums
<1>4. PICK H \in [0 .. n -> Int] : SumsUp(H, n, h)
  BY <1>1, PartialSums
<1> DEFINE S == {k \in 0 .. n : H[k] = F[k] + G[k]}
<1>5. 0 \in S
  BY <1>2, <1>3, <1>4 DEF SumsUp
<1>6. ASSUME NEW k \in 0 .. n - 1, k \in S PROVE k + 1 \in S
  <2>1. /\ H[k + 1] = H[k] + h[k + 1] /\ F[k + 1] = F[k] + f[k + 1]
        /\ G[k + 1] = G[k] + g[k + 1]
    <3> DEFINE m == k + 1
    <3>1. m \in 1 .. n /\ m - 1 = k
      OBVIOUS
    <3> HIDE DEF m
    <3>2. H[m] = H[k] + h[m]
      BY <1>4, <3>1 DEF SumsUp
    <3>3. F[m] = F[k] + f[m]
      BY <1>2, <3>1 DEF SumsUp
    <3>4. G[m] = G[k] + g[m]
      BY <1>3, <3>1 DEF SumsUp
    <3> QED BY <3>2, <3>3, <3>4 DEF m
  <2>2. H[k] = F[k] + G[k]
    BY <1>6
  <2>3. k + 1 \in 1 .. n /\ k \in 0 .. n
    OBVIOUS
  <2>4. h[k + 1] = f[k + 1] + g[k + 1]
    BY <2>3
  <2>5. F[k] \in Int /\ G[k] \in Int /\ f[k + 1] \in Int /\ g[k + 1] \in Int
    BY <2>3
  <2>6. H[k + 1] = F[k + 1] + G[k + 1]
    <3>1. (F[k] + G[k]) + (f[k + 1] + g[k + 1]) = (F[k] + f[k + 1]) + (G[k] + g[k + 1])
      <4> DEFINE p == F[k]  q == G[k]  r == f[k + 1]  s == g[k + 1]
      <4>1. p \in Int /\ q \in Int /\ r \in Int /\ s \in Int
        BY <2>5
      <4> HIDE DEF p, q, r, s
      <4>2. (p + q) + (r + s) = (p + r) + (q + s)
        BY <4>1
      <4> QED BY <4>2 DEF p, q, r, s
    <3> QED BY <2>1, <2>2, <2>4, <3>1, Zenon
  <2> QED BY <2>6
<1> HIDE DEF S
<1>7. 0 .. n \subseteq S
  BY <1>5, <1>6, L!IntervalInduction
<1> QED BY <1>2, <1>3, <1>4, <1>7 DEF S, SumsUp

\* The sum of a function that is nothing but v at x.
LEMMA SumSingle ==
  ASSUME NEW n \in Nat, NEW x \in 1 .. n, NEW v \in Int,
         NEW f \in [1 .. n -> Int], \A i \in 1 .. n : f[i] = IF i = x THEN v ELSE 0
  PROVE  Sum(f, n) = v
<1>1. Additive(Int)
  BY DEF Additive
<1>2. PICK F \in [0 .. n -> Int] : SumsUp(F, n, f)
  BY <1>1, PartialSums
<1> DEFINE S == {k \in 0 .. n : F[k] = IF k < x THEN 0 ELSE v}
<1>3. 0 \in S
  BY <1>2 DEF SumsUp
<1>4. ASSUME NEW k \in 0 .. n - 1, k \in S PROVE k + 1 \in S
  <2>1. F[k + 1] = F[k] + f[k + 1] /\ f[k + 1] = (IF k + 1 = x THEN v ELSE 0)
    BY <1>2 DEF SumsUp
  <2>2. F[k] = IF k < x THEN 0 ELSE v
    BY <1>4
  <2> QED BY <2>1, <2>2
<1> HIDE DEF S
<1>5. 0 .. n \subseteq S
  BY <1>3, <1>4, L!IntervalInduction
<1> QED BY <1>2, <1>5 DEF S, SumsUp

\* Changing one term changes the sum by the difference.
LEMMA SumUpdate ==
  ASSUME NEW n \in Nat, NEW f \in [1 .. n -> Int], NEW x \in 1 .. n, NEW v \in Int
  PROVE  Sum([f EXCEPT ![x] = v], n) = Sum(f, n) + (v - f[x])
<1> DEFINE h == [f EXCEPT ![x] = v]
           g == [i \in 1 .. n |-> IF i = x THEN v - f[x] ELSE 0]
<1>1. h \in [1 .. n -> Int] /\ g \in [1 .. n -> Int] /\ v - f[x] \in Int
  OBVIOUS
<1>2. \A i \in 1 .. n : h[i] = f[i] + g[i]
  OBVIOUS
<1>3. \A i \in 1 .. n : g[i] = IF i = x THEN v - f[x] ELSE 0
  OBVIOUS
<1> HIDE DEF g, h
<1>4. Sum(g, n) = v - f[x]
  BY <1>1, <1>3, SumSingle
<1>5. Sum(h, n) = Sum(f, n) + Sum(g, n)
  BY <1>1, <1>2, SumPlus
<1> QED BY <1>4, <1>5 DEF h

\* A sum grows with its terms.
LEMMA SumMonotone ==
  ASSUME NEW n \in Nat, NEW f \in [1 .. n -> Int], NEW g \in [1 .. n -> Int],
         \A i \in 1 .. n : f[i] <= g[i]
  PROVE  Sum(f, n) <= Sum(g, n)
<1> DEFINE d == [i \in 1 .. n |-> g[i] - f[i]]
<1>1. d \in [1 .. n -> Nat] /\ d \in [1 .. n -> Int]
  OBVIOUS
<1>2. \A i \in 1 .. n : g[i] = f[i] + d[i]
  OBVIOUS
<1> HIDE DEF d
<1>3. Sum(g, n) = Sum(f, n) + Sum(d, n)
  BY <1>1, <1>2, SumPlus
<1>4. Sum(d, n) \in Nat /\ Sum(f, n) \in Int
  BY <1>1, SumNat, SumInt
<1> QED BY <1>3, <1>4

\* A sum of multiples is the multiple of the sum.
LEMMA SumScale ==
  ASSUME NEW n \in Nat, NEW c \in Int, NEW f \in [1 .. n -> Int],
         NEW h \in [1 .. n -> Int], \A i \in 1 .. n : h[i] = c * f[i]
  PROVE  Sum(h, n) = c * Sum(f, n)
<1>1. Additive(Int)
  BY DEF Additive
<1>2. PICK F \in [0 .. n -> Int] : SumsUp(F, n, f)
  BY <1>1, PartialSums
<1>3. PICK H \in [0 .. n -> Int] : SumsUp(H, n, h)
  BY <1>1, PartialSums
<1> DEFINE S == {k \in 0 .. n : H[k] = c * F[k]}
<1>4. 0 \in S
  BY <1>2, <1>3 DEF SumsUp
<1>5. ASSUME NEW k \in 0 .. n - 1, k \in S PROVE k + 1 \in S
  <2> DEFINE m == k + 1
  <2>1. m \in 1 .. n /\ m - 1 = k /\ m \in 0 .. n /\ k \in 0 .. n
    OBVIOUS
  <2> HIDE DEF m
  <2>2. H[m] = H[k] + h[m] /\ F[m] = F[k] + f[m]
    BY <1>2, <1>3, <2>1 DEF SumsUp
  <2>3. H[k] = c * F[k] /\ h[m] = c * f[m]
    BY <1>5, <2>1
  <2>4. F[k] \in Int /\ f[m] \in Int
    BY <2>1
  <2>5. c * F[k] + c * f[m] = c * (F[k] + f[m])
    BY <2>4
  <2>6. H[m] = c * F[m]
    BY <2>2, <2>3, <2>5
  <2> QED BY <2>1, <2>6 DEF m
<1> HIDE DEF S
<1>6. 0 .. n \subseteq S
  BY <1>4, <1>5, L!IntervalInduction
<1> QED BY <1>2, <1>3, <1>6 DEF S, SumsUp

\* Shares that are proportional up to a fraction do not exceed the whole.
LEMMA SharesWithin ==
  ASSUME NEW n \in Nat, NEW pot \in Nat, NEW f \in [1 .. n -> Nat],
         NEW g \in [1 .. n -> Nat], Sum(f, n) > 0,
         \A i \in 1 .. n : g[i] * Sum(f, n) <= pot * f[i]
  PROVE  Sum(g, n) <= pot
<1> DEFINE whole == Sum(f, n)
           parts == Sum(g, n)
<1>1. whole \in Nat \ {0} /\ parts \in Nat
  BY SumNat
<1>2. /\ f \in [1 .. n -> Int] /\ g \in [1 .. n -> Int]
      /\ whole \in Int /\ parts \in Int /\ pot \in Int
  BY <1>1
<1> DEFINE scaled == [i \in 1 .. n |-> whole * g[i]]
           spread == [i \in 1 .. n |-> pot * f[i]]
<1>3. \A i \in 1 .. n : g[i] * whole <= pot * f[i]
  OBVIOUS
<1> HIDE DEF whole, parts
<1>4. \A i \in 1 .. n : whole * g[i] \in Int /\ pot * f[i] \in Int
  BY <1>2
<1>5. /\ scaled \in [1 .. n -> Int] /\ spread \in [1 .. n -> Int]
      /\ \A i \in 1 .. n : scaled[i] = whole * g[i]
      /\ \A i \in 1 .. n : spread[i] = pot * f[i]
  BY <1>4
<1>6. \A i \in 1 .. n : scaled[i] <= spread[i]
  <2>1. ASSUME NEW i \in 1 .. n PROVE scaled[i] <= spread[i]
    <3>1. g[i] \in Int /\ f[i] \in Int
      BY <1>2
    <3>2. whole * g[i] = g[i] * whole
      BY <1>1, <3>1
    <3> QED BY <1>3, <1>5, <3>2
  <2> QED BY <2>1
<1> HIDE DEF scaled, spread
<1>7. Sum(scaled, n) = whole * parts
  BY <1>2, <1>5, SumScale DEF parts
<1>8. Sum(spread, n) = pot * whole
  BY <1>2, <1>5, SumScale DEF whole
<1>9. whole * parts <= pot * whole
  BY <1>5, <1>6, <1>7, <1>8, SumMonotone
<1>10. parts <= pot
  BY <1>1, <1>9
<1> QED BY <1>10 DEF parts

\* Terms that are far from their weights add up to a sum that is.
LEMMA SumFar ==
  ASSUME NEW n \in Nat, NEW a \in Int, NEW b \in Int, NEW f \in [1 .. n -> Int],
         NEW g \in [1 .. n -> Int], \A i \in 1 .. n : b * f[i] <= a * g[i]
  PROVE  b * Sum(f, n) <= a * Sum(g, n)
<1> DEFINE low == [i \in 1 .. n |-> b * f[i]]
           high == [i \in 1 .. n |-> a * g[i]]
<1>1. low \in [1 .. n -> Int] /\ high \in [1 .. n -> Int]
  OBVIOUS
<1>2. /\ \A i \in 1 .. n : low[i] = b * f[i]
      /\ \A i \in 1 .. n : high[i] = a * g[i]
      /\ \A i \in 1 .. n : low[i] <= high[i]
  OBVIOUS
<1> HIDE DEF low, high
<1>3. Sum(low, n) = b * Sum(f, n) /\ Sum(high, n) = a * Sum(g, n)
  BY <1>1, <1>2, SumScale
<1>4. Sum(low, n) <= Sum(high, n)
  BY <1>1, <1>2, SumMonotone
<1> QED BY <1>3, <1>4

-----------------------------------------------------------------------------
(* Greatest elements.                                                      *)

\* A nonempty set of keys has a member with the greatest value under f.
LEMMA ArgMax ==
  ASSUME NEW n \in Nat, NEW X \in SUBSET (1 .. n), X # {}, NEW f \in [1 .. n -> Int]
  PROVE  \E x \in X : \A y \in X : f[y] <= f[x]
<1> DEFINE Topped(Y) == \E x \in Y : \A y \in Y : f[y] <= f[x]
           S == {k \in 0 .. n : \A Y \in SUBSET (1 .. k) : Y # {} => Topped(Y)}
<1>1. 0 \in S
  <2>1. \A Y \in SUBSET (1 .. 0) : Y = {}
    <3>1. 1 .. 0 = {}
      OBVIOUS
    <3> QED BY <3>1
  <2> HIDE DEF Topped
  <2>2. \A Y \in SUBSET (1 .. 0) : Y # {} => Topped(Y)
    BY <2>1
  <2>3. 0 \in 0 .. n
    OBVIOUS
  <2> QED BY <2>2, <2>3
<1>2. ASSUME NEW k \in 0 .. n - 1, k \in S PROVE k + 1 \in S
  <2> SUFFICES ASSUME NEW Y \in SUBSET (1 .. k + 1), Y # {} PROVE Topped(Y)
    OBVIOUS
  <2> DEFINE Z == Y \ {k + 1}
  <2>1. Z \in SUBSET (1 .. k)
    OBVIOUS
  <2>2. CASE Z = {}
    <3>0. \A y \in Y : y = k + 1
      BY <2>2
    <3>1. k + 1 \in Y /\ f[k + 1] \in Int /\ \A y \in Y : y = k + 1
      <4>1. PICK y \in Y : TRUE
        OBVIOUS
      <4>2. k + 1 \in Y
        BY <4>1, <3>0
      <4> QED BY <4>2, <3>0
    <3>2. \A y \in Y : f[y] <= f[k + 1]
      BY <3>1
    <3> QED BY <3>1, <3>2
  <2>3. CASE Z # {}
    <3>1. PICK x \in Z : \A y \in Z : f[y] <= f[x]
      BY <1>2, <2>1, <2>3
    <3>2. x \in Y /\ f[x] \in Int /\ f[k + 1] \in Int /\ \A y \in Y : f[y] \in Int
      BY <2>1
    <3>3. CASE k + 1 \in Y /\ f[x] <= f[k + 1]
      <4>1. ASSUME NEW y \in Y PROVE f[y] <= f[k + 1]
        <5>1. f[y] <= f[x] \/ y = k + 1
          BY <3>1
        <5>2. f[y] \in Int
          BY <3>2
        <5> QED BY <5>1, <5>2, <3>2, <3>3
      <4> QED BY <4>1, <3>3
    <3>4. CASE k + 1 \notin Y \/ f[k + 1] <= f[x]
      <4>1. ASSUME NEW y \in Y PROVE f[y] <= f[x]
        <5>1. y \in Z \/ y = k + 1
          OBVIOUS
        <5> QED BY <5>1, <3>1, <3>4
      <4> QED BY <4>1, <3>2
    <3> QED BY <3>2, <3>3, <3>4
  <2> QED BY <2>2, <2>3
<1> HIDE DEF S
<1>3. 0 .. n \subseteq S
  BY <1>1, <1>2, L!IntervalInduction
<1> QED BY <1>3 DEF S

-----------------------------------------------------------------------------
(* Arrays, quotients and rounding.                                         *)

\* A set of numbers up to n is finite, so its size is a number.
LEMMA SubsetFinite ==
  ASSUME NEW n \in Nat, NEW X \in SUBSET (1 .. n)
  PROVE  IsFiniteSet(X) /\ Cardinality(X) \in Nat
<1>1. IsFiniteSet(1 .. n)
  BY FS_Interval
<1>2. IsFiniteSet(X)
  BY <1>1, FS_Subset
<1> QED BY <1>2, FS_CardinalityType

\* Push keeps an array of positions.
LEMMA PushType ==
  ASSUME NEW n \in Nat, NEW a \in [1 .. n -> Nat], NEW x \in 1 .. n
  PROVE  Push(a, x) \in [1 .. n -> Nat]
<1>1. Elements(a) \in SUBSET (1 .. n)
  BY DEF Elements
<1>2. Cardinality(Elements(a)) \in Nat
  BY <1>1, SubsetFinite
<1>3. Cardinality(Elements(a)) + 1 \in Nat
  BY <1>2
<1> QED BY <1>3 DEF Push

\* Without keeps an array of positions.
LEMMA WithoutType ==
  ASSUME NEW n \in Nat, NEW a \in [1 .. n -> Nat], NEW x \in 1 .. n
  PROVE  Without(a, x) \in [1 .. n -> Nat]
BY DEF Without

\* The last element of a nonempty set is in it.
LEMMA LastOfIn ==
  ASSUME NEW n \in Nat, NEW a \in [1 .. n -> Nat], NEW X \in SUBSET (1 .. n), X # {}
  PROVE  LastOf(a, X) \in X
<1>1. a \in [1 .. n -> Int]
  OBVIOUS
<1>2. \E x \in X : \A y \in X : a[y] <= a[x]
  BY <1>1, ArgMax
<1> QED BY <1>2 DEF LastOf

\* Math.round of a nonnegative ratio is a natural.
LEMMA RoundDivNat ==
  ASSUME NEW a \in Nat, NEW b \in Nat \ {0}
  PROVE  RoundDiv(a, b) \in Nat
BY DEF RoundDiv

\* Math.round of a ratio is an integer.
LEMMA RoundDivInt ==
  ASSUME NEW a \in Int, NEW b \in Nat \ {0}
  PROVE  RoundDiv(a, b) \in Int
BY DEF RoundDiv

\* BigInt division yields an integer.
LEMMA QuotientInt ==
  ASSUME NEW a \in Int, NEW b \in Nat \ {0}
  PROVE  Quotient(a, b) \in Int
BY DEF Quotient

-----------------------------------------------------------------------------
(* Queries.                                                                *)

\* The types of the fields the queries read.
LEMMA PoolFields ==
  ASSUME NEW p \in PoolRecord
  PROVE  /\ p.members \in [Soul -> Nat]
         /\ p.balances \in [Soul -> Int]
         /\ p.frozen \subseteq Soul
         /\ p.head \in Key
         /\ p.parentSuperstructures \in [Cell -> Nat]
         /\ p.childCells \in [Cell -> Nat]
         /\ p.childPopulation \in [Cell -> Nat]
         /\ p.governanceSliders \in [Soul -> Row]
         /\ p.parameters \in [GovernanceParameter -> Ratio]
         /\ p.childSliderRelay \in [Cell -> [relayed : BOOLEAN, row : Row]]
         /\ p.vouchLiens \in [Soul -> VouchLien]
         /\ p.vouchSliders \in [Soul -> [Soul -> Nat \cup {Unset}]]
         /\ p.redistributionSliders \in [Soul -> [Soul -> Nat]]
BY DEF PoolRecord

\* Member sets are sets of souls, links are sets of cells.
LEMMA SubsetsOfKeys ==
  ASSUME NEW p \in PoolRecord
  PROVE  /\ Members(p) \in SUBSET Soul
         /\ Unfrozen(p) \in SUBSET Soul
         /\ Parents(p) \in SUBSET Cell
         /\ Children(p) \in SUBSET Cell
BY PoolFields DEF Members, Unfrozen, Parents, Children, Elements

\* votingWeight is an integer, stakeWeightNumber never negative.
LEMMA StakeWeightNat ==
  ASSUME NEW p \in PoolRecord, NEW m \in Soul
  PROVE  VotingWeight(p, m) \in Int /\ StakeWeight(p, m) \in Nat
BY PoolFields DEF VotingWeight, StakeWeight, Greatest

\* A child Cell weighs a natural number.
LEMMA ChildWeightNat ==
  ASSUME NEW p \in PoolRecord
  PROVE  ChildWeight(p) \in [Cell -> Nat]
<1>1. ASSUME NEW c \in Cell PROVE POINTS_SCALE * Greatest(1, p.childPopulation[c]) \in Nat
  BY PoolFields, SizeAssumption DEF Greatest
<1> QED BY <1>1 DEF ChildWeight

\* The weight behind a governance parameter is a natural.
LEMMA GovernanceWeightNat ==
  ASSUME NEW p \in PoolRecord
  PROVE  GovernanceWeight(p) \in Nat
<1>1. [m \in Soul |-> StakeWeight(p, m)] \in [1 .. N -> Nat]
  BY StakeWeightNat DEF Soul
<1>2. ChildWeight(p) \in [1 .. M -> Nat]
  BY ChildWeightNat DEF Cell
<1> QED BY <1>1, <1>2, SumNat, SizeAssumption DEF GovernanceWeight

\* resolveGovernanceParameter is defined: it never divides by zero.
LEMMA ParameterRatio ==
  ASSUME NEW p \in PoolRecord, NEW param \in GovernanceParameter
  PROVE  ResolveGovernanceParameter(p, param) \in Ratio
<1> DEFINE fallback == p.parameters[param]
           stake == [m \in Soul |-> StakeWeight(p, m)]
           people == ChildWeight(p)
           voiced == [m \in Soul |-> p.governanceSliders[m][param] * stake[m]]
           relayed == [c \in Cell |-> IF p.childSliderRelay[c].relayed
                                      THEN p.childSliderRelay[c].row[param] * people[c]
                                      ELSE 0]
           quiet == [c \in Cell |-> IF p.childSliderRelay[c].relayed
                                    THEN 0 ELSE people[c]]
           weight == GovernanceWeight(p)
           sliders == Sum(voiced, N)
           relays == Sum(relayed, M)
           silent == Sum(quiet, M)
<1>1. fallback \in Ratio
  BY PoolFields
<1>2. weight \in Nat
  BY GovernanceWeightNat
<1>3. voiced \in [1 .. N -> Nat]
  <2>1. ASSUME NEW m \in Soul PROVE p.governanceSliders[m][param] * stake[m] \in Nat
    <3>1. p.governanceSliders[m][param] \in Nat
      BY PoolFields DEF Row
    <3>2. stake[m] \in Nat
      BY StakeWeightNat
    <3> QED BY <3>1, <3>2
  <2> QED BY <2>1 DEF Soul
<1>4. people \in [Cell -> Nat]
  BY ChildWeightNat
<1>5. relayed \in [1 .. M -> Nat]
  <2>1. ASSUME NEW c \in Cell PROVE p.childSliderRelay[c].row[param] * people[c] \in Nat
    <3>1. p.childSliderRelay[c].row[param] \in Nat
      BY PoolFields DEF Row
    <3> HIDE DEF people
    <3> QED BY <3>1, <1>4
  <2> HIDE DEF people
  <2> QED BY <2>1 DEF Cell
<1> HIDE DEF people
<1>6. quiet \in [1 .. M -> Nat]
  BY <1>4 DEF Cell
<1> HIDE DEF voiced, relayed, quiet
<1>7. sliders \in Nat /\ relays \in Nat /\ silent \in Nat
  BY <1>3, <1>5, <1>6, SumNat, SizeAssumption
<1>8. ResolveGovernanceParameter(p, param) =
        IF weight = 0 THEN fallback
        ELSE IF silent = 0 THEN [num |-> sliders + relays, den |-> weight]
        ELSE [num |-> (sliders + relays) * fallback.den + silent * fallback.num,
              den |-> weight * fallback.den]
  BY DEF ResolveGovernanceParameter, voiced, relayed, quiet, people
<1> HIDE DEF sliders, relays, silent, weight, fallback
<1>9. fallback.num \in Nat /\ fallback.den \in Nat \ {0}
  BY <1>1 DEF Ratio
<1>10. (sliders + relays) * fallback.den + silent * fallback.num \in Nat
  BY <1>7, <1>9
<1>11. weight # 0 => weight \in Nat \ {0} /\ weight * fallback.den \in Nat \ {0}
  BY <1>2, <1>9
<1> QED BY <1>1, <1>7, <1>8, <1>10, <1>11 DEF Ratio

\* The redistribution interval is never zero, so the catch-up loop divides safely.
LEMMA CirculationIntervalPositive ==
  ASSUME NEW p \in PoolRecord
  PROVE  CirculationInterval(p) \in Nat \ {0}
<1> DEFINE raw == ResolveGovernanceParameter(p, "epoch_interval")
<1>1. raw \in Ratio
  BY ParameterRatio DEF GovernanceParameter
<1> HIDE DEF raw
<1>2. raw.num \in Nat /\ raw.den * MIN_EPOCH_INTERVAL \in Nat \ {0}
  BY <1>1, SizeAssumption DEF Ratio
<1>3. RoundDiv(raw.num, raw.den * MIN_EPOCH_INTERVAL) \in Nat
  BY <1>2, RoundDivNat
<1>4. RoundDiv(raw.num, raw.den * MIN_EPOCH_INTERVAL) * MIN_EPOCH_INTERVAL \in Nat
  BY <1>3, SizeAssumption
<1> QED BY <1>4, SizeAssumption DEF CirculationInterval, Greatest, raw

\* availableToPledge is never negative.
LEMMA AvailableToPledgeNat ==
  ASSUME NEW p \in PoolRecord, NEW inviter \in Soul
  PROVE  AvailableToPledge(p, inviter) \in Nat
<1> DEFINE pledged == [s \in Soul |-> IF p.vouchLiens[s].inviter = inviter
                                      THEN p.vouchLiens[s].amount ELSE 0]
<1>1. pledged \in [1 .. N -> Nat]
  <2>1. \A s \in Soul : p.vouchLiens[s] \in VouchLien
    BY PoolFields
  <2>2. \A l \in VouchLien : l.amount \in Nat
    BY DEF VouchLien, NoLien
  <2> QED BY <2>1, <2>2 DEF Soul
<1>2. Sum(pledged, N) \in Nat
  BY <1>1, SumNat, SizeAssumption
<1>3. p.balances[inviter] \in Int
  BY PoolFields
<1> QED BY <1>2, <1>3 DEF AvailableToPledge, PledgedLienTotal, Greatest

\* requiredVouchLien is an integer.
LEMMA RequiredVouchLienInt ==
  ASSUME NEW p \in PoolRecord, NEW inviter \in Soul
  PROVE  RequiredVouchLien(p, inviter) \in Int
<1> DEFINE rate == ResolveGovernanceParameter(p, "vouch_bond_rate")
           backed == {s \in Soul : p.vouchLiens[s].inviter = inviter}
<1>1. rate \in Ratio
  BY ParameterRatio DEF GovernanceParameter
<1> HIDE DEF rate
<1>2. RoundDiv(rate.num, rate.den) \in Nat
  BY <1>1, RoundDivNat DEF Ratio
<1>3. p.balances[inviter] * RoundDiv(rate.num, rate.den) \in Int
  BY <1>2, PoolFields
<1>4. Quotient(p.balances[inviter] * RoundDiv(rate.num, rate.den), 100) \in Int
  BY <1>3, QuotientInt
<1>5. Cardinality(backed) \in Nat
  <2>1. backed \in SUBSET (1 .. N)
    BY DEF Soul
  <2> HIDE DEF backed
  <2> QED BY <2>1, SubsetFinite, SizeAssumption
<1> QED BY <1>4, <1>5 DEF RequiredVouchLien, CountActiveVouches, rate

\* A candidate's vouch score is an integer.
LEMMA VouchScoreInt ==
  ASSUME NEW p \in PoolRecord, NEW target \in Soul
  PROVE  VouchScore(p, target) \in Int
<1> DEFINE backing == [v \in Soul |->
             IF v # target /\ p.vouchSliders[v][target] # Unset
             THEN p.vouchSliders[v][target] * StakeWeight(p, v) ELSE 0]
<1>1. backing \in [1 .. N -> Int]
  <2>1. ASSUME NEW v \in Soul, p.vouchSliders[v][target] # Unset
        PROVE  p.vouchSliders[v][target] * StakeWeight(p, v) \in Int
    <3>1. p.vouchSliders[v][target] \in Nat
      BY PoolFields, <2>1
    <3>2. StakeWeight(p, v) \in Nat
      BY StakeWeightNat
    <3> QED BY <3>1, <3>2
  <2> QED BY <2>1 DEF Soul
<1> HIDE DEF backing
<1>2. Sum(backing, N) \in Int
  BY <1>1, SumInt, SizeAssumption
<1> QED BY <1>2 DEF VouchScore, backing

\* There is a best candidate as soon as there is one.
LEMMA TopCandidateIsCandidate ==
  ASSUME NEW p \in PoolRecord, Candidates(p) # {}
  PROVE  TopCandidate(p) \in Candidates(p)
<1> DEFINE score == [t \in Soul |-> VouchScore(p, t)]
<1>1. score \in [1 .. N -> Int]
  BY VouchScoreInt DEF Soul
<1>2. Candidates(p) \in SUBSET (1 .. N)
  BY SubsetsOfKeys DEF Candidates, Soul
<1> HIDE DEF score
<1>3. \E t \in Candidates(p) : \A u \in Candidates(p) : score[u] <= score[t]
  BY <1>1, <1>2, ArgMax, SizeAssumption
<1>4. \E t \in Candidates(p) : \A u \in Candidates(p) : VouchScore(p, u) <= VouchScore(p, t)
  BY <1>2, <1>3 DEF score, Soul
<1> QED BY <1>4 DEF TopCandidate

\* resolveVouchHead elects a member or nobody.
LEMMA ResolveVouchHeadIsMember ==
  ASSUME NEW p \in PoolRecord
  PROVE  ResolveVouchHead(p) \in Members(p) \cup {None}
BY TopCandidateIsCandidate DEF ResolveVouchHead, Candidates, Unfrozen

\* resolveVouchHead yields a key or null.
LEMMA ResolveVouchHeadKey ==
  ASSUME NEW p \in PoolRecord
  PROVE  ResolveVouchHead(p) \in Key
BY ResolveVouchHeadIsMember, SubsetsOfKeys, SizeAssumption DEF Soul, Key, None

\* resolveRedistributionTargets weighs eligible souls, with naturals.
LEMMA RedistributionTargetsType ==
  ASSUME NEW p \in PoolRecord, NEW ts
  PROVE  /\ EligibleRecipients(p, ts) \in SUBSET Soul
         /\ ResolveRedistributionTargets(p, ts) \in [EligibleRecipients(p, ts) -> Nat]
<1> DEFINE eligible == EligibleRecipients(p, ts)
<1>1. eligible \in SUBSET Soul
  BY SubsetsOfKeys DEF EligibleRecipients
<1> HIDE DEF eligible
<1>2. Cardinality(eligible) \in Nat
  BY <1>1, SubsetFinite, SizeAssumption DEF Soul
<1>3. ASSUME NEW t \in eligible PROVE RedistributionWeight(p, eligible, t) \in Nat
  <2> DEFINE spoken(v) == {u \in eligible : p.redistributionSliders[v][u] > 0}
             voice(v) == IF spoken(v) # {}
                         THEN p.redistributionSliders[v][t] * Cardinality(eligible)
                         ELSE IF v \in eligible
                         THEN IF v = t THEN Cardinality(eligible) ELSE 0
                         ELSE 1
             voices == [v \in Soul |-> IF v \in Unfrozen(p) THEN voice(v) ELSE 0]
  <2>1. ASSUME NEW v \in Soul PROVE voice(v) \in Nat
    <3>1. p.redistributionSliders[v][t] \in Nat
      BY PoolFields, <1>1
    <3>2. p.redistributionSliders[v][t] * Cardinality(eligible) \in Nat
      BY <3>1, <1>2
    <3> QED BY <3>2, <1>2
  <2> HIDE DEF voice
  <2>2. voices \in [1 .. N -> Nat]
    BY <2>1 DEF Soul
  <2> HIDE DEF voices
  <2>3. Sum(voices, N) \in Nat
    BY <2>2, SumNat, SizeAssumption
  <2> QED BY <2>3 DEF RedistributionWeight, voices, voice
<1> QED BY <1>1, <1>3 DEF ResolveRedistributionTargets, eligible

-----------------------------------------------------------------------------
(* How points move: Economy.                                               *)

Round == [remaining : Int, taken : [Soul -> Int], pool : SUBSET Soul]

\* A round of decay keeps the type of the allocation.
LEMMA DecayRoundType ==
  ASSUME NEW r \in Round, NEW num \in [Soul -> Nat], NEW bal \in [Soul -> Int]
  PROVE  DecayRound(r, num, bal) \in Round
<1> DEFINE inPool == [m \in Soul |-> IF m \in r.pool THEN num[m] ELSE 0]
           weight == Sum(inPool, N)
           last == CHOOSE m \in r.pool : \A o \in r.pool : o <= m
           headroom(m) == bal[m] - r.taken[m]
           floored == [m \in Soul |->
                         IF m \in r.pool \ {last}
                         THEN Least(headroom(m), (r.remaining * num[m]) \div weight)
                         ELSE 0]
           share == [floored EXCEPT ![last] =
                       Least(headroom(last), r.remaining - Sum(floored, N))]
           taken == [m \in Soul |-> r.taken[m] + share[m]]
<1>1. r.remaining \in Int /\ r.taken \in [Soul -> Int] /\ r.pool \in SUBSET Soul
  BY DEF Round
<1> SUFFICES ASSUME r.pool # {}, weight # 0
             PROVE  [remaining |-> r.remaining - Sum(share, N),
                     taken |-> taken,
                     pool |-> {m \in r.pool : taken[m] < bal[m]}] \in Round
  BY DEF DecayRound
<1>2. weight \in Nat \ {0}
  <2>1. inPool \in [1 .. N -> Nat]
    BY DEF Soul
  <2> HIDE DEF inPool
  <2> QED BY <2>1, SumNat, SizeAssumption
<1>3. last \in Soul
  <2> DEFINE id == [m \in 1 .. N |-> m]
  <2>1. id \in [1 .. N -> Int]
    BY SizeAssumption
  <2>2. \E m \in r.pool : \A o \in r.pool : id[o] <= id[m]
    <3> HIDE DEF id
    <3> QED BY <1>1, <2>1, ArgMax, SizeAssumption DEF Soul
  <2>3. \E m \in r.pool : \A o \in r.pool : o <= m
    BY <1>1, <2>2 DEF Soul
  <2> QED BY <1>1, <2>3
<1>4. \A m \in Soul : headroom(m) \in Int
  BY <1>1
<1> HIDE DEF weight, headroom, last
<1>5. floored \in [1 .. N -> Int]
  <2>1. ASSUME NEW m \in Soul
        PROVE  Least(headroom(m), (r.remaining * num[m]) \div weight) \in Int
    <3>1. r.remaining * num[m] \in Int
      BY <1>1
    <3>2. (r.remaining * num[m]) \div weight \in Int
      BY <3>1, <1>2
    <3> QED BY <3>2, <1>4 DEF Least
  <2> QED BY <2>1 DEF Soul
<1> HIDE DEF floored
<1>6. Sum(floored, N) \in Int
  BY <1>5, SumInt, SizeAssumption
<1>7. share \in [1 .. N -> Int]
  <2>1. headroom(last) \in Int /\ r.remaining - Sum(floored, N) \in Int
    BY <1>1, <1>3, <1>4, <1>6
  <2>2. Least(headroom(last), r.remaining - Sum(floored, N)) \in Int
    BY <2>1 DEF Least
  <2> QED BY <2>2, <1>5
<1> HIDE DEF share
<1>8. Sum(share, N) \in Int
  BY <1>7, SumInt, SizeAssumption
<1>9. taken \in [Soul -> Int]
  <2>1. ASSUME NEW m \in Soul PROVE r.taken[m] + share[m] \in Int
    <3>1. r.taken[m] \in Int
      BY <1>1
    <3>2. share[m] \in Int
      BY <1>7 DEF Soul
    <3> QED BY <3>1, <3>2
  <2> QED BY <2>1
<1> HIDE DEF taken
<1> QED BY <1>1, <1>8, <1>9 DEF Round

\* allocateProportionalDecay yields a charge for every soul.
LEMMA AllocateProportionalDecayType ==
  ASSUME NEW totalDecay \in Int, NEW holders \in SUBSET Soul,
         NEW num \in [Soul -> Nat], NEW bal \in [Soul -> Int]
  PROVE  AllocateProportionalDecay(totalDecay, holders, num, bal) \in [Soul -> Int]
<1> DEFINE start == [remaining |-> totalDecay, taken |-> [m \in Soul |-> 0], pool |-> holders]
           step == [k \in 1 .. N |-> [r \in Round |-> DecayRound(r, num, bal)]]
           rounds == CHOOSE g : g = [k \in 0 .. N |->
                       IF k = 0 THEN start ELSE DecayRound(g[k - 1], num, bal)]
<1>1. start \in Round
  BY DEF Round
<1>2. step \in [1 .. N -> [Round -> Round]]
  BY DecayRoundType
<1> HIDE DEF start, step
<1>3. PICK g \in [0 .. N -> Round] : L!Recurs(g, N, start, step)
  BY <1>1, <1>2, L!RecursionDefined, SizeAssumption
<1>4. ASSUME NEW k \in 1 .. N PROVE step[k][g[k - 1]] = DecayRound(g[k - 1], num, bal)
  <2>1. g[k - 1] \in Round
    BY <1>3, SizeAssumption
  <2> QED BY <2>1 DEF step
<1>5. g = [k \in 0 .. N |-> IF k = 0 THEN start ELSE DecayRound(g[k - 1], num, bal)]
  BY <1>3, <1>4, SizeAssumption DEF L!Recurs
<1>6. rounds = [k \in 0 .. N |-> IF k = 0 THEN start ELSE DecayRound(rounds[k - 1], num, bal)]
  BY <1>5, Zenon
<1>7. AllocateProportionalDecay(totalDecay, holders, num, bal) = rounds[N].taken
  BY DEF AllocateProportionalDecay, start
<1> HIDE DEF rounds
<1> DEFINE S == {k \in 0 .. N : rounds[k] \in Round}
<1>8. 0 \in S
  BY <1>1, <1>6, SizeAssumption
<1>9. ASSUME NEW k \in 0 .. N - 1, k \in S PROVE k + 1 \in S
  <2>1. rounds[k + 1] = DecayRound(rounds[k], num, bal)
    BY <1>6, SizeAssumption
  <2>2. rounds[k] \in Round
    BY <1>9
  <2> QED BY <2>1, <2>2, DecayRoundType, SizeAssumption
<1> HIDE DEF S
<1>10. 0 .. N \subseteq S
  BY <1>8, <1>9, L!IntervalInduction, SizeAssumption
<1>11. rounds[N] \in Round
  BY <1>10, SizeAssumption DEF S
<1> QED BY <1>7, <1>11 DEF Round

\* A round in which nobody is charged more than he holds, nor less than nothing.
FairRound(bal) ==
  {r \in Round : /\ r.remaining \in Nat
                 /\ \A m \in Soul : r.taken[m] \in Nat /\ r.taken[m] <= bal[m]}

\* A round of decay charges no more than what remains and than what is held.
LEMMA DecayRoundFair ==
  ASSUME NEW num \in [Soul -> Nat], NEW bal \in [Soul -> Nat], NEW r \in FairRound(bal)
  PROVE  DecayRound(r, num, bal) \in FairRound(bal)
<1> DEFINE inPool == [m \in Soul |-> IF m \in r.pool THEN num[m] ELSE 0]
           weight == Sum(inPool, N)
           last == CHOOSE m \in r.pool : \A o \in r.pool : o <= m
           headroom(m) == bal[m] - r.taken[m]
           part(m) == (r.remaining * num[m]) \div weight
           floored == [m \in Soul |->
                         IF m \in r.pool \ {last} THEN Least(headroom(m), part(m)) ELSE 0]
           rest == Least(headroom(last), r.remaining - Sum(floored, N))
           share == [floored EXCEPT ![last] = rest]
           taken == [m \in Soul |-> r.taken[m] + share[m]]
           left == [remaining |-> r.remaining - Sum(share, N),
                    taken |-> taken,
                    pool |-> {m \in r.pool : taken[m] < bal[m]}]
<1>1. /\ r.remaining \in Nat /\ r.pool \in SUBSET Soul /\ r \in Round
      /\ \A m \in Soul : r.taken[m] \in Nat /\ r.taken[m] <= bal[m]
  BY DEF FairRound, Round
<1>2. CASE r.remaining = 0 \/ r.pool = {} \/ weight = 0
  <2>1. DecayRound(r, num, bal) = r
    BY <1>2 DEF DecayRound
  <2> QED BY <2>1
<1>3. CASE ~ (r.remaining = 0 \/ r.pool = {} \/ weight = 0)
  <2>1. DecayRound(r, num, bal) = left
    BY <1>3 DEF DecayRound
  <2>2. DecayRound(r, num, bal) \in Round
    <3>1. bal \in [Soul -> Int]
      OBVIOUS
    <3> QED BY <1>1, <3>1, DecayRoundType
  <2>3. inPool \in [1 .. N -> Nat]
    BY DEF Soul
  <2>4. weight \in Nat /\ weight > 0
    <3> HIDE DEF inPool
    <3>1. weight \in Nat
      BY <2>3, SumNat, SizeAssumption
    <3> QED BY <3>1, <1>3
  <2>5. last \in r.pool /\ last \in Soul
    <3> DEFINE id == [m \in 1 .. N |-> m]
    <3>1. id \in [1 .. N -> Int]
      BY SizeAssumption
    <3>2. \E m \in r.pool : \A o \in r.pool : id[o] <= id[m]
      <4> HIDE DEF id
      <4> QED BY <1>1, <1>3, <3>1, ArgMax, SizeAssumption DEF Soul
    <3>3. \E m \in r.pool : \A o \in r.pool : o <= m
      BY <1>1, <3>2 DEF Soul
    <3> QED BY <1>1, <3>3
  <2>6. \A m \in Soul : headroom(m) \in Nat
    BY <1>1
  <2>7. ASSUME NEW m \in Soul
        PROVE  part(m) \in Nat /\ part(m) * weight <= r.remaining * num[m]
    <3> DEFINE a == r.remaining * num[m]
    <3>1. a \in Nat
      BY <1>1
    <3> HIDE DEF a, weight
    <3>2. a \div weight \in Nat /\ (a \div weight) * weight <= a
      BY <2>4, <3>1
    <3> QED BY <3>2 DEF a
  <2> HIDE DEF headroom, part, last
  <2>8. /\ floored \in [1 .. N -> Nat]
        /\ \A m \in Soul : floored[m] <= headroom(m)
        /\ \A m \in Soul : floored[m] * weight <= r.remaining * inPool[m]
        /\ floored[last] = 0
    <3>1. ASSUME NEW m \in r.pool \ {last}
          PROVE  /\ floored[m] \in Nat /\ floored[m] <= headroom(m)
                 /\ floored[m] * weight <= r.remaining * inPool[m]
      <4>1. m \in Soul /\ inPool[m] = num[m] /\ floored[m] = Least(headroom(m), part(m))
        BY <1>1
      <4> DEFINE fl == floored[m]
                 x == headroom(m)
                 y == part(m)
      <4>2. fl \in Nat /\ fl <= headroom(m) /\ fl <= part(m)
        <5>1. x \in Nat /\ y \in Nat /\ fl = Least(x, y)
          BY <2>6, <2>7, <4>1
        <5> HIDE DEF fl, x, y
        <5>2. fl \in Nat /\ fl <= x /\ fl <= y
          BY <5>1 DEF Least
        <5> QED BY <5>2 DEF x, y
      <4>3. part(m) \in Nat /\ part(m) * weight <= r.remaining * inPool[m]
        BY <2>7, <4>1
      <4> HIDE DEF fl, weight, floored, inPool
      <4>4. fl * weight <= part(m) * weight
        BY <2>4, <4>2, <4>3
      <4>5. fl * weight \in Int /\ part(m) * weight \in Int /\ r.remaining * inPool[m] \in Int
        BY <1>1, <2>3, <2>4, <4>1, <4>2, <4>3 DEF Soul
      <4>6. fl * weight <= r.remaining * inPool[m]
        BY <4>3, <4>4, <4>5
      <4> QED BY <4>2, <4>6 DEF fl
    <3>2. ASSUME NEW m \in Soul, m \notin r.pool \ {last}
          PROVE  /\ floored[m] = 0 /\ floored[m] <= headroom(m)
                 /\ floored[m] * weight <= r.remaining * inPool[m]
      <4>1. floored[m] = 0 /\ inPool[m] \in Nat
        BY <3>2
      <4> HIDE DEF weight, floored, inPool
      <4>2. 0 * weight = 0 /\ r.remaining * inPool[m] \in Nat
        BY <1>1, <2>4, <4>1
      <4> QED BY <2>6, <4>1, <4>2
    <3>3. DOMAIN floored = Soul
      OBVIOUS
    <3> HIDE DEF floored, weight, inPool
    <3>4. \A m \in Soul : floored[m] \in Nat
      BY <3>1, <3>2
    <3>5. floored \in [1 .. N -> Nat]
      <4>1. floored = [m \in Soul |-> floored[m]]
        BY <2>5 DEF floored
      <4> QED BY <3>4, <4>1 DEF Soul
    <3> QED BY <2>5, <3>1, <3>2, <3>5
  <2>9. Sum(floored, N) \in Nat /\ Sum(floored, N) <= r.remaining
    <3> HIDE DEF floored, inPool
    <3>1. \A m \in 1 .. N : floored[m] * Sum(inPool, N) <= r.remaining * inPool[m]
      BY <2>8 DEF Soul
    <3>2. Sum(inPool, N) > 0
      BY <2>4
    <3>3. floored \in [1 .. N -> Nat]
      BY <2>8
    <3> QED BY <1>1, <2>3, <3>1, <3>2, <3>3, SumNat, SharesWithin, SizeAssumption
  <2>10. rest \in Nat /\ rest <= headroom(last) /\ rest <= r.remaining - Sum(floored, N)
    <3> HIDE DEF floored
    <3> QED BY <1>1, <2>5, <2>6, <2>9 DEF Least
  <2>11. /\ \A m \in Soul : share[m] \in Nat /\ share[m] <= headroom(m)
         /\ Sum(share, N) = Sum(floored, N) + rest
    <3> HIDE DEF floored, rest
    <3>1. floored \in [1 .. N -> Int] /\ last \in 1 .. N /\ rest \in Int
      BY <2>5, <2>8, <2>10 DEF Soul
    <3>2. Sum(share, N) = Sum(floored, N) + (rest - floored[last])
      BY <3>1, SumUpdate, SizeAssumption
    <3>3. rest - floored[last] = rest
      BY <2>8, <2>10
    <3>4. ASSUME NEW m \in Soul PROVE share[m] \in Nat /\ share[m] <= headroom(m)
      <4>1. m \in DOMAIN floored /\ floored[m] \in Nat
        BY <2>8 DEF Soul
      <4>2. CASE m = last
        BY <2>10, <4>1, <4>2
      <4>3. CASE m # last
        BY <2>8, <4>1, <4>3
      <4> QED BY <4>2, <4>3
    <3> QED BY <3>2, <3>3, <3>4
  <2>12. r.remaining - Sum(share, N) \in Nat
    <3> HIDE DEF floored, share, rest
    <3> QED BY <1>1, <2>9, <2>10, <2>11
  <2>13. \A m \in Soul : taken[m] \in Nat /\ taken[m] <= bal[m]
    <3>1. ASSUME NEW m \in Soul PROVE taken[m] \in Nat /\ taken[m] <= bal[m]
      <4>1. /\ share[m] \in Nat /\ share[m] <= headroom(m)
            /\ r.taken[m] \in Nat /\ bal[m] \in Nat
        BY <1>1, <2>11
      <4> HIDE DEF share
      <4> QED BY <4>1 DEF headroom
    <3> QED BY <3>1
  <2> HIDE DEF taken, share
  <2> QED BY <2>1, <2>2, <2>12, <2>13 DEF FairRound
<1> QED BY <1>2, <1>3

\* allocateProportionalDecay charges everybody between nothing and all he holds.
LEMMA DecayIsFair ==
  ASSUME NEW totalDecay \in Nat, NEW holders \in SUBSET Soul,
         NEW num \in [Soul -> Nat], NEW bal \in [Soul -> Nat], NEW s \in Soul
  PROVE  LET decay == AllocateProportionalDecay(totalDecay, holders, num, bal)
         IN  decay[s] \in Nat /\ decay[s] <= bal[s]
<1> DEFINE start == [remaining |-> totalDecay, taken |-> [m \in Soul |-> 0], pool |-> holders]
           step == [k \in 1 .. N |-> [r \in FairRound(bal) |-> DecayRound(r, num, bal)]]
           rounds == CHOOSE g : g = [k \in 0 .. N |->
                       IF k = 0 THEN start ELSE DecayRound(g[k - 1], num, bal)]
           Fair == FairRound(bal)
<1>1. start \in Fair
  BY DEF Round, FairRound
<1>2. step \in [1 .. N -> [Fair -> Fair]]
  BY DecayRoundFair
<1> HIDE DEF start, step, Fair
<1>3. PICK g \in [0 .. N -> Fair] : L!Recurs(g, N, start, step)
  BY <1>1, <1>2, L!RecursionDefined, SizeAssumption
<1>4. ASSUME NEW k \in 1 .. N PROVE step[k][g[k - 1]] = DecayRound(g[k - 1], num, bal)
  <2>1. g[k - 1] \in Fair
    BY <1>3, SizeAssumption
  <2> QED BY <2>1 DEF step, Fair
<1>5. g = [k \in 0 .. N |-> IF k = 0 THEN start ELSE DecayRound(g[k - 1], num, bal)]
  BY <1>3, <1>4, SizeAssumption DEF L!Recurs
<1>6. rounds = [k \in 0 .. N |-> IF k = 0 THEN start ELSE DecayRound(rounds[k - 1], num, bal)]
  BY <1>5, Zenon
<1>7. AllocateProportionalDecay(totalDecay, holders, num, bal) = rounds[N].taken
  BY DEF AllocateProportionalDecay, start
<1> HIDE DEF rounds
<1> DEFINE S == {k \in 0 .. N : rounds[k] \in Fair}
<1>8. 0 \in S
  BY <1>1, <1>6, SizeAssumption
<1>9. ASSUME NEW k \in 0 .. N - 1, k \in S PROVE k + 1 \in S
  <2>1. rounds[k + 1] = DecayRound(rounds[k], num, bal) /\ k + 1 \in 0 .. N
    BY <1>6, SizeAssumption
  <2>2. rounds[k] \in Fair
    BY <1>9
  <2>3. DecayRound(rounds[k], num, bal) \in Fair
    BY <2>2, DecayRoundFair DEF Fair
  <2> QED BY <2>1, <2>3
<1> HIDE DEF S
<1>10. 0 .. N \subseteq S
  BY <1>8, <1>9, L!IntervalInduction, SizeAssumption
<1>11. rounds[N] \in Fair
  BY <1>10, SizeAssumption DEF S
<1> QED BY <1>7, <1>11 DEF Fair, FairRound

\* The types of the fields circulation updates.
LEMMA ValuesOfPoints ==
  ASSUME NEW p \in PoolRecord
  PROVE  /\ p.commons \in Int
         /\ p.totalSupply \in Nat
         /\ p.circulationCarry \in Nat
         /\ p.superstructureEscrow \in [Cell -> Int]
         /\ p.childCellEscrow \in [Cell -> Int]
         /\ p.eventCount \in Nat
         /\ p.lastAccrualTimestamp \in Nat
         /\ p.lastRedistributionTimestamp \in Nat
         /\ p.maxEventTimestamp \in Nat
BY DEF PoolRecord

\* What is carried is never negative: no more is collected than accrued.
LEMMA CarryNat ==
  ASSUME NEW numerator \in Nat, NEW collected \in Nat,
         collected <= numerator \div YEAR_DENOMINATOR
  PROVE  Carry(numerator, collected) \in Nat
<1> DEFINE whole == numerator \div YEAR_DENOMINATOR
<1>1. whole \in Nat /\ whole * YEAR_DENOMINATOR <= numerator
  BY SizeAssumption
<1>2. collected * YEAR_DENOMINATOR <= whole * YEAR_DENOMINATOR
  <2> HIDE DEF whole
  <2>1. collected <= whole
    BY DEF whole
  <2> QED BY <1>1, <2>1, SizeAssumption
<1>3. collected * YEAR_DENOMINATOR \in Nat /\ whole * YEAR_DENOMINATOR \in Nat
  BY <1>1, SizeAssumption
<1> HIDE DEF whole
<1> QED BY <1>1, <1>2, <1>3 DEF Carry

\* accrueCirculation keeps the type of the Pool.
LEMMA AccrueCirculationType ==
  ASSUME NEW p \in PoolRecord, NEW annualPercent \in Ratio, NEW elapsed \in Nat
  PROVE  AccrueCirculation(p, annualPercent, elapsed) \in PoolRecord
<1> DEFINE annualBps == RoundDiv(100 * annualPercent.num, annualPercent.den)
           holders == Holders(p)
           held == [m \in Soul |-> IF m \in holders THEN p.balances[m] ELSE 0]
           num == [m \in Soul |-> held[m] * annualBps * elapsed]
           numerator == p.circulationCarry + Sum(num, N)
           totalDecay == Least(numerator \div YEAR_DENOMINATOR, Sum(held, N))
           decay == AllocateProportionalDecay(totalDecay, holders, num, held)
           balances == [m \in Soul |-> p.balances[m] - decay[m]]
           commons == p.commons + Sum(decay, N)
           carry == Carry(numerator, totalDecay)
<1>1. annualBps \in Nat
  <2>1. 100 * annualPercent.num \in Nat /\ annualPercent.den \in Nat \ {0}
    BY DEF Ratio
  <2> QED BY <2>1, RoundDivNat
<1>2. holders \in SUBSET Soul
  BY SubsetsOfKeys DEF Holders
<1>3. held \in [Soul -> Nat]
  BY PoolFields DEF Holders
<1> HIDE DEF annualBps, holders, held
<1>4. num \in [Soul -> Nat]
  <2>1. ASSUME NEW m \in Soul PROVE held[m] * annualBps * elapsed \in Nat
    <3>1. held[m] \in Nat
      BY <1>3
    <3>2. held[m] * annualBps \in Nat
      BY <3>1, <1>1
    <3> QED BY <3>2
  <2> QED BY <2>1
<1> HIDE DEF num
<1>5. numerator \in Nat
  <2>1. Sum(num, N) \in Nat
    BY <1>4, SumNat, SizeAssumption DEF Soul
  <2> QED BY <2>1, ValuesOfPoints
<1> HIDE DEF numerator
<1>6. totalDecay \in Nat /\ totalDecay <= numerator \div YEAR_DENOMINATOR
  <2>1. Sum(held, N) \in Nat
    BY <1>3, SumNat, SizeAssumption DEF Soul
  <2>2. numerator \div YEAR_DENOMINATOR \in Nat
    BY <1>5, SizeAssumption
  <2> QED BY <2>1, <2>2 DEF Least
<1> HIDE DEF totalDecay
<1>7. decay \in [Soul -> Int]
  <2>1. held \in [Soul -> Int] /\ totalDecay \in Int
    BY <1>3, <1>6
  <2> QED BY <1>2, <1>4, <1>6, <2>1, AllocateProportionalDecayType
<1> HIDE DEF decay
<1>8. balances \in [Soul -> Int]
  BY <1>7, PoolFields
<1>9. commons \in Int
  <2>1. Sum(decay, N) \in Int
    BY <1>7, SumInt, SizeAssumption DEF Soul
  <2> QED BY <2>1, ValuesOfPoints
<1>10. carry \in Nat
  BY <1>5, <1>6, CarryNat
<1> HIDE DEF balances, commons, carry
<1>11. [p EXCEPT !.balances = balances, !.commons = commons, !.circulationCarry = carry]
         \in PoolRecord
  BY <1>8, <1>9, <1>10 DEF PoolRecord
<1> QED
  BY <1>11 DEF AccrueCirculation, annualBps, holders, held, num, numerator, totalDecay,
               decay, balances, commons, carry

\* distributeRedistribution keeps the type when some weight is positive.
LEMMA DistributeRedistributionType ==
  ASSUME NEW p \in PoolRecord, NEW amount \in Int, NEW targets \in SUBSET Soul,
         NEW weights \in [targets -> Nat],
         targets # {} => \E m \in targets : weights[m] > 0
  PROVE  DistributeRedistribution(p, amount, weights) \in PoolRecord
<1> SUFFICES ASSUME targets # {}
             PROVE  [p EXCEPT !.balances =
                       [m \in Soul |-> p.balances[m] + RedistributionShares(p, amount, weights)[m]]]
                    \in PoolRecord
  BY DEF DistributeRedistribution
<1> DEFINE spread == [m \in Soul |-> IF m \in DOMAIN weights THEN weights[m] ELSE 0]
           total == Sum(spread, N)
           last == LastOf(p.members, DOMAIN weights)
           share == [m \in Soul |->
                       IF m \in DOMAIN weights \ {last}
                       THEN (amount * RoundDiv(10000 * weights[m], total)) \div 10000
                       ELSE 0]
<1>1. total \in Nat \ {0}
  <2>1. spread \in [1 .. N -> Nat]
    BY DEF Soul
  <2>2. PICK m \in targets : weights[m] > 0
    OBVIOUS
  <2>3. m \in 1 .. N /\ spread[m] = weights[m]
    BY DEF Soul
  <2> HIDE DEF spread
  <2>4. total \in Nat /\ spread[m] <= total
    BY <2>1, <2>3, SumNat, SumBounds, SizeAssumption
  <2> QED BY <2>1, <2>2, <2>3, <2>4
<1> HIDE DEF total, last
<1>2. share \in [1 .. N -> Int]
  <2>1. ASSUME NEW m \in targets
        PROVE  (amount * RoundDiv(10000 * weights[m], total)) \div 10000 \in Int
    <3>1. RoundDiv(10000 * weights[m], total) \in Nat
      BY <1>1, RoundDivNat
    <3>2. amount * RoundDiv(10000 * weights[m], total) \in Int
      BY <3>1
    <3> QED BY <3>2
  <2> QED BY <2>1 DEF Soul
<1> HIDE DEF share
<1>3. Sum(share, N) \in Int
  BY <1>2, SumInt, SizeAssumption
<1>4. [share EXCEPT ![last] = amount - Sum(share, N)] \in [Soul -> Int]
  <2>1. amount - Sum(share, N) \in Int
    BY <1>3
  <2> QED BY <2>1, <1>2 DEF Soul
<1>5. RedistributionShares(p, amount, weights) \in [Soul -> Int]
  <2>1. RedistributionShares(p, amount, weights) = [share EXCEPT ![last] = amount - Sum(share, N)]
    BY DEF RedistributionShares, share, last, total, spread
  <2> QED BY <1>4, <2>1
<1> HIDE DEF spread
<1> DEFINE paid == [m \in Soul |-> p.balances[m] + RedistributionShares(p, amount, weights)[m]]
<1>6. paid \in [Soul -> Int]
  BY <1>5, PoolFields
<1> HIDE DEF paid
<1>7. [p EXCEPT !.balances = paid] \in PoolRecord
  BY <1>6 DEF PoolRecord
<1> QED BY <1>7 DEF paid

\* allocateCommonsToChildCells keeps the type when there is a child Cell.
LEMMA AllocateCommonsToChildCellsType ==
  ASSUME NEW p \in PoolRecord, NEW amount \in Int, Children(p) # {}
  PROVE  AllocateCommonsToChildCells(p, amount) \in PoolRecord
<1> DEFINE people == [c \in Cell |-> IF c \in Children(p)
                                     THEN Greatest(1, p.childPopulation[c]) ELSE 0]
           last == LastOf(p.childCells, Children(p))
           share == [c \in Cell |-> IF c = last THEN 0
                                    ELSE (amount * people[c]) \div Sum(people, M)]
<1>1. people \in [1 .. M -> Nat]
  BY PoolFields DEF Cell, Greatest
<1>2. Sum(people, M) \in Nat \ {0}
  <2>1. PICK c \in Children(p) : TRUE
    OBVIOUS
  <2>2. c \in 1 .. M /\ people[c] >= 1
    <3>1. c \in Cell
      BY SubsetsOfKeys
    <3>2. p.childPopulation[c] \in Nat
      BY <3>1, PoolFields
    <3> QED BY <3>1, <3>2 DEF Cell, Greatest
  <2> HIDE DEF people
  <2>3. Sum(people, M) \in Nat /\ people[c] <= Sum(people, M)
    BY <1>1, <2>2, SumNat, SumBounds, SizeAssumption
  <2> QED BY <1>1, <2>2, <2>3
<1> HIDE DEF people, last
<1>3. share \in [1 .. M -> Int]
  <2>1. ASSUME NEW c \in Cell PROVE (amount * people[c]) \div Sum(people, M) \in Int
    <3>1. amount * people[c] \in Int
      BY <1>1 DEF Cell
    <3> QED BY <3>1, <1>2
  <2> QED BY <2>1 DEF Cell
<1> HIDE DEF share
<1>4. Sum(share, M) \in Int
  BY <1>3, SumInt, SizeAssumption
<1>5. ChildAllocation(p, amount) \in [Cell -> Int]
  <2>1. amount - Sum(share, M) \in Int
    BY <1>4
  <2>2. [share EXCEPT ![last] = amount - Sum(share, M)] \in [Cell -> Int]
    BY <1>3, <2>1 DEF Cell
  <2>3. ChildAllocation(p, amount) = [share EXCEPT ![last] = amount - Sum(share, M)]
    BY DEF ChildAllocation, share, last, people
  <2> QED BY <2>2, <2>3
<1> DEFINE escrow == [c \in Cell |-> p.childCellEscrow[c]
                                       + Greatest(ChildAllocation(p, amount)[c], 0)]
<1>6. escrow \in [Cell -> Int]
  <2>1. ASSUME NEW c \in Cell
        PROVE  p.childCellEscrow[c] + Greatest(ChildAllocation(p, amount)[c], 0) \in Int
    <3>1. p.childCellEscrow[c] \in Int /\ ChildAllocation(p, amount)[c] \in Int
      BY <1>5, ValuesOfPoints
    <3> QED BY <3>1 DEF Greatest
  <2> QED BY <2>1
<1> HIDE DEF escrow
<1>7. [p EXCEPT !.childCellEscrow = escrow] \in PoolRecord
  BY <1>6 DEF PoolRecord
<1> QED BY <1>7 DEF AllocateCommonsToChildCells, escrow

\* transferPoints keeps the type of the Pool.
LEMMA TransferPointsType ==
  ASSUME NEW p \in PoolRecord, NEW from, NEW to, NEW amount \in Nat
  PROVE  TransferPoints(p, from, to, amount) \in PoolRecord
<1> SUFFICES ASSUME from \in Unfrozen(p), to \in Members(p)
             PROVE  TransferPoints(p, from, to, amount) \in PoolRecord
  BY DEF TransferPoints
<1>1. from \in Soul /\ to \in Soul
  BY SubsetsOfKeys
<1>2. [p EXCEPT !.frozen = @ \cup {from}] \in PoolRecord
  BY <1>1 DEF PoolRecord
<1> DEFINE debited == [p EXCEPT !.balances[from] = @ - amount]
           paid == [debited EXCEPT !.balances[to] = @ + amount]
<1>3. debited \in PoolRecord
  <2>1. p.balances[from] - amount \in Int
    BY <1>1, PoolFields
  <2> QED BY <2>1 DEF PoolRecord
<1>4. paid \in PoolRecord
  <2> HIDE DEF debited
  <2>1. debited.balances[to] + amount \in Int
    BY <1>1, <1>3, PoolFields
  <2> QED BY <1>3, <2>1 DEF PoolRecord
<1>5. CASE p.balances[from] < amount
  BY <1>2, <1>5 DEF TransferPoints
<1>6. CASE ~ (p.balances[from] < amount)
  BY <1>4, <1>6 DEF TransferPoints
<1> QED BY <1>5, <1>6

\* What leaves an escrow keeps the type of the Pool.
LEMMA PaidType ==
  ASSUME NEW p \in PoolRecord, NEW cell \in Cell, NEW amount \in Int
  PROVE  Paid(p, cell, amount) \in PoolRecord
<1> DEFINE parent == [p.superstructureEscrow EXCEPT ![cell] = @ - amount]
           child == [p.childCellEscrow EXCEPT ![cell] = @ - amount]
<1>1. parent \in [Cell -> Int] /\ child \in [Cell -> Int]
  BY ValuesOfPoints
<1>2. Paid(p, cell, amount) \in {[p EXCEPT !.superstructureEscrow = parent],
                                [p EXCEPT !.childCellEscrow = child]}
  BY DEF Paid
<1> HIDE DEF parent, child
<1>3. [p EXCEPT !.superstructureEscrow = parent] \in PoolRecord
  BY <1>1, ZenonT(40) DEF PoolRecord
<1>4. [p EXCEPT !.childCellEscrow = child] \in PoolRecord
  BY <1>1, ZenonT(40) DEF PoolRecord
<1> QED BY <1>2, <1>3, <1>4

\* mintPoints keeps the type of the Pool.
LEMMA MintPointsType ==
  ASSUME NEW p \in PoolRecord, NEW to \in Soul, NEW amount \in Nat
  PROVE  MintPoints(p, to, amount) \in PoolRecord
<1>1. [p.balances EXCEPT ![to] = @ + amount] \in [Soul -> Int]
  BY PoolFields
<1>2. p.totalSupply + amount \in Nat
  BY ValuesOfPoints
<1> QED BY <1>1, <1>2 DEF MintPoints, PoolRecord

\* releaseVouchLien keeps the type of the Pool.
LEMMA ReleaseVouchLienType ==
  ASSUME NEW p \in PoolRecord, NEW invitee \in Soul
  PROVE  ReleaseVouchLien(p, invitee) \in PoolRecord
<1>1. NoLien \in VouchLien /\ NoInvite \in PendingInvite
  BY SizeAssumption DEF NoLien, VouchLien, NoInvite, PendingInvite, Key, None
<1> QED BY <1>1 DEF ReleaseVouchLien, PoolRecord

\* placeVouchLien keeps the type of the Pool.
LEMMA PlaceVouchLienType ==
  ASSUME NEW p \in PoolRecord, NEW inviter \in Soul, NEW invitee \in Soul,
         NEW amount \in Nat
  PROVE  PlaceVouchLien(p, inviter, invitee, amount) \in PoolRecord
<1>1. [inviter |-> inviter, amount |-> amount] \in VouchLien
  BY SizeAssumption DEF VouchLien, Key, Soul
<1> QED BY <1>1 DEF PlaceVouchLien, PoolRecord

-----------------------------------------------------------------------------
(* Circulation keeps the types.                                            *)

\* maybeAccrueCirculation keeps the type of the Pool.
LEMMA MaybeAccrueType ==
  ASSUME NEW p \in PoolRecord, NEW ts \in Nat
  PROVE  MaybeAccrueCirculation(p, ts) \in PoolRecord
<1> DEFINE elapsed == Least(ts - p.lastAccrualTimestamp, TIMESTAMP_FORWARD_SKEW)
           accrued == AccrueCirculation(p, ResolveGovernanceParameter(p, "decay_rate"), elapsed)
<1> SUFFICES ASSUME ~ (elapsed <= 0)
             PROVE  [accrued EXCEPT !.lastAccrualTimestamp = ts] \in PoolRecord
  BY DEF MaybeAccrueCirculation
<1>1. elapsed \in Nat
  BY ValuesOfPoints, SizeAssumption DEF Least
<1>2. ResolveGovernanceParameter(p, "decay_rate") \in Ratio
  BY ParameterRatio DEF GovernanceParameter
<1> HIDE DEF elapsed
<1>3. accrued \in PoolRecord
  BY <1>1, <1>2, AccrueCirculationType
<1> HIDE DEF accrued
<1> QED BY <1>3 DEF PoolRecord

\* Emptying the commons keeps the type of the Pool.
LEMMA SetCommonsType ==
  ASSUME NEW p \in PoolRecord, NEW x \in Int
  PROVE  [p EXCEPT !.commons = x] \in PoolRecord
BY DEF PoolRecord

\* runRedistributionCycle keeps the type of the Pool.
LEMMA RunRedistributionCycleType ==
  ASSUME NEW p \in PoolRecord, NEW ts
  PROVE  RunRedistributionCycle(p, ts) \in PoolRecord
<1> DEFINE eligible == EligibleRecipients(p, ts)
           targets == ResolveRedistributionTargets(p, ts)
           routed == AllocateCommonsToChildCells(p, p.commons)
           paid == DistributeRedistribution(p, p.commons, targets)
<1>1. [p EXCEPT !.commons = 0] \in PoolRecord
  BY SetCommonsType
<1>2. ASSUME Children(p) # {} PROVE [routed EXCEPT !.commons = 0] \in PoolRecord
  <2>1. routed \in PoolRecord
    BY <1>2, ValuesOfPoints, AllocateCommonsToChildCellsType
  <2> HIDE DEF routed
  <2> QED BY <2>1, SetCommonsType
<1>3. [paid EXCEPT !.commons = 0] \in PoolRecord
  <2>1. eligible \in SUBSET Soul /\ targets \in [eligible -> Nat]
    BY RedistributionTargetsType
  <2>2. eligible # {} => \E m \in eligible : targets[m] > 0
    <3> DEFINE weights == [m \in eligible |-> RedistributionWeight(p, eligible, m)]
    <3>1. targets = IF \A m \in eligible : weights[m] = 0
                    THEN [m \in eligible |-> 1] ELSE weights
      BY DEF ResolveRedistributionTargets
    <3> HIDE DEF weights, targets, eligible
    <3>2. CASE \A m \in eligible : weights[m] = 0
      BY <3>1, <3>2
    <3>3. CASE ~ (\A m \in eligible : weights[m] = 0)
      <4>1. targets = weights
        BY <3>1, <3>3
      <4>2. PICK m \in eligible : targets[m] # 0
        BY <3>3, <4>1
      <4> QED BY <2>1, <4>2
    <3> QED BY <3>2, <3>3
  <2> HIDE DEF targets, eligible
  <2>3. paid \in PoolRecord
    BY <2>1, <2>2, ValuesOfPoints, DistributeRedistributionType
  <2> HIDE DEF paid
  <2> QED BY <2>3, SetCommonsType
<1> QED BY <1>1, <1>2, <1>3 DEF RunRedistributionCycle

\* maybeRedistribute keeps the type of the Pool.
LEMMA MaybeRedistributeType ==
  ASSUME NEW p \in PoolRecord, NEW ts \in Nat
  PROVE  MaybeRedistribute(p, ts) \in PoolRecord
<1> DEFINE interval == CirculationInterval(p)
           cycles == Least((ts - p.lastRedistributionTimestamp) \div interval,
                           MAX_REDISTRIBUTION_CATCHUP)
           paid == RunRedistributionCycle(p, ts)
<1>1. interval \in Nat \ {0}
  BY CirculationIntervalPositive
<1> HIDE DEF interval
<1>2. cycles \in Int
  BY <1>1, ValuesOfPoints, SizeAssumption DEF Least
<1>3. paid \in PoolRecord
  BY RunRedistributionCycleType
<1> HIDE DEF cycles, paid
<1>4. ASSUME ~ (cycles <= 0)
      PROVE  [paid EXCEPT !.lastRedistributionTimestamp = @ + cycles * interval] \in PoolRecord
  <2>1. cycles * interval \in Nat
    BY <1>1, <1>2, <1>4
  <2>2. paid.lastRedistributionTimestamp + cycles * interval \in Nat
    BY <1>3, <2>1, ValuesOfPoints
  <2> QED BY <1>3, <2>2 DEF PoolRecord
<1> QED BY <1>4 DEF MaybeRedistribute, interval, cycles, paid

\* The bookkeeping after every handler keeps the type of the Pool.
LEMMA CommittedType ==
  ASSUME NEW p \in PoolRecord, NEW author \in Soul, NEW ts \in Nat
  PROVE  Committed(p, author, ts) \in PoolRecord
<1> DEFINE counted == [p EXCEPT !.eventCount = @ + 1,
                                !.maxEventTimestamp = Greatest(@, ts),
                                !.lastActiveTimestamp[author] = ts]
<1>1. counted \in PoolRecord
  <2>1. p.eventCount + 1 \in Nat /\ Greatest(p.maxEventTimestamp, ts) \in Nat
    BY ValuesOfPoints DEF Greatest
  <2> QED BY <2>1 DEF PoolRecord
<1> HIDE DEF counted
<1>2. MaybeAccrueCirculation(counted, ts) \in PoolRecord
  BY <1>1, MaybeAccrueType
<1>3. MaybeRedistribute(MaybeAccrueCirculation(counted, ts), ts) \in PoolRecord
  BY <1>2, MaybeRedistributeType
<1> QED BY <1>3 DEF Committed, counted

-----------------------------------------------------------------------------
(* What a vote can do keeps the types.                                     *)

\* Forgetting a soul keeps the type of the Pool.
LEMMA ForgottenType ==
  ASSUME NEW p \in PoolRecord, NEW target \in Soul
  PROVE  /\ ForgetBacking(p, target) \in PoolRecord
         /\ ForgetSliders(p, target) \in PoolRecord
         /\ ForgetStanding(p, target) \in PoolRecord
<1>1. ForgetBacking(p, target) \in PoolRecord
  <2>1. NoLien \in VouchLien /\ None \in Key
    BY SizeAssumption DEF NoLien, VouchLien, None, Key
  <2> QED BY <2>1 DEF ForgetBacking, PoolRecord
<1>2. ForgetSliders(p, target) \in PoolRecord
  <2> DEFINE shares == [s \in Soul |-> IF s = target THEN NoShares
                          ELSE [p.redistributionSliders[s] EXCEPT ![target] = 0]]
             vouches == [s \in Soul |-> IF s = target THEN NoVouches
                           ELSE [p.vouchSliders[s] EXCEPT ![target] = Unset]]
  <2>1. shares \in [Soul -> [Soul -> Nat]]
    BY PoolFields DEF NoShares
  <2>2. vouches \in [Soul -> [Soul -> Nat \cup {Unset}]]
    BY PoolFields DEF NoVouches
  <2>3. DEFAULT_PARAMETERS \in Row
    BY SizeAssumption
  <2> HIDE DEF shares, vouches
  <2>4. [p EXCEPT !.governanceSliders[target] = DEFAULT_PARAMETERS,
                  !.redistributionSliders = shares, !.vouchSliders = vouches] \in PoolRecord
    BY <2>1, <2>2, <2>3 DEF PoolRecord
  <2> QED BY <2>4 DEF ForgetSliders, shares, vouches
<1>3. ForgetStanding(p, target) \in PoolRecord
  <2>1. Without(p.members, target) \in [Soul -> Nat]
    BY PoolFields, WithoutType, SizeAssumption DEF Soul
  <2> QED BY <2>1 DEF ForgetStanding, PoolRecord
<1> QED BY <1>1, <1>2, <1>3

\* Severing a soul's Share and its lien keeps the type of the Pool.
LEMMA SeveredType ==
  ASSUME NEW p \in PoolRecord, NEW target \in Soul
  PROVE  Forfeited(p, target) \in Int /\ Severed(p, target) \in PoolRecord
<1>1. Forfeited(p, target) \in Int
  <2>1. CASE p.vouchLiens[target] = NoLien
    BY <2>1 DEF Forfeited
  <2>2. CASE p.vouchLiens[target] # NoLien
    <3>1. p.vouchLiens[target].inviter \in Soul /\ p.vouchLiens[target].amount \in Nat
      BY <2>2, PoolFields DEF VouchLien
    <3>2. p.balances[p.vouchLiens[target].inviter] \in Int
      BY <3>1, PoolFields
    <3> QED BY <3>1, <3>2 DEF Forfeited, Least
  <2> QED BY <2>1, <2>2
<1> DEFINE left == [s \in Soul |->
                      IF s = target THEN 0
                      ELSE IF s = p.vouchLiens[target].inviter
                      THEN p.balances[s] - Greatest(Forfeited(p, target), 0)
                      ELSE p.balances[s]]
<1>2. left \in [Soul -> Int]
  <2>1. Greatest(Forfeited(p, target), 0) \in Int
    BY <1>1 DEF Greatest
  <2> QED BY <2>1, PoolFields
<1> HIDE DEF left
<1>3. [p EXCEPT !.balances = left] \in PoolRecord
  BY <1>2 DEF PoolRecord
<1> QED BY <1>1, <1>3 DEF Severed, left

\* Paying out what was severed keeps the type of the Pool.
LEMMA SettledType ==
  ASSUME NEW p \in PoolRecord, NEW severed \in Int
  PROVE  Settled(p, severed) \in PoolRecord
<1> DEFINE parent == LastOf(p.parentSuperstructures, Parents(p))
           shared == DistributeRedistribution(p, severed, [m \in Members(p) |-> 1])
<1>1. ASSUME Parents(p) # {}
      PROVE  [p EXCEPT !.superstructureEscrow[parent] = @ + severed] \in PoolRecord
  <2>1. parent \in Cell
    BY <1>1, PoolFields, SubsetsOfKeys, LastOfIn, SizeAssumption DEF Cell
  <2>2. p.superstructureEscrow[parent] + severed \in Int
    BY <2>1, ValuesOfPoints
  <2> HIDE DEF parent
  <2> QED BY <2>2 DEF PoolRecord
<1>2. shared \in PoolRecord
  <2> DEFINE members == Members(p)
             weights == [m \in members |-> 1]
  <2>1. members \in SUBSET Soul
    BY SubsetsOfKeys
  <2> HIDE DEF members
  <2>2. weights \in [members -> Nat] /\ (members # {} => \E m \in members : weights[m] > 0)
    OBVIOUS
  <2> HIDE DEF weights
  <2>3. DistributeRedistribution(p, severed, weights) \in PoolRecord
    BY <2>1, <2>2, DistributeRedistributionType
  <2> QED BY <2>3 DEF weights, members
<1>3. [p EXCEPT !.commons = @ + severed] \in PoolRecord
  BY ValuesOfPoints, SetCommonsType
<1> QED BY <1>1, <1>2, <1>3 DEF Settled

\* The outcome of an election.
LEMMA ReelectedType ==
  ASSUME NEW p \in PoolRecord
  PROVE  Reelected(p) \in PoolRecord
BY ResolveVouchHeadKey DEF PoolRecord, Reelected

\* expelMemberReducer keeps the type of the Pool.
LEMMA ExpelledType ==
  ASSUME NEW p \in PoolRecord, NEW target \in Soul
  PROVE  Expelled(p, target) \in PoolRecord
<1> DEFINE backed == ForgetBacking(Severed(p, target), target)
           muted == ForgetSliders(backed, target)
           forgotten == ForgetStanding(muted, target)
           severed == p.balances[target] + Forfeited(p, target)
           settled == Settled(forgotten, severed)
<1>1. backed \in PoolRecord
  BY SeveredType, ForgottenType
<1>2. muted \in PoolRecord
  BY <1>1, ForgottenType
<1>3. forgotten \in PoolRecord
  BY <1>2, ForgottenType
<1>4. severed \in Int
  BY SeveredType, PoolFields
<1>5. settled \in PoolRecord
  BY <1>3, <1>4, SettledType
<1>6. Expelled(p, target) =
        IF target \notin Members(p) THEN p
        ELSE IF settled.head = target THEN Reelected(settled) ELSE settled
  BY DEF Expelled
<1> HIDE DEF settled
<1>7. Reelected(settled) \in PoolRecord
  BY <1>5, ReelectedType
<1> QED BY <1>5, <1>6, <1>7

\* Joining, leaving and linking a namespace keep the type of the Pool.
LEMMA FederatedType ==
  ASSUME NEW p \in PoolRecord, NEW cell \in Cell
  PROVE  /\ \A author \in Soul, conform \in BOOLEAN, row \in Row :
               JoinedSuperstructure(p, author, cell, conform, row) \in PoolRecord
         /\ LeftSuperstructure(p, cell) \in PoolRecord
         /\ \A population \in Nat, bridge \in Key :
               LinkedSubcell(p, cell, population, bridge) \in PoolRecord
<1>1. Push(p.parentSuperstructures, cell) \in [Cell -> Nat]
  BY PoolFields, PushType, SizeAssumption DEF Cell
<1>2. Push(p.childCells, cell) \in [Cell -> Nat]
  BY PoolFields, PushType, SizeAssumption DEF Cell
<1>3. Without(p.parentSuperstructures, cell) \in [Cell -> Nat]
  BY PoolFields, WithoutType, SizeAssumption DEF Cell
<1>4. ASSUME NEW author \in Soul, NEW conform \in BOOLEAN, NEW row \in Row
      PROVE  JoinedSuperstructure(p, author, cell, conform, row) \in PoolRecord
  <2> DEFINE joined == [p EXCEPT
               !.parentSuperstructures = Push(@, cell),
               !.superstructureId = IF @ = None THEN cell ELSE @,
               !.bridges = @ \cup {author}]
             law == [param \in GovernanceParameter |-> Whole(row[param])]
             rows == [s \in Soul |-> IF s \in Members(p) THEN row ELSE DEFAULT_PARAMETERS]
  <2>1. joined \in PoolRecord
    <3>1. (IF p.superstructureId = None THEN cell ELSE p.superstructureId) \in 0 .. M
      BY SizeAssumption DEF PoolRecord, Cell
    <3> QED BY <1>1, <3>1, ZenonT(40) DEF PoolRecord
  <2>2. law \in [GovernanceParameter -> Ratio]
    BY DEF Whole, Ratio, Row
  <2>3. rows \in [Soul -> Row]
    BY SizeAssumption
  <2> HIDE DEF joined, law, rows
  <2>4. [joined EXCEPT !.parameters = law, !.governanceSliders = rows] \in PoolRecord
    BY <2>1, <2>2, <2>3 DEF PoolRecord
  <2> QED BY <2>1, <2>4 DEF JoinedSuperstructure, joined, law, rows
<1>5. LeftSuperstructure(p, cell) \in PoolRecord
  <2> DEFINE left == [p EXCEPT !.parentSuperstructures = Without(@, cell)]
  <2>1. left \in PoolRecord
    BY <1>3 DEF PoolRecord
  <2> HIDE DEF left
  <2>2. None \in 0 .. M
    BY SizeAssumption DEF None
  <2>3. [left EXCEPT !.superstructureId = None, !.bridges = {}] \in PoolRecord
    BY <2>1, <2>2 DEF PoolRecord
  <2> QED BY <2>1, <2>3 DEF LeftSuperstructure, left
<1>6. ASSUME NEW population \in Nat, NEW bridge \in Key
      PROVE  LinkedSubcell(p, cell, population, bridge) \in PoolRecord
  <2>1. {bridge} \ {None} \subseteq Soul
    BY DEF Key, Soul, None
  <2> QED BY <1>2, <2>1 DEF LinkedSubcell, PoolRecord
<1> QED BY <1>4, <1>5, <1>6

\* The types of the fields of a proposal.
LEMMA ProposalFields ==
  ASSUME NEW q \in ProposalState
  PROVE  /\ q.motion \in Motion
         /\ q.motion.kind # "none" => q.author \in Soul
         /\ q.motion.kind \in SoulKind => q.motion.target \in Soul
         /\ q.motion.kind \in ProposalKind \ SoulKind => q.motion.target \in Cell
         /\ q.motion.to \in Key /\ q.motion.amount \in Nat /\ q.motion.bridge \in Key
         /\ q.motion.population \in Nat /\ q.motion.conform \in BOOLEAN
         /\ q.motion.parameters \in Row
         /\ q.voters \in [Soul -> ProposalVoteRecord]
BY DEF ProposalState, Motion

\* Whatever a proposal asks for, its effect keeps the type of the Pool.
LEMMA EffectType ==
  ASSUME NEW p \in PoolRecord, NEW q \in ProposalState
  PROVE  Effect(p, q.motion, q.author) \in PoolRecord
<1> DEFINE motion == q.motion
           effect == Effect(p, q.motion, q.author)
<1> USE DEF SoulKind, ProposalKind
<1>1. CASE motion.kind = "admit_member"
  <2>1. motion.target \in Soul
    BY <1>1, ProposalFields
  <2>2. effect = IF p.pendingInvites[motion.target] = NoInvite THEN p
                 ELSE [p EXCEPT !.pendingInvites[motion.target].admissionApproved = TRUE]
    BY <1>1 DEF Effect
  <2>3. p.pendingInvites[motion.target] \in PendingInvite
    BY <2>1 DEF PoolRecord
  <2> HIDE DEF motion
  <2>4. [p.pendingInvites[motion.target] EXCEPT !.admissionApproved = TRUE] \in PendingInvite
    BY <2>3 DEF PendingInvite
  <2>5. [p EXCEPT !.pendingInvites[motion.target].admissionApproved = TRUE] \in PoolRecord
    BY <2>1, <2>4 DEF PoolRecord
  <2> QED BY <2>2, <2>5
<1>2. CASE motion.kind = "expel_member"
  <2>1. motion.target \in Soul
    BY <1>2, ProposalFields
  <2> QED BY <1>2, <2>1, ExpelledType DEF Effect
<1>3. CASE motion.kind = "resolve_fracture"
  <2>1. [p EXCEPT !.frozen = @ \ {motion.target}] \in PoolRecord
    BY DEF PoolRecord
  <2> QED BY <1>3, <2>1 DEF Effect
<1>4. CASE motion.kind = "join_superstructure"
  <2>1. motion.target \in Cell /\ q.author \in Soul /\ motion.conform \in BOOLEAN
          /\ motion.parameters \in Row
    BY <1>4, ProposalFields
  <2>2. effect = JoinedSuperstructure(p, q.author, motion.target, motion.conform,
                                      motion.parameters)
    BY <1>4 DEF Effect
  <2> HIDE DEF motion
  <2> QED BY <2>1, <2>2, FederatedType
<1>5. CASE motion.kind = "leave_superstructure"
  <2>1. motion.target \in Cell
    BY <1>5, ProposalFields
  <2> QED BY <1>5, <2>1, FederatedType DEF Effect
<1>6. CASE motion.kind = "link_subcell"
  <2>1. motion.target \in Cell /\ motion.population \in Nat /\ motion.bridge \in Key
    BY <1>6, ProposalFields
  <2>2. effect = LinkedSubcell(p, motion.target, motion.population, motion.bridge)
    BY <1>6 DEF Effect
  <2> HIDE DEF motion
  <2> QED BY <2>1, <2>2, FederatedType
<1>7. CASE motion.kind \in {"bridge_transfer", "none"}
  BY <1>7 DEF Effect
<1>8. motion.kind \in ProposalKind \cup {"none"}
  BY ProposalFields DEF Motion
<1> QED BY <1>1, <1>2, <1>3, <1>4, <1>5, <1>6, <1>7, <1>8

\* Storing a proposal keeps the type of the Pool.
LEMMA SetProposalType ==
  ASSUME NEW p \in PoolRecord, NEW id, NEW q \in ProposalState
  PROVE  [p EXCEPT !.proposals[id] = q] \in PoolRecord
BY DEF PoolRecord

\* Setting a flag of a proposal keeps the type of the Pool.
LEMMA MarkedProposalType ==
  ASSUME NEW p \in PoolRecord, NEW id \in ProposalId
  PROVE  /\ p.proposals[id] \in ProposalState
         /\ [p EXCEPT !.proposals[id].closed = TRUE] \in PoolRecord
         /\ [p EXCEPT !.proposals[id].executed = TRUE] \in PoolRecord
         /\ [p EXCEPT !.proposals[id].bridgeCompleted = TRUE] \in PoolRecord
<1>1. p.proposals[id] \in ProposalState
  BY DEF PoolRecord
<1>2. [p.proposals[id] EXCEPT !.closed = TRUE] \in ProposalState
  BY <1>1 DEF ProposalState
<1>3. [p.proposals[id] EXCEPT !.executed = TRUE] \in ProposalState
  BY <1>1 DEF ProposalState
<1>4. [p.proposals[id] EXCEPT !.bridgeCompleted = TRUE] \in ProposalState
  BY <1>1 DEF ProposalState
<1> QED BY <1>1, <1>2, <1>3, <1>4, SetProposalType

\* tryExecuteProposal keeps the type of the Pool.
LEMMA TryExecuteProposalType ==
  ASSUME NEW p \in PoolRecord, NEW id \in ProposalId
  PROVE  TryExecuteProposal(p, id) \in PoolRecord
<1> DEFINE effect == Effect(p, p.proposals[id].motion, p.proposals[id].author)
           executed == [effect EXCEPT !.proposals[id].executed = TRUE]
<1>1. effect \in PoolRecord
  BY MarkedProposalType, EffectType
<1> HIDE DEF effect
<1>2. executed \in PoolRecord
  BY <1>1, MarkedProposalType
<1> HIDE DEF executed
<1>3. [executed EXCEPT !.proposals[id].closed = TRUE] \in PoolRecord
  BY <1>2, MarkedProposalType
<1> QED BY <1>3 DEF TryExecuteProposal, executed, effect

\* Recording a vote keeps the type of the proposal.
LEMMA VotedType ==
  ASSUME NEW q \in ProposalState, NEW voter \in Soul, NEW approve \in BOOLEAN,
         NEW weight \in Int
  PROVE  Voted(q, voter, approve, weight) \in ProposalState
<1> DEFINE prior == q.voters[voter]
           retracted(cast) == IF prior.cast = cast THEN prior.weight ELSE 0
           ballot == [cast |-> IF approve THEN "for" ELSE "against", weight |-> weight]
           for == q.votesFor - retracted("for") + (IF approve THEN weight ELSE 0)
           against == q.votesAgainst - retracted("against") + (IF approve THEN 0 ELSE weight)
<1>1. prior.weight \in Int
  BY ProposalFields DEF ProposalVoteRecord
<1>2. for \in Int /\ against \in Int
  BY <1>1 DEF ProposalState
<1>3. ballot \in ProposalVoteRecord
  BY DEF ProposalVoteRecord
<1> HIDE DEF prior, for, against, ballot
<1>4. [q EXCEPT !.votesFor = for, !.votesAgainst = against, !.voters[voter] = ballot]
        \in ProposalState
  BY <1>2, <1>3 DEF ProposalState
<1> QED BY <1>4 DEF Voted, prior, for, against, ballot

-----------------------------------------------------------------------------
(* Every event keeps the types.                                            *)

\* A step that commits a well-typed Pool keeps TypeOK.
LEMMA CommitType ==
  ASSUME TypeOK, NEW p \in PoolRecord, NEW author \in Soul, NEW ts \in Timestamps,
         Commit(p, author, ts)
  PROVE  TypeOK'
<1>1. Committed(p, author, ts) \in PoolRecord
  BY CommittedType, InputAssumption
<1> QED BY <1>1 DEF Commit, TypeOK

\* The outcome of genesis.
LEMMA FoundedType ==
  ASSUME NEW p \in PoolRecord, NEW author \in Soul, NEW ts \in Nat, NEW row \in Row
  PROVE  Founded(p, author, ts, row) \in PoolRecord
<1> DEFINE members == [s \in Soul |-> IF s = author THEN 1 ELSE 0]
           law == [param \in GovernanceParameter |-> Whole(row[param])]
           rows == [[s \in Soul |-> DEFAULT_PARAMETERS] EXCEPT ![author] = row]
           shares == [[s \in Soul |-> NoShares] EXCEPT ![author][author] = 100]
           vouches == [s \in Soul |-> NoVouches]
           active == [s \in Soul |-> IF s = author THEN ts ELSE 0]
           founded == [p EXCEPT
             !.initialized = TRUE, !.members = members, !.parameters = law,
             !.governanceSliders = rows, !.redistributionSliders = shares,
             !.vouchSliders = vouches, !.head = author, !.lastAccrualTimestamp = ts,
             !.lastRedistributionTimestamp = ts, !.circulationCarry = 0,
             !.genesisTimestamp = ts, !.maxEventTimestamp = ts,
             !.lastActiveTimestamp = active]
<1>1. members \in [Soul -> Nat] /\ active \in [Soul -> Nat]
  OBVIOUS
<1>2. law \in [GovernanceParameter -> Ratio]
  BY DEF Whole, Ratio, Row
<1>3. rows \in [Soul -> Row]
  BY SizeAssumption
<1>4. shares \in [Soul -> [Soul -> Nat]]
  <2>1. NoShares \in [Soul -> Nat]
    BY DEF NoShares
  <2> QED BY <2>1
<1>5. vouches \in [Soul -> [Soul -> Nat \cup {Unset}]]
  BY DEF NoVouches
<1>6. author \in Key
  BY DEF Key, Soul
<1>7. Founded(p, author, ts, row) = founded
  BY DEF Founded
<1> HIDE DEF members, law, rows, shares, vouches, active
<1>8. founded \in PoolRecord
  BY <1>1, <1>2, <1>3, <1>4, <1>5, <1>6 DEF PoolRecord
<1> QED BY <1>7, <1>8

\* genesis keeps TypeOK.
LEMMA GenesisType ==
  ASSUME TypeOK, NEW author \in Soul, NEW ts \in Timestamps,
         NEW points \in InitialPoints, NEW row \in Rows, Genesis(author, ts, points, row)
  PROVE  TypeOK'
<1>1. pool \in PoolRecord /\ row \in Row /\ ts \in Nat /\ points \in Nat
  BY InputAssumption DEF TypeOK
<1>2. MintPoints(Founded(pool, author, ts, row), author, points) \in PoolRecord
  BY <1>1, FoundedType, MintPointsType
<1> QED BY <1>2, CommitType DEF Genesis

\* Closing an admission proposal keeps the type of the Pool.
LEMMA CloseAdmissionType ==
  ASSUME NEW p \in PoolRecord, NEW invitee \in Soul
  PROVE  CloseAdmission(p, invitee) \in PoolRecord
<1>1. invitee \in ProposalId
  BY SizeAssumption DEF ProposalId, Soul
<1> QED BY <1>1, MarkedProposalType DEF CloseAdmission, AdmissionProposalId

\* The outcome of taking back an invitation.
LEMMA CancelledType ==
  ASSUME NEW p \in PoolRecord, NEW invitee \in Soul
  PROVE  /\ Cancelled(p, invitee) \in PoolRecord
         /\ Withdrawn(p, invitee) \in PoolRecord
BY ReleaseVouchLienType, CloseAdmissionType DEF Cancelled, Withdrawn

\* The outcome of an invite whose lien can be placed.
LEMMA InvitedType ==
  ASSUME NEW p \in PoolRecord, NEW author \in Soul, NEW invitee \in Soul, NEW row \in Row,
         CanPlaceVouchLien(p, author, RequiredVouchLien(p, author))
  PROVE  Invited(p, author, invitee, row) \in PoolRecord
<1> DEFINE lien == RequiredVouchLien(p, author)
           admission == [NoMotion EXCEPT !.kind = "admit_member", !.target = invitee]
           placed == PlaceVouchLien(p, author, invitee, lien)
           proposal == IF placed.proposals[invitee] = NoProposal \/ placed.proposals[invitee].closed
                       THEN NewProposal(admission, author) ELSE placed.proposals[invitee]
           invited == [placed EXCEPT !.proposals[invitee] = proposal,
                                     !.pendingInvites[invitee] = Invitation(author, row)]
<1>1. lien \in Nat
  <2>1. lien \in Int
    BY RequiredVouchLienInt
  <2> HIDE DEF lien
  <2> QED BY <2>1 DEF CanPlaceVouchLien, lien
<1>2. Invited(p, author, invitee, row) = invited
  BY DEF Invited, AdmissionProposalId
<1> HIDE DEF lien
<1>3. placed \in PoolRecord
  BY <1>1, PlaceVouchLienType
<1>4. NewProposal(admission, author) \in ProposalState
  <2>1. admission \in Motion
    <3>1. NoRow \in Row /\ None \in Key /\ invitee \in Nat
      BY SizeAssumption DEF NoRow, Row, None, Key, Soul
    <3> DEFINE Fields ==
          [kind : ProposalKind \cup {"none"}, target : Nat, to : Key, amount : Nat,
           population : Nat \ {0}, bridge : Key, conform : BOOLEAN, parameters : Row]
    <3>2. NoMotion \in Fields
      BY <3>1 DEF NoMotion, None
    <3>3. admission \in Fields
      BY <3>1, <3>2 DEF ProposalKind
    <3>4. admission.kind = "admit_member" /\ admission.target = invitee
      BY <3>2
    <3> HIDE DEF admission
    <3> QED BY <3>3, <3>4 DEF Motion, SoulKind
  <2>2. author \in Key
    BY DEF Key, Soul
  <2> HIDE DEF admission
  <2> QED BY <2>1, <2>2 DEF NewProposal, ProposalState, NoVote, ProposalVoteRecord
<1>5. invitee \in ProposalId
  BY SizeAssumption DEF ProposalId, Soul
<1>6. proposal \in ProposalState
  <2> HIDE DEF placed, admission
  <2> QED BY <1>3, <1>4, <1>5, MarkedProposalType
<1>7. Invitation(author, row) \in PendingInvite
  BY DEF Invitation, PendingInvite, Key, Soul
<1> HIDE DEF placed, proposal
<1>8. invited \in PoolRecord
  BY <1>3, <1>6, <1>7 DEF PoolRecord
<1> QED BY <1>2, <1>8

\* invite keeps TypeOK.
LEMMA InviteType ==
  ASSUME TypeOK, NEW author \in Soul, NEW ts \in Timestamps,
         NEW invitee \in Invitees, NEW row \in Rows, Invite(author, ts, invitee, row)
  PROVE  TypeOK'
<1>1. pool \in PoolRecord /\ invitee \in Soul /\ row \in Row
  BY InputAssumption DEF TypeOK
<1>2. Invited(Withdrawn(pool, invitee), author, invitee, row) \in PoolRecord
  BY <1>1, CancelledType, InvitedType DEF Invite, TakesInvite
<1> QED BY <1>2, CommitType DEF Invite, TakesInvite

\* cancel_invite keeps TypeOK.
LEMMA CancelInviteType ==
  ASSUME TypeOK, NEW author \in Soul, NEW ts \in Timestamps,
         NEW invitee \in Invitees, CancelInvite(author, ts, invitee)
  PROVE  TypeOK'
<1>1. pool \in PoolRecord /\ invitee \in Soul
  BY InputAssumption DEF TypeOK
<1> QED BY <1>1, CancelledType, CommitType DEF CancelInvite, TakesCancelInvite

\* The outcome of accepting an invitation.
LEMMA JoinedType ==
  ASSUME NEW p \in PoolRecord, NEW author \in Soul, NEW inviter \in Soul
  PROVE  Joined(p, author, inviter) \in PoolRecord
<1> DEFINE row == p.pendingInvites[author].parameters
           shares == [NoShares EXCEPT ![author] = 50]
           vouches == [NoVouches EXCEPT ![inviter] = 100]
           joined == [p EXCEPT !.pendingInvites[author] = NoInvite,
                               !.members = Push(@, author),
                               !.inviters[author] = inviter,
                               !.governanceSliders[author] = row,
                               !.redistributionSliders[author] = shares,
                               !.vouchSliders[author] = vouches]
<1>1. row \in Row
  BY DEF PoolRecord, PendingInvite
<1>2. Push(p.members, author) \in [Soul -> Nat]
  BY PoolFields, PushType, SizeAssumption DEF Soul
<1>3. shares \in [Soul -> Nat] /\ vouches \in [Soul -> Nat \cup {Unset}]
  BY DEF NoShares, NoVouches
<1>4. NoInvite \in PendingInvite /\ inviter \in Key
  BY SizeAssumption DEF NoInvite, PendingInvite, Key, None, Soul
<1>5. Joined(p, author, inviter) = joined
  BY DEF Joined
<1> HIDE DEF row, shares, vouches
<1>6. joined \in PoolRecord
  BY <1>1, <1>2, <1>3, <1>4 DEF PoolRecord
<1> QED BY <1>5, <1>6

\* accept_invite keeps TypeOK.
LEMMA AcceptInviteType ==
  ASSUME TypeOK, NEW author \in Soul, NEW ts \in Timestamps, NEW inviter \in Soul,
         AcceptInvite(author, ts, inviter)
  PROVE  TypeOK'
<1>1. Reelected(Joined(pool, author, inviter)) \in PoolRecord
  BY JoinedType, ReelectedType DEF TypeOK
<1> QED BY <1>1, CommitType DEF AcceptInvite, TakesAcceptInvite

\* A clamped slider value is a natural, whatever was sent.
LEMMA ClampType ==
  ASSUME NEW param, NEW value \in Int
  PROVE  ClampSliderValue(param, value) \in Nat
<1>1. RoundDiv(value, MIN_EPOCH_INTERVAL) \in Int
  BY RoundDivInt, SizeAssumption
<1>2. RoundDiv(value, MIN_EPOCH_INTERVAL) * MIN_EPOCH_INTERVAL \in Int
  BY <1>1, SizeAssumption
<1> DEFINE stepped == RoundDiv(value, MIN_EPOCH_INTERVAL) * MIN_EPOCH_INTERVAL
<1> HIDE DEF stepped
<1>3. Greatest(MIN_EPOCH_INTERVAL, Least(MAX_EPOCH_INTERVAL, stepped)) \in Nat
  BY <1>2, SizeAssumption DEF Greatest, Least, stepped
<1>4. Greatest(0, Least(20, value)) \in Nat /\ Greatest(0, Least(100, value)) \in Nat
  BY DEF Greatest, Least
<1> QED BY <1>3, <1>4 DEF ClampSliderValue, stepped

\* The outcomes of the three kinds of slider.
LEMMA GovernanceMovedType ==
  ASSUME NEW p \in PoolRecord, NEW author \in Soul, NEW param \in GovernanceParameter,
         NEW value \in Int
  PROVE  GovernanceMoved(p, author, param, value) \in PoolRecord
<1> DEFINE clamped == ClampSliderValue(param, value)
           moved == [p EXCEPT !.governanceSliders[author][param] = clamped]
           law == ResolveGovernanceParameter(moved, param)
<1>1. clamped \in Nat
  BY ClampType
<1>2. GovernanceMoved(p, author, param, value) = [moved EXCEPT !.parameters[param] = law]
  BY DEF GovernanceMoved
<1> HIDE DEF clamped
<1>3. [p.governanceSliders[author] EXCEPT ![param] = clamped] \in Row
  BY <1>1, PoolFields DEF Row
<1>4. moved \in PoolRecord
  BY <1>3 DEF PoolRecord
<1> HIDE DEF moved
<1>5. law \in Ratio
  BY <1>4, ParameterRatio
<1> HIDE DEF law
<1>6. [moved EXCEPT !.parameters[param] = law] \in PoolRecord
  BY <1>4, <1>5 DEF PoolRecord
<1> QED BY <1>2, <1>6

\* A redistribution slider_update keeps the type of the Pool.
LEMMA ShareMovedType ==
  ASSUME NEW p \in PoolRecord, NEW author \in Soul, NEW target \in Soul, NEW value \in Int
  PROVE  ShareMoved(p, author, target, value) \in PoolRecord
<1> DEFINE share == ClampSliderValue("redistribution", value)
<1>1. share \in Nat
  BY ClampType
<1>2. ShareMoved(p, author, target, value)
        = [p EXCEPT !.redistributionSliders[author][target] = share]
  BY DEF ShareMoved
<1> HIDE DEF share
<1>3. [p.redistributionSliders[author] EXCEPT ![target] = share] \in [Soul -> Nat]
  BY <1>1, PoolFields
<1>4. [p EXCEPT !.redistributionSliders[author][target] = share] \in PoolRecord
  BY <1>3 DEF PoolRecord
<1> QED BY <1>2, <1>4

\* vouch_update keeps the type of the Pool.
LEMMA VouchMovedType ==
  ASSUME NEW p \in PoolRecord, NEW author \in Soul, NEW target \in Soul, NEW weight \in Int
  PROVE  VouchMoved(p, author, target, weight) \in PoolRecord
<1> DEFINE vouch == Greatest(0, Least(100, weight))
<1>1. vouch \in Nat
  BY DEF Greatest, Least
<1>2. VouchMoved(p, author, target, weight)
        = [p EXCEPT !.vouchSliders[author][target] = vouch]
  BY DEF VouchMoved
<1> HIDE DEF vouch
<1>3. [p.vouchSliders[author] EXCEPT ![target] = vouch] \in [Soul -> Nat \cup {Unset}]
  BY <1>1, PoolFields
<1>4. [p EXCEPT !.vouchSliders[author][target] = vouch] \in PoolRecord
  BY <1>3 DEF PoolRecord
<1> QED BY <1>2, <1>4

\* The slider and vouch events keep TypeOK.
LEMMA SliderType ==
  ASSUME TypeOK, NEW author \in Soul, NEW ts \in Timestamps,
         SliderStep(author, ts)
  PROVE  TypeOK'
<1>1. pool \in PoolRecord
  BY DEF TypeOK
<1>2. ASSUME NEW setting \in Settings,
             GovernanceSliderUpdate(author, ts, setting[1], setting[2])
      PROVE  TypeOK'
  <2>1. setting[1] \in GovernanceParameter /\ setting[2] \in Int
    BY InputAssumption
  <2>2. GovernanceMoved(pool, author, setting[1], setting[2]) \in PoolRecord
    BY <1>1, <2>1, GovernanceMovedType
  <2> QED BY <1>2, <2>2, CommitType DEF GovernanceSliderUpdate, TakesSliderUpdate
<1>3. ASSUME NEW target \in Soul, NEW value \in ShareWeights,
             RedistributionSliderUpdate(author, ts, target, value)
      PROVE  TypeOK'
  <2>1. ShareMoved(pool, author, target, value) \in PoolRecord
    BY <1>1, ShareMovedType, InputAssumption
  <2> QED BY <1>3, <2>1, CommitType DEF RedistributionSliderUpdate, TakesSliderUpdate
<1>4. ASSUME NEW target \in Soul, NEW weight \in VouchWeights,
             VouchUpdate(author, ts, target, weight)
      PROVE  TypeOK'
  <2>1. Reelected(VouchMoved(pool, author, target, weight)) \in PoolRecord
    BY <1>1, VouchMovedType, ReelectedType, InputAssumption
  <2> QED BY <1>4, <2>1, CommitType DEF VouchUpdate, TakesVouchUpdate
<1> QED BY <1>2, <1>3, <1>4 DEF SliderStep

\* transaction and epoch_close keep TypeOK.
LEMMA LedgerType ==
  ASSUME TypeOK, NEW author \in Soul, NEW ts \in Timestamps, LedgerStep(author, ts)
  PROVE  TypeOK'
<1>1. pool \in PoolRecord
  BY DEF TypeOK
<1>2. ASSUME NEW to \in Soul, NEW amount \in Amounts, Transaction(author, ts, to, amount)
      PROVE  TypeOK'
  <2>1. TransferPoints(pool, author, to, amount) \in PoolRecord
    BY <1>1, TransferPointsType, InputAssumption
  <2> QED BY <1>2, <2>1, CommitType DEF Transaction, TakesTransaction
<1>3. ASSUME NEW n \in EpochNumbers, EpochClose(author, ts, n) PROVE TypeOK'
  BY <1>1, <1>3, CommitType DEF EpochClose
<1> QED BY <1>2, <1>3 DEF LedgerStep

\* The proposal events keep TypeOK.
LEMMA ProposalType ==
  ASSUME TypeOK, NEW author \in Soul, NEW ts \in Timestamps, ProposalStep(author, ts)
  PROVE  TypeOK'
<1>1. pool \in PoolRecord
  BY DEF TypeOK
<1>2. ASSUME NEW id \in CreateIds, NEW motion \in Motions,
             ProposalCreate(author, ts, id, motion)
      PROVE  TypeOK'
  <2>1. motion \in Motion /\ author \in Key
    BY InputAssumption DEF Key, Soul
  <2>2. NewProposal(motion, author) \in ProposalState
    BY <2>1 DEF NewProposal, ProposalState, NoVote, ProposalVoteRecord
  <2>3. [pool EXCEPT !.proposals[id] = NewProposal(motion, author)] \in PoolRecord
    BY <1>1, <2>2, SetProposalType
  <2> QED BY <1>2, <2>3, CommitType DEF ProposalCreate, TakesProposalCreate
<1>3. ASSUME NEW id \in ProposalId, NEW approve \in Ballots,
             ProposalVote(author, ts, id, approve)
      PROVE  TypeOK'
  <2> DEFINE voted == Voted(pool.proposals[id], author, approve, pool.balances[author])
             counted == [pool EXCEPT !.proposals[id] = voted]
  <2>1. voted \in ProposalState
    BY <1>1, MarkedProposalType, VotedType, PoolFields, InputAssumption
  <2> HIDE DEF voted
  <2>2. counted \in PoolRecord
    BY <1>1, <2>1, SetProposalType
  <2> HIDE DEF counted
  <2>3. TryExecuteProposal(counted, id) \in PoolRecord
    BY <2>2, TryExecuteProposalType
  <2>4. Commit(TryExecuteProposal(counted, id), author, ts)
    BY <1>3 DEF ProposalVote, TakesProposalVote, counted, voted
  <2> QED BY <2>3, <2>4, CommitType
<1>4. ASSUME NEW id \in CloseIds, ProposalClose(author, ts, id) PROVE TypeOK'
  <2>1. [pool EXCEPT !.proposals[id].closed = TRUE] \in PoolRecord
    BY <1>1, MarkedProposalType, InputAssumption
  <2> QED BY <1>4, <2>1, CommitType DEF ProposalClose, TakesProposalClose
<1> QED BY <1>2, <1>3, <1>4 DEF ProposalStep

\* The outcome of a child Cell's relay.
LEMMA ChildHeardType ==
  ASSUME NEW p \in PoolRecord, NEW cell \in Cell, NEW row \in Row, NEW population \in Nat
  PROVE  ChildHeard(p, cell, row, population) \in PoolRecord
<1> DEFINE people == Greatest(1, population)
           voice == [relayed |-> TRUE, row |-> row]
           relayed == [p EXCEPT !.childSliderRelay[cell] = voice,
                                !.childPopulation[cell] = people]
           law == [param \in GovernanceParameter |->
                     ResolveGovernanceParameter(relayed, param)]
<1>1. people \in Nat
  BY DEF Greatest
<1>2. voice \in [relayed : BOOLEAN, row : Row]
  OBVIOUS
<1>3. ChildHeard(p, cell, row, population) = [relayed EXCEPT !.parameters = law]
  BY DEF ChildHeard
<1> HIDE DEF people, voice
<1>4. relayed \in PoolRecord
  BY <1>1, <1>2 DEF PoolRecord
<1> HIDE DEF relayed
<1>5. law \in [GovernanceParameter -> Ratio]
  BY <1>4, ParameterRatio
<1> HIDE DEF law
<1> QED BY <1>3, <1>4, <1>5, ZenonT(40) DEF PoolRecord

\* The governance relay and the bridge_transaction events keep TypeOK.
LEMMA FederationType ==
  ASSUME TypeOK, NEW author \in Soul, NEW ts \in Timestamps, FederationStep(author, ts)
  PROVE  TypeOK'
<1>1. pool \in PoolRecord /\ released \in Nat
  BY DEF TypeOK
<1>2. ASSUME NEW cell \in Cell, NEW row \in Rows, NEW population \in Populations,
             RelayChildGovernance(author, ts, cell, row, population)
      PROVE  TypeOK'
  <2>1. ChildHeard(pool, cell, row, population) \in PoolRecord
    BY <1>1, ChildHeardType, InputAssumption
  <2> QED BY <1>2, <2>1, CommitType DEF RelayChildGovernance
<1>3. ASSUME RelayOwnGovernance(author, ts) PROVE TypeOK'
  BY <1>1, <1>3, CommitType DEF RelayOwnGovernance
<1>4. ASSUME NEW d \in Deliveries
      PROVE  /\ d.cell \in Cell /\ d.id \in ProposalId /\ d.to \in Soul /\ d.amount \in Nat
             /\ \A p \in PoolRecord : MarkBridgeProposalCompleted(p, d.id) \in PoolRecord
  <2>1. d.cell \in Cell /\ d.id \in ProposalId /\ d.to \in Soul /\ d.amount \in Nat
    BY InputAssumption
  <2> QED BY <2>1, MarkedProposalType DEF MarkBridgeProposalCompleted
<1>5. ASSUME NEW d \in Deliveries, BridgeInbound(author, ts, d) PROVE TypeOK'
  <2>1. MintPoints(pool, d.to, d.amount) \in PoolRecord
    BY <1>1, <1>4, MintPointsType
  <2> QED BY <1>4, <1>5, <2>1, CommitType DEF BridgeInbound
<1>6. ASSUME NEW d \in Deliveries, BridgeUnlinked(author, ts, d) PROVE TypeOK'
  <2>1. TransferPoints(pool, author, d.to, d.amount) \in PoolRecord
    BY <1>1, <1>4, TransferPointsType
  <2> QED BY <1>4, <1>6, <2>1, CommitType DEF BridgeUnlinked
<1>7. ASSUME NEW d \in Deliveries, BridgeOutbound(author, ts, d) PROVE TypeOK'
  <2> DEFINE paid == Paid(pool, d.cell, d.amount)
             delivered == MarkBridgeProposalCompleted(paid, d.id)
  <2>1. paid \in PoolRecord
    BY <1>1, <1>4, PaidType
  <2>2. delivered \in PoolRecord
    BY <1>4, <2>1
  <2>3. pool' = Committed(delivered, author, ts) /\ released' = released + d.amount
    BY <1>7 DEF BridgeOutbound
  <2> HIDE DEF delivered
  <2>4. Committed(delivered, author, ts) \in PoolRecord
    BY <2>2, CommittedType, InputAssumption
  <2> QED BY <1>1, <1>4, <2>3, <2>4 DEF TypeOK
<1> QED BY <1>2, <1>3, <1>5, <1>6, <1>7 DEF FederationStep

\* relay_contribute and relay_revoke keep TypeOK.
LEMMA RelayType ==
  ASSUME TypeOK, NEW author \in Soul, NEW ts \in Timestamps, RelayStep(author, ts)
  PROVE  TypeOK'
<1>1. pool \in PoolRecord
  BY DEF TypeOK
<1>2. author \in Key /\ None \in Key
  BY SizeAssumption DEF Key, Soul, None
<1>3. ASSUME NEW authors \in [RelayUrl -> Key]
      PROVE  [pool EXCEPT !.communityRelayAuthors = authors] \in PoolRecord
  BY <1>1 DEF PoolRecord
<1>4. ASSUME NEW url \in RelayUrl, RelayContribute(author, ts, url) PROVE TypeOK'
  <2> DEFINE kept == KeptRelays(pool, author)
             authors == IF kept[url] = None THEN [kept EXCEPT ![url] = author] ELSE kept
  <2>1. kept \in [RelayUrl -> Key]
    BY <1>1, <1>2 DEF KeptRelays, PoolRecord
  <2> HIDE DEF kept
  <2>2. authors \in [RelayUrl -> Key]
    BY <1>2, <2>1
  <2>3. Commit([pool EXCEPT !.communityRelayAuthors = authors], author, ts)
    BY <1>4 DEF RelayContribute, kept
  <2> HIDE DEF authors
  <2> QED BY <1>3, <2>2, <2>3, CommitType
<1>5. ASSUME NEW url \in RelayUrl, RelayRevoke(author, ts, url) PROVE TypeOK'
  <2> DEFINE authors == [pool.communityRelayAuthors EXCEPT ![url] = None]
  <2>1. authors \in [RelayUrl -> Key]
    BY <1>1, <1>2 DEF PoolRecord
  <2>2. Commit([pool EXCEPT !.communityRelayAuthors = authors], author, ts)
    BY <1>5 DEF RelayRevoke
  <2> HIDE DEF authors
  <2> QED BY <1>3, <2>1, <2>2, CommitType
<1> QED BY <1>4, <1>5 DEF RelayStep

\* The empty Pool has its type.
LEMMA InitType == Init => TypeOK
<1> USE SizeAssumption
<1>1. NoProposal \in ProposalState
  BY DEF NoProposal, ProposalState, NewProposal, NoMotion, Motion, NoRow, Row, Soul, Cell,
         Key, NoVote, ProposalVoteRecord, None, SoulKind, ProposalKind
<1>2. \A param \in GovernanceParameter : Whole(DEFAULT_PARAMETERS[param]) \in Ratio
  BY DEF Whole, Ratio, Row
<1>3. NoLien \in VouchLien /\ NoInvite \in PendingInvite
  BY DEF NoLien, VouchLien, NoInvite, PendingInvite, Key, None
<1>4. NoRow \in Row
  BY DEF NoRow, Row
<1>5. NoVouches \in [Soul -> Nat \cup {Unset}] /\ NoShares \in [Soul -> Nat]
  BY DEF NoVouches, NoShares
<1>6. CreateInitialState \in PoolRecord
  BY <1>1, <1>2, <1>3, <1>4, <1>5 DEF CreateInitialState, PoolRecord, None, Key
<1> QED BY <1>6 DEF Init, TypeOK

\* Every event, and a stutter, keeps TypeOK.
LEMMA NextType == TypeOK /\ [Next]_vars => TypeOK'
<1> SUFFICES ASSUME TypeOK, [Next]_vars PROVE TypeOK'
  OBVIOUS
<1>1. CASE UNCHANGED vars
  BY <1>1 DEF vars, TypeOK
<1>2. ASSUME NEW author \in Soul, NEW ts \in Timestamps, AdmissionStep(author, ts)
      PROVE  TypeOK'
  BY <1>2, GenesisType, InviteType, CancelInviteType, AcceptInviteType DEF AdmissionStep
<1> QED BY <1>1, <1>2, LedgerType, SliderType, ProposalType, FederationType, RelayType
        DEF Next

\* Type correctness: whatever events a log holds, in whatever order, every
\* field of the Pool keeps the type PoolState declares for it.
THEOREM TypeCorrect == Spec => []TypeOK
<1>1. Init => TypeOK
  BY InitType
<1>2. TypeOK /\ [Next]_vars => TypeOK'
  BY NextType
<1> QED BY <1>1, <1>2, PTL DEF Spec
=============================================================================
