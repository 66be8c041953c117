------------------------------ MODULE SumTheorems -------------------------------
(***************************************************************************)
(* What Sum and Highest compute, for every length and every function, and  *)
(* how ranks number a finite set; and what dividing chips leaves.  The     *)
(* library's induction theorem takes an operator, so induction is set up   *)
(* here for sets: a nonempty set of naturals has a least element.          *)
(***************************************************************************)
EXTENDS Sums, FiniteSetTheorems, FunctionTheorems, WellFoundedInduction, TLAPS

(***************************************************************************)
(* Induction over the naturals.                                            *)
(***************************************************************************)

\* Every nonempty set of naturals has a least element.
LEMMA LeastElement == ASSUME NEW C \in SUBSET Nat, C # {}
                      PROVE  \E m \in C : \A k \in C : m <= k
<1> DEFINE R == StrictSubsetOrdering(Nat)
           F == FiniteSubsetsOf(Nat)
           D == {0 .. n : n \in C}
<1>1. IsWellFoundedOn(R, F)
  BY FS_StrictSubsetOrderingWellFounded
<1>2. D \subseteq F
  <2> SUFFICES ASSUME NEW n \in C PROVE 0 .. n \in SUBSET Nat /\ IsFiniteSet(0 .. n)
    BY DEF FiniteSubsetsOf
  <2>1. IsFiniteSet(0 .. n)
    BY FS_Interval
  <2>2. 0 .. n \in SUBSET Nat
    OBVIOUS
  <2> QED BY <2>1, <2>2
<1>3. D # {}
  OBVIOUS
<1>4. PICK x \in D : \A y \in D : ~(<<y, x>> \in R)
  <2> HIDE DEF R, F, D
  <2> QED BY <1>1, <1>2, <1>3, WFMin
<1>5. PICK m \in C : x = 0 .. m
  BY <1>4
<1>6. ASSUME NEW k \in C, k < m PROVE FALSE
  <2>1. 0 .. k \in D /\ 0 .. k \subseteq 0 .. m /\ m \notin 0 .. k /\ m \in 0 .. m
    BY <1>6
  <2>2. <<0 .. k, 0 .. m>> \in R
    BY <2>1, <1>6 DEF StrictSubsetOrdering
  <2> QED BY <2>1, <2>2, <1>4, <1>5
<1> QED BY <1>6

\* A set that holds 0 and n + 1 with every n holds every natural.
LEMMA NatInd == ASSUME NEW S \in SUBSET Nat, 0 \in S, \A n \in S : n + 1 \in S
                PROVE  S = Nat
<1>1. SUFFICES ASSUME Nat \ S # {} PROVE FALSE
  OBVIOUS
<1>2. PICK x \in Nat \ S : \A y \in Nat \ S : x <= y
  BY <1>1, LeastElement
<1>3. x # 0 /\ x - 1 \in Nat /\ ~(x <= x - 1)
  OBVIOUS
<1>4. x - 1 \in S
  BY <1>2, <1>3
<1>5. (x - 1) + 1 \in S
  BY <1>4
<1> QED BY <1>5, <1>2

(***************************************************************************)
(* Sum: the recursive function it is defined by exists and is unique.      *)
(***************************************************************************)

\* g holds the partial sums of f up to n terms.
Partial(f, g, n) ==
  /\ g \in [0 .. n -> Int]
  /\ g[0] = 0
  /\ \A k \in 1 .. n : g[k] = g[k - 1] + f[k - 1]

\* The partial sums of integers exist.
LEMMA PartialExists ==
  ASSUME NEW f, NEW n \in Nat, \A k \in 0 .. n - 1 : f[k] \in Int
  PROVE  \E g : Partial(f, g, n)
<1> DEFINE S == {m \in Nat : m <= n => \E g : Partial(f, g, m)}
<1>1. 0 \in S
  <2>1. Partial(f, [k \in 0 .. 0 |-> 0], 0)
    BY DEF Partial
  <2> QED BY <2>1
<1>2. ASSUME NEW m \in S PROVE m + 1 \in S
  <2> SUFFICES ASSUME m + 1 <= n PROVE \E g : Partial(f, g, m + 1)
    OBVIOUS
  <2>1. PICK g : Partial(f, g, m)
    OBVIOUS
  <2> DEFINE h == [k \in 0 .. m + 1 |-> IF k = m + 1 THEN g[m] + f[m] ELSE g[k]]
  <2>2. m \in Nat /\ f[m] \in Int /\ g[m] \in Int
    BY <2>1 DEF Partial
  <2>3. h \in [0 .. m + 1 -> Int] /\ h[0] = 0
    BY <2>1, <2>2 DEF Partial
  <2>4. ASSUME NEW k \in 1 .. m + 1 PROVE h[k] = h[k - 1] + f[k - 1]
    <3>1. CASE k = m + 1
      BY <3>1, <2>2
    <3>2. CASE k # m + 1
      <4>1. k \in 1 .. m /\ k \in 0 .. m + 1 /\ k - 1 \in 0 .. m + 1 /\ k - 1 # m + 1
        BY <3>2, <2>2
      <4>2. h[k] = g[k] /\ h[k - 1] = g[k - 1]
        BY <4>1, <3>2
      <4> QED BY <4>1, <4>2, <2>1 DEF Partial
    <3> QED BY <3>1, <3>2
  <2>5. Partial(f, h, m + 1)
    <3> HIDE DEF h
    <3> QED BY <2>3, <2>4 DEF Partial
  <2> QED BY <2>5
<1> HIDE DEF S
<1>3. S = Nat
  <2>1. S \in SUBSET Nat
    BY DEF S
  <2> QED BY <1>1, <1>2, <2>1, NatInd
<1> QED BY <1>3 DEF S

\* Sum(n, f) is the last partial sum, whichever function holds them.
LEMMA SumPartial ==
  ASSUME NEW f, NEW n \in Nat, NEW g, Partial(f, g, n)
  PROVE  Sum(n, f) = g[n]
<1> DEFINE Rec(s) == s = [k \in 0 .. n |-> IF k = 0 THEN 0 ELSE s[k - 1] + f[k - 1]]
           s == CHOOSE s : Rec(s)
<1>1. Rec(g)
  <2> SUFFICES \A k \in 0 .. n : g[k] = IF k = 0 THEN 0 ELSE g[k - 1] + f[k - 1]
    BY DEF Partial
  <2> QED BY DEF Partial
<1>2. Rec(s)
  <2> HIDE DEF Rec
  <2> QED BY <1>1
<1>3. Sum(n, f) = s[n]
  BY DEF Sum
<1> DEFINE S == {m \in Nat : m <= n => s[m] = g[m]}
<1> HIDE DEF s
<1>4. 0 \in S
  BY <1>2 DEF Partial
<1>5. ASSUME NEW m \in S PROVE m + 1 \in S
  <2> SUFFICES ASSUME m + 1 <= n PROVE s[m + 1] = g[m + 1]
    OBVIOUS
  <2>1. m \in Nat /\ m + 1 \in 0 .. n /\ m + 1 \in 1 .. n /\ m + 1 # 0 /\ (m + 1) - 1 = m
    OBVIOUS
  <2>2. s[m + 1] = s[m] + f[m]
    BY <1>2, <2>1
  <2>3. g[m + 1] = g[m] + f[m]
    BY <2>1 DEF Partial
  <2>4. s[m] = g[m]
    BY <2>1
  <2> QED BY <2>2, <2>3, <2>4
<1> HIDE DEF S
<1>6. S = Nat
  <2>1. S \in SUBSET Nat
    BY DEF S
  <2> QED BY <1>4, <1>5, <2>1, NatInd
<1> QED BY <1>3, <1>6 DEF S

\* The empty sum.
LEMMA SumZero == ASSUME NEW f PROVE Sum(0, f) = 0
<1>1. Partial(f, [k \in 0 .. 0 |-> 0], 0)
  BY DEF Partial
<1> QED BY <1>1, SumPartial

\* One more term.
LEMMA SumStep ==
  ASSUME NEW f, NEW n \in Nat, \A k \in 0 .. n : f[k] \in Int
  PROVE  Sum(n + 1, f) = Sum(n, f) + f[n] /\ Sum(n, f) \in Int
<1>1. \A k \in 0 .. (n + 1) - 1 : f[k] \in Int
  OBVIOUS
<1>2. PICK g : Partial(f, g, n + 1)
  BY <1>1, PartialExists
<1> DEFINE h == [k \in 0 .. n |-> g[k]]
<1>3. Partial(f, h, n)
  <2>1. h \in [0 .. n -> Int] /\ h[0] = 0
    BY <1>2 DEF Partial
  <2>2. ASSUME NEW k \in 1 .. n PROVE h[k] = h[k - 1] + f[k - 1]
    BY <1>2 DEF Partial
  <2> HIDE DEF h
  <2> QED BY <2>1, <2>2 DEF Partial
<1>4. Sum(n, f) = g[n]
  BY <1>3, SumPartial
<1>5. Sum(n + 1, f) = g[n + 1]
  BY <1>2, SumPartial
<1>6. g[n + 1] = g[n] + f[n] /\ g[n] \in Int
  BY <1>2 DEF Partial
<1> QED BY <1>4, <1>5, <1>6

\* A sum of naturals is a natural.
THEOREM SumNat ==
  ASSUME NEW f, NEW n \in Nat, \A k \in 0 .. n - 1 : f[k] \in Nat
  PROVE  Sum(n, f) \in Nat
<1> DEFINE S == {m \in Nat : m <= n => Sum(m, f) \in Nat}
<1>1. 0 \in S
  BY SumZero
<1>2. ASSUME NEW m \in S PROVE m + 1 \in S
  <2> SUFFICES ASSUME m + 1 <= n PROVE Sum(m + 1, f) \in Nat
    OBVIOUS
  <2>1. \A k \in 0 .. m : f[k] \in Nat
    OBVIOUS
  <2>2. Sum(m + 1, f) = Sum(m, f) + f[m]
    BY <2>1, SumStep
  <2> QED BY <2>1, <2>2
<1> HIDE DEF S
<1>3. S = Nat
  <2>1. S \in SUBSET Nat
    BY DEF S
  <2> QED BY <1>1, <1>2, <2>1, NatInd
<1> QED BY <1>3 DEF S

\* Sums are added term by term.
THEOREM SumAdd ==
  ASSUME NEW f, NEW g, NEW h, NEW n \in Nat,
         \A k \in 0 .. n - 1 : f[k] \in Int /\ g[k] \in Int /\ h[k] = f[k] + g[k]
  PROVE  Sum(n, h) = Sum(n, f) + Sum(n, g)
<1> DEFINE S == {m \in Nat : m <= n => Sum(m, h) = Sum(m, f) + Sum(m, g)}
<1>1. 0 \in S
  BY SumZero
<1>2. ASSUME NEW m \in S PROVE m + 1 \in S
  <2> SUFFICES ASSUME m + 1 <= n PROVE Sum(m + 1, h) = Sum(m + 1, f) + Sum(m + 1, g)
    OBVIOUS
  <2>1. \A k \in 0 .. m : f[k] \in Int /\ g[k] \in Int /\ h[k] \in Int
    OBVIOUS
  <2>2. /\ Sum(m + 1, f) = Sum(m, f) + f[m] /\ Sum(m, f) \in Int
        /\ Sum(m + 1, g) = Sum(m, g) + g[m] /\ Sum(m, g) \in Int
        /\ Sum(m + 1, h) = Sum(m, h) + h[m] /\ Sum(m, h) \in Int
    BY <2>1, SumStep
  <2>3. h[m] = f[m] + g[m] /\ f[m] \in Int /\ g[m] \in Int
    OBVIOUS
  <2> QED BY <2>2, <2>3
<1> HIDE DEF S
<1>3. S = Nat
  <2>1. S \in SUBSET Nat
    BY DEF S
  <2> QED BY <1>1, <1>2, <2>1, NatInd
<1> QED BY <1>3 DEF S

\* Terms that are all zero add up to zero.
LEMMA SumZeros ==
  ASSUME NEW f, NEW n \in Nat, \A k \in 0 .. n - 1 : f[k] = 0
  PROVE  Sum(n, f) = 0
<1>1. \A k \in 0 .. n - 1 : f[k] \in Int /\ f[k] \in Nat
  OBVIOUS
<1> DEFINE S == {m \in Nat : m <= n => Sum(m, f) = 0}
<1>2. 0 \in S
  BY SumZero
<1>3. ASSUME NEW m \in S PROVE m + 1 \in S
  <2> SUFFICES ASSUME m + 1 <= n PROVE Sum(m + 1, f) = 0
    OBVIOUS
  <2>1. \A k \in 0 .. m : f[k] \in Int /\ f[k] = 0
    OBVIOUS
  <2>2. Sum(m + 1, f) = Sum(m, f) + f[m] /\ f[m] = 0
    BY <2>1, SumStep
  <2> QED BY <2>2
<1> HIDE DEF S
<1>4. S = Nat
  <2>1. S \in SUBSET Nat
    BY DEF S
  <2> QED BY <1>2, <1>3, <2>1, NatInd
<1> QED BY <1>4 DEF S

\* A sum of integers is an integer.
LEMMA SumInt ==
  ASSUME NEW f, NEW n \in Nat, \A k \in 0 .. n - 1 : f[k] \in Int
  PROVE  Sum(n, f) \in Int
<1>1. PICK g : Partial(f, g, n)
  BY PartialExists
<1>2. Sum(n, f) = g[n]
  BY <1>1, SumPartial
<1> QED BY <1>1, <1>2 DEF Partial

\* Terms that are equal add up to the same.
LEMMA SumSame ==
  ASSUME NEW f, NEW g, NEW n \in Nat, \A k \in 0 .. n - 1 : f[k] \in Int /\ g[k] = f[k]
  PROVE  Sum(n, g) = Sum(n, f)
<1> DEFINE z == [k \in 0 .. n - 1 |-> 0]
<1>1. Sum(n, g) = Sum(n, f) + Sum(n, z)
  <2>1. \A k \in 0 .. n - 1 : f[k] \in Int /\ z[k] \in Int /\ g[k] = f[k] + z[k]
    OBVIOUS
  <2> HIDE DEF z
  <2> QED BY <2>1, SumAdd
<1>2. Sum(n, z) = 0
  <2>1. \A k \in 0 .. n - 1 : z[k] = 0
    OBVIOUS
  <2> HIDE DEF z
  <2> QED BY <2>1, SumZeros
<1>3. Sum(n, f) \in Int
  BY SumInt
<1> QED BY <1>1, <1>2, <1>3

\* Smaller terms have a smaller sum.
LEMMA SumMono ==
  ASSUME NEW f, NEW g, NEW n \in Nat,
         \A k \in 0 .. n - 1 : f[k] \in Int /\ g[k] \in Int /\ f[k] <= g[k]
  PROVE  Sum(n, f) <= Sum(n, g)
<1> DEFINE d == [k \in 0 .. n - 1 |-> g[k] - f[k]]
<1>1. \A k \in 0 .. n - 1 : d[k] \in Nat /\ d[k] \in Int /\ g[k] = f[k] + d[k]
  OBVIOUS
<1> HIDE DEF d
<1>2. Sum(n, g) = Sum(n, f) + Sum(n, d)
  BY <1>1, SumAdd
<1>3. Sum(n, d) \in Nat
  BY <1>1, SumNat
<1>4. Sum(n, f) \in Int
  BY SumInt
<1> QED BY <1>2, <1>3, <1>4

\* A sum with one term that is not zero, or none.
LEMMA SumOfOne ==
  ASSUME NEW f, NEW n \in Nat, NEW v \in Nat,
         \A k \in 0 .. n - 1 : f[k] \in 0 .. v,
         \A j, k \in 0 .. n - 1 : f[j] # 0 /\ f[k] # 0 => j = k
  PROVE  Sum(n, f) <= v
<1> DEFINE S == {m \in Nat : m <= n => /\ Sum(m, f) <= v
                                       /\ (\A k \in 0 .. m - 1 : f[k] = 0) => Sum(m, f) = 0}
<1>1. 0 \in S
  BY SumZero
<1>2. ASSUME NEW m \in S PROVE m + 1 \in S
  <2> SUFFICES ASSUME m + 1 <= n
               PROVE  /\ Sum(m + 1, f) <= v
                      /\ (\A k \in 0 .. (m + 1) - 1 : f[k] = 0) => Sum(m + 1, f) = 0
    OBVIOUS
  <2>1. /\ Sum(m, f) <= v
        /\ (\A k \in 0 .. m - 1 : f[k] = 0) => Sum(m, f) = 0
    OBVIOUS
  <2>2. \A k \in 0 .. m : f[k] \in Int
    OBVIOUS
  <2>3. Sum(m + 1, f) = Sum(m, f) + f[m] /\ Sum(m, f) \in Int
    BY <2>2, SumStep
  <2>4. f[m] \in 0 .. v /\ (f[m] # 0 => \A k \in 0 .. m - 1 : f[k] = 0)
    OBVIOUS
  <2>5. (\A k \in 0 .. (m + 1) - 1 : f[k] = 0) => f[m] = 0 /\ \A k \in 0 .. m - 1 : f[k] = 0
    OBVIOUS
  <2> QED BY <2>1, <2>3, <2>4, <2>5
<1> HIDE DEF S
<1>3. S = Nat
  <2>1. S \in SUBSET Nat
    BY DEF S
  <2> QED BY <1>1, <1>2, <2>1, NatInd
<1> QED BY <1>3 DEF S

\* A table of m rows and n columns: F by rows, G by columns, r and c their sums.
SumTable(F, G, r, c, m, n) ==
  /\ \A i \in 0 .. m - 1, j \in 0 .. n - 1 : F[i][j] \in Int /\ G[j][i] = F[i][j]
  /\ \A i \in 0 .. m - 1 : r[i] = Sum(n, F[i])
  /\ \A j \in 0 .. n - 1 : c[j] = Sum(m, G[j])

\* The order of two sums does not matter.
LEMMA SumSwap ==
  ASSUME NEW m \in Nat, NEW n \in Nat, NEW F, NEW G, NEW r, NEW c, SumTable(F, G, r, c, m, n)
  PROVE  Sum(m, r) = Sum(n, c)
<1>0. /\ \A i \in 0 .. m - 1, j \in 0 .. n - 1 : F[i][j] \in Int /\ G[j][i] = F[i][j]
      /\ \A i \in 0 .. m - 1 : r[i] = Sum(n, F[i])
      /\ \A j \in 0 .. n - 1 : c[j] = Sum(m, G[j])
  BY DEF SumTable
<1> DEFINE C(k) == [j \in 0 .. n - 1 |-> Sum(k, G[j])]
           S == {k \in Nat : k <= m => Sum(k, r) = Sum(n, C(k))}
<1>1. ASSUME NEW i \in 0 .. m - 1 PROVE r[i] \in Int
  <2>1. \A j \in 0 .. n - 1 : F[i][j] \in Int
    BY <1>0
  <2> QED BY <1>0, <2>1, SumInt
<1>2. ASSUME NEW k \in Nat, k <= m, NEW j \in 0 .. n - 1 PROVE Sum(k, G[j]) \in Int
  <2>1. \A i \in 0 .. k - 1 : G[j][i] \in Int
    BY <1>0, <1>2
  <2> QED BY <2>1, SumInt
<1>3. 0 \in S
  <2>1. \A j \in 0 .. n - 1 : C(0)[j] = 0
    BY SumZero
  <2>2. Sum(n, C(0)) = 0
    <3> HIDE DEF C
    <3> QED BY <2>1, SumZeros
  <2> QED BY <2>2, SumZero
<1>4. ASSUME NEW k \in S PROVE k + 1 \in S
  <2> SUFFICES ASSUME k + 1 <= m PROVE Sum(k + 1, r) = Sum(n, C(k + 1))
    OBVIOUS
  <2>1. k \in Nat /\ k + 1 \in Nat /\ k <= m /\ k \in 0 .. m - 1
    OBVIOUS
  <2>2. Sum(k, r) = Sum(n, C(k))
    BY <2>1
  <2>3. Sum(k + 1, r) = Sum(k, r) + r[k]
    <3>1. \A i \in 0 .. k : r[i] \in Int
      BY <1>1, <2>1
    <3> QED BY <2>1, <3>1, SumStep
  <2>4. \A j \in 0 .. n - 1 : /\ C(k)[j] \in Int /\ F[k][j] \in Int
                              /\ C(k + 1)[j] = C(k)[j] + F[k][j]
    <3> SUFFICES ASSUME NEW j \in 0 .. n - 1
                 PROVE  /\ Sum(k, G[j]) \in Int /\ F[k][j] \in Int
                        /\ Sum(k + 1, G[j]) = Sum(k, G[j]) + F[k][j]
      OBVIOUS
    <3>1. ASSUME NEW i \in 0 .. k PROVE G[j][i] \in Int
      <4>1. i \in 0 .. m - 1
        BY <2>1
      <4> QED BY <1>0, <4>1
    <3>2. Sum(k + 1, G[j]) = Sum(k, G[j]) + G[j][k] /\ Sum(k, G[j]) \in Int
      BY <2>1, <3>1, SumStep
    <3> QED BY <1>0, <2>1, <3>2
  <2> HIDE DEF C
  <2>5. Sum(n, C(k + 1)) = Sum(n, C(k)) + Sum(n, F[k])
    BY <2>4, SumAdd
  <2>6. r[k] = Sum(n, F[k])
    BY <1>0, <2>1
  <2> QED BY <2>2, <2>3, <2>5, <2>6
<1>5. Sum(n, C(m)) = Sum(n, c)
  <2>1. \A j \in 0 .. n - 1 : C(m)[j] \in Int /\ c[j] = C(m)[j]
    BY <1>0, <1>2
  <2> HIDE DEF C
  <2> QED BY <2>1, SumSame
<1> HIDE DEF S, C
<1>6. S = Nat
  <2>1. S \in SUBSET Nat
    BY DEF S
  <2> QED BY <1>3, <1>4, <2>1, NatInd
<1> QED BY <1>5, <1>6 DEF S

\* The same amount for every element of a set.
LEMMA SumConst ==
  ASSUME NEW n \in Nat, NEW T \in SUBSET (0 .. n - 1), NEW v \in Nat,
         NEW f, \A k \in 0 .. n - 1 : f[k] = IF k \in T THEN v ELSE 0
  PROVE  Sum(n, f) = v * Cardinality(T) /\ IsFiniteSet(T) /\ Cardinality(T) \in Nat
<1>0. \A k \in T : k \in 0 .. n - 1 /\ k \in Nat /\ k < n
  OBVIOUS
<1> DEFINE U(m) == {k \in T : k < m}
<1>5. U(0) = {}
  <2>1. ASSUME NEW k \in T PROVE ~(k < 0)
    BY <1>0
  <2>2. \A k : k \notin U(0)
    BY <2>1
  <2> QED BY <2>2
<1>6. ASSUME NEW m \in Nat, m \in T PROVE U(m + 1) = U(m) \cup {m} /\ m \notin U(m)
  <2>1. ASSUME NEW k \in T PROVE k < m + 1 <=> k < m \/ k = m
    BY <1>0
  <2>2. \A k : k \in U(m + 1) <=> k \in U(m) \cup {m}
    BY <1>6, <2>1
  <2>3. m \notin U(m)
    OBVIOUS
  <2> QED BY <2>2, <2>3
<1>7. ASSUME NEW m \in Nat, m \notin T PROVE U(m + 1) = U(m)
  <2>1. ASSUME NEW k \in T PROVE k < m + 1 <=> k < m \/ k = m
    BY <1>0
  <2>2. \A k : k \in U(m + 1) <=> k \in U(m)
    BY <1>7, <2>1
  <2> QED BY <2>2
<1> DEFINE S == {m \in Nat : m <= n => /\ IsFiniteSet(U(m)) /\ Cardinality(U(m)) \in Nat
                                       /\ Sum(m, f) = v * Cardinality(U(m))}
<1>1. 0 \in S
  <2>1. U(0) = {}
    BY <1>5
  <2>2. IsFiniteSet(U(0)) /\ Cardinality(U(0)) = 0
    BY <2>1, FS_EmptySet
  <2>3. Sum(0, f) = 0
    BY SumZero
  <2> HIDE DEF U
  <2>4. v * 0 = 0
    OBVIOUS
  <2> QED BY <2>2, <2>3, <2>4
<1>2. ASSUME NEW m \in S PROVE m + 1 \in S
  <2> SUFFICES ASSUME m + 1 <= n
               PROVE  /\ IsFiniteSet(U(m + 1)) /\ Cardinality(U(m + 1)) \in Nat
                      /\ Sum(m + 1, f) = v * Cardinality(U(m + 1))
    OBVIOUS
  <2>1. m \in Nat /\ m \in 0 .. n - 1
    OBVIOUS
  <2>2. IsFiniteSet(U(m)) /\ Cardinality(U(m)) \in Nat /\ Sum(m, f) = v * Cardinality(U(m))
    OBVIOUS
  <2>3. Sum(m + 1, f) = Sum(m, f) + f[m]
    <3>1. \A k \in 0 .. m : f[k] \in Int
      OBVIOUS
    <3> QED BY <2>1, <3>1, SumStep
  <2>4. CASE m \in T
    <3>1. U(m + 1) = U(m) \cup {m} /\ m \notin U(m)
      BY <1>6, <2>1, <2>4
    <3>2. f[m] = v
      BY <2>1, <2>4
    <3> HIDE DEF U
    <3>3. IsFiniteSet(U(m + 1)) /\ Cardinality(U(m + 1)) = Cardinality(U(m)) + 1
      BY <2>2, <3>1, FS_AddElement
    <3>4. \A c \in Nat : v * (c + 1) = v * c + v /\ c + 1 \in Nat
      OBVIOUS
    <3>5. Sum(m + 1, f) = v * (Cardinality(U(m)) + 1) /\ Cardinality(U(m)) + 1 \in Nat
      BY <2>2, <2>3, <3>2, <3>4
    <3> QED BY <3>3, <3>5
  <2>5. CASE m \notin T
    <3>1. U(m + 1) = U(m)
      BY <1>7, <2>1, <2>5
    <3>2. f[m] = 0
      BY <2>1, <2>5
    <3> HIDE DEF U
    <3>3. \A c \in Nat : v * c \in Nat
      OBVIOUS
    <3>4. Sum(m + 1, f) = Sum(m, f)
      BY <2>2, <2>3, <3>2, <3>3
    <3> QED BY <2>2, <3>1, <3>4
  <2> QED BY <2>4, <2>5
<1>3. U(n) = T
  BY <1>0
<1> HIDE DEF S, U
<1>4. S = Nat
  <2>1. S \in SUBSET Nat
    BY DEF S
  <2> QED BY <1>1, <1>2, <2>1, NatInd
<1> QED BY <1>3, <1>4 DEF S

(***************************************************************************)
(* Highest.                                                                *)
(***************************************************************************)

\* Naturals have a highest: an upper bound that is one of them or 0.
THEOREM HighestBounds ==
  ASSUME NEW f, NEW n \in Nat, \A k \in 0 .. n - 1 : f[k] \in Nat
  PROVE  /\ Highest(n, f) \in Nat
         /\ \A k \in 0 .. n - 1 : f[k] <= Highest(n, f)
         /\ Highest(n, f) = 0 \/ \E k \in 0 .. n - 1 : Highest(n, f) = f[k]
<1> DEFINE V(m) == {0} \cup {f[k] : k \in 0 .. m - 1}
           Top(m, x) == x \in V(m) /\ \A k \in 0 .. m - 1 : f[k] <= x
           S == {m \in Nat : m <= n => \E x : Top(m, x)}
<1>1. 0 \in S
  <2>1. Top(0, 0)
    OBVIOUS
  <2> QED BY <2>1
<1>2. ASSUME NEW m \in S PROVE m + 1 \in S
  <2> SUFFICES ASSUME m + 1 <= n PROVE \E x : Top(m + 1, x)
    OBVIOUS
  <2>1. PICK x : Top(m, x)
    OBVIOUS
  <2>2. m \in Nat /\ 0 .. (m + 1) - 1 = (0 .. m - 1) \cup {m} /\ f[m] \in Nat /\ x \in Nat
    BY <2>1
  <2>3. CASE f[m] <= x
    <3>1. x \in V(m + 1)
      BY <2>1, <2>2
    <3> QED BY <3>1, <2>1, <2>2, <2>3
  <2>4. CASE ~(f[m] <= x)
    <3>1. f[m] \in V(m + 1)
      BY <2>2
    <3>2. ASSUME NEW k \in 0 .. m PROVE f[k] <= f[m]
      <4>1. CASE k = m
        BY <4>1, <2>2
      <4>2. CASE k # m
        <5>1. k \in 0 .. m - 1 /\ k \in 0 .. n - 1
          BY <4>2, <2>2
        <5>2. f[k] <= x /\ f[k] \in Nat
          BY <5>1, <2>1
        <5> QED BY <5>2, <2>2, <2>4
      <4> QED BY <4>1, <4>2
    <3>3. Top(m + 1, f[m])
      BY <3>1, <3>2, <2>2
    <3> QED BY <3>3
  <2> QED BY <2>3, <2>4
<1> HIDE DEF S
<1>3. S = Nat
  <2>1. S \in SUBSET Nat
    BY DEF S
  <2> QED BY <1>1, <1>2, <2>1, NatInd
<1>4. \E x \in V(n) : \A k \in 0 .. n - 1 : f[k] <= x
  BY <1>3 DEF S
<1>5. Highest(n, f) \in V(n) /\ \A k \in 0 .. n - 1 : f[k] <= Highest(n, f)
  BY <1>4 DEF Highest
<1> QED BY <1>5

(***************************************************************************)
(* Ranks: how many elements of a finite set come before one, by a key.     *)
(***************************************************************************)

RankBy(S, f, i) == Cardinality({j \in S : f[j] < f[i]})
Distinct(S, f)  == \A i, j \in S : i # j => f[i] # f[j]

\* A rank is below the size of the set, and a higher key has a higher rank.
LEMMA RankBounds ==
  ASSUME NEW S, IsFiniteSet(S), NEW f, \A i \in S : f[i] \in Int, NEW i \in S
  PROVE  /\ RankBy(S, f, i) \in 0 .. Cardinality(S) - 1
         /\ \A j \in S : f[i] < f[j] => RankBy(S, f, i) < RankBy(S, f, j)
<1> DEFINE B(x) == {j \in S : f[j] < f[x]}
<1>1. ASSUME NEW x \in S
      PROVE  IsFiniteSet(B(x)) /\ RankBy(S, f, x) = Cardinality(B(x)) /\ RankBy(S, f, x) \in Nat
  <2>1. B(x) \in SUBSET S
    OBVIOUS
  <2>2. IsFiniteSet(B(x))
    BY <2>1, FS_Subset
  <2> QED BY <2>2, FS_CardinalityType DEF RankBy
<1>2. RankBy(S, f, i) < Cardinality(S)
  <2>1. B(i) \in SUBSET (S \ {i})
    OBVIOUS
  <2>2. IsFiniteSet(S \ {i}) /\ Cardinality(S \ {i}) = Cardinality(S) - 1
    BY FS_RemoveElement
  <2>3. Cardinality(B(i)) <= Cardinality(S \ {i}) /\ Cardinality(S) \in Nat
    BY <2>1, <2>2, FS_Subset, FS_CardinalityType
  <2>4. Cardinality(B(i)) = RankBy(S, f, i) /\ RankBy(S, f, i) \in Nat
    BY <1>1
  <2> HIDE DEF B
  <2> QED BY <2>2, <2>3, <2>4
<1>3. ASSUME NEW j \in S, f[i] < f[j] PROVE RankBy(S, f, i) < RankBy(S, f, j)
  <2>1. B(i) \cup {i} \in SUBSET B(j) /\ i \notin B(i)
    BY <1>3
  <2>2. Cardinality(B(i) \cup {i}) = Cardinality(B(i)) + 1
    BY <1>1, <2>1, FS_AddElement
  <2>3. Cardinality(B(i) \cup {i}) <= Cardinality(B(j))
    BY <1>1, <2>1, FS_Subset
  <2>4. Cardinality(B(i)) = RankBy(S, f, i) /\ Cardinality(B(j)) = RankBy(S, f, j)
        /\ RankBy(S, f, i) \in Nat /\ RankBy(S, f, j) \in Nat
    BY <1>1
  <2> HIDE DEF B
  <2> QED BY <2>2, <2>3, <2>4
<1>4. Cardinality(S) \in Nat
  BY FS_CardinalityType
<1> HIDE DEF B
<1> QED BY <1>1, <1>2, <1>3, <1>4

\* With distinct keys every rank is taken, by one element.
LEMMA RankOnto ==
  ASSUME NEW S, IsFiniteSet(S), NEW f, \A i \in S : f[i] \in Int, Distinct(S, f)
  PROVE  /\ \A i, j \in S : RankBy(S, f, i) = RankBy(S, f, j) => i = j
         /\ \A k \in 0 .. Cardinality(S) - 1 : \E i \in S : RankBy(S, f, i) = k
<1> DEFINE r == [i \in S |-> RankBy(S, f, i)]
           K == 0 .. Cardinality(S) - 1
<1>1. ASSUME NEW i \in S, NEW j \in S, RankBy(S, f, i) = RankBy(S, f, j) PROVE i = j
  <2>1. /\ f[i] < f[j] => RankBy(S, f, i) < RankBy(S, f, j)
        /\ f[j] < f[i] => RankBy(S, f, j) < RankBy(S, f, i)
        /\ RankBy(S, f, i) \in Int /\ RankBy(S, f, j) \in Int
    BY RankBounds
  <2> QED BY <1>1, <2>1 DEF Distinct
<1>2. r \in Injection(S, K)
  <2>1. r \in [S -> K]
    BY RankBounds
  <2>2. \A i, j \in S : r[i] = r[j] => i = j
    BY <1>1
  <2>3. IsInjective(r)
    <3> HIDE DEF K
    <3>1. DOMAIN r = S
      OBVIOUS
    <3> HIDE DEF r
    <3> QED BY <2>2, <3>1 DEF IsInjective
  <2> QED BY <2>1, <2>3 DEF Injection
<1>3. IsFiniteSet(K) /\ Cardinality(K) = Cardinality(S)
  <2>1. Cardinality(S) \in Nat /\ 0 \in Int /\ Cardinality(S) - 1 \in Int
    BY FS_CardinalityType
  <2> QED BY <2>1, FS_Interval
<1>4. r \in Surjection(S, K)
  BY <1>2, <1>3, FS_Injection
<1> QED BY <1>1, <1>4 DEF Surjection

\* At most m elements have a rank below m.
LEMMA RankCount ==
  ASSUME NEW S, IsFiniteSet(S), NEW f, \A i \in S : f[i] \in Int, Distinct(S, f), NEW m \in Nat
  PROVE  LET T == {i \in S : RankBy(S, f, i) < m}
         IN  IsFiniteSet(T) /\ Cardinality(T) <= m
<1> DEFINE T == {i \in S : RankBy(S, f, i) < m}
           r == [i \in T |-> RankBy(S, f, i)]
           K == 0 .. m - 1
<1>1. r \in [T -> K]
  BY RankBounds
<1>2. IsInjective(r)
  <2>1. \A i, j \in T : RankBy(S, f, i) = RankBy(S, f, j) => i = j
    BY RankOnto
  <2> QED BY <2>1 DEF IsInjective
<1>3. IsFiniteSet(K) /\ Cardinality(K) = m
  <2>1. 0 \in Int /\ m - 1 \in Int
    OBVIOUS
  <2> QED BY <2>1, FS_Interval
<1>4. r \in Injection(T, K)
  BY <1>1, <1>2 DEF Injection
<1> HIDE DEF T, K
<1> QED BY <1>3, <1>4, FS_Injection DEF T

(***************************************************************************)
(* Division.                                                               *)
(***************************************************************************)

\* A remainder, in the first two rounds.
LEMMA ModRounds ==
  ASSUME NEW n \in Nat, n > 0, NEW a \in Nat, a < 2 * n
  PROVE  a % n = IF a < n THEN a ELSE a - n
<1> DEFINE q == a \div n
           r == a % n
<1>1. q \in Int /\ r \in Int /\ a = n * q + r /\ 0 <= r /\ r < n
  OBVIOUS
<1> HIDE DEF q, r
<1>2. q >= 0
  <2> SUFFICES ASSUME q <= -1 PROVE FALSE
    BY <1>1
  <2>1. n * q <= n * (-1)
    BY <1>1
  <2> QED BY <1>1, <2>1
<1>3. q < 2
  <2> SUFFICES ASSUME q >= 2 PROVE FALSE
    BY <1>1
  <2>1. n * q >= n * 2
    BY <1>1
  <2> QED BY <1>1, <2>1
<1>4. CASE q = 0
  <2>1. n * q = 0
    BY <1>4
  <2> QED BY <1>1, <2>1 DEF r
<1>5. CASE q = 1
  <2>1. n * q = n
    BY <1>5
  <2> QED BY <1>1, <2>1 DEF r
<1> QED BY <1>1, <1>2, <1>3, <1>4, <1>5

\* A pot is split into shares and odd chips.
LEMMA Shares ==
  ASSUME NEW amt \in Nat, NEW c \in Nat, c > 0
  PROVE  /\ amt \div c \in Nat /\ amt % c \in Nat
         /\ (amt \div c) * c + (amt % c) = amt
<1>1. /\ amt \div c \in Int /\ amt % c \in 0 .. c - 1 /\ amt = c * (amt \div c) + (amt % c)
  OBVIOUS
<1>2. amt \div c \in Nat
  OBVIOUS
<1>3. \A q \in Nat : c * q = q * c
  OBVIOUS
<1> QED BY <1>1, <1>2, <1>3
=================================================================================
