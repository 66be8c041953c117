----------------------------- MODULE SidePotsProofs -----------------------------
(***************************************************************************)
(* Proofs about module SidePots, for any number of seats, bets, scores and *)
(* hands: the loop of rebuildPots neither loses nor invents a chip, and    *)
(* both loops together pay what module Payout promises in one step.        *)
(*                                                                         *)
(* Every turn of rebuildPots takes the chips between two levels (Untaken), *)
(* so the pots built so far award what the layers of module Pots award up  *)
(* to the level reached (BuildInv).  resolveShowdown has paid some pots    *)
(* wholly and one in part: those of its winners who are first after the    *)
(* button (AwardInv).                                                      *)
(***************************************************************************)
EXTENDS SidePots, SumTheorems, SequenceTheorems

---------------------------------------------------------------------------------
(* Sequences that list a set, sorted.                                      *)

ToSet(q) == {q[k] : k \in DOMAIN q}

LEMMA PosFinite ==
  ASSUME NEW S \in SUBSET Pos
  PROVE  IsFiniteSet(S) /\ Cardinality(S) \in Nat
<1>1. IsFiniteSet(Pos)
  BY NAssumption, FS_Interval DEF Pos
<1> QED BY <1>1, FS_Subset, FS_CardinalityType

\* A listing of a set names each of its members once.
LEMMA ListsAll ==
  ASSUME NEW S \in SUBSET Pos, NEW q \in Listings(S)
  PROVE  /\ q \in Seq(S) /\ Len(q) = Cardinality(S) /\ ToSet(q) = S
         /\ \A a, b \in 1 .. Len(q) : a # b => q[a] # q[b]
<1> DEFINE D == 1 .. Cardinality(S)
<1>1. Cardinality(S) \in Nat
  BY PosFinite
<1>2. q \in [D -> S] /\ IsInjective(q) /\ \A i \in S : \E k \in D : q[k] = i
  BY DEF Listings, Bijection, Injection, Surjection
<1>3. q \in Seq(S) /\ Len(q) = Cardinality(S)
  BY <1>1, <1>2
<1>4. \A a, b \in D : a # b => q[a] # q[b]
  BY <1>2 DEF IsInjective
<1>5. ToSet(q) = S
  BY <1>2 DEF ToSet
<1> QED BY <1>3, <1>4, <1>5

\* q lists distinct positions in the order of f.
Sorted(q, f) == \A a, b \in 1 .. Len(q) : a < b => f[q[a]] < f[q[b]]

\* A set of positions can be sorted by keys that differ.
LEMMA CanBeSorted ==
  ASSUME NEW S \in SUBSET Pos, NEW f, \A i \in S : f[i] \in Int, Distinct(S, f)
  PROVE  \E q \in Listings(S) : Sorted(q, f)
<1> DEFINE D == 1 .. Cardinality(S)
           q == [k \in D |-> CHOOSE i \in S : RankBy(S, f, i) = k - 1]
<1>1. IsFiniteSet(S) /\ Cardinality(S) \in Nat
  BY PosFinite
<1>2. ASSUME NEW k \in D PROVE q[k] \in S /\ RankBy(S, f, q[k]) = k - 1
  <2>1. k - 1 \in 0 .. Cardinality(S) - 1
    BY <1>1
  <2>2. \E i \in S : RankBy(S, f, i) = k - 1
    BY <1>1, <2>1, RankOnto
  <2> QED BY <2>2
<1>3. q \in [D -> S] /\ \A a, b \in D : a # b => q[a] # q[b]
  <2>1. q \in [D -> S]
    BY <1>2
  <2>2. ASSUME NEW a \in D, NEW b \in D, q[a] = q[b] PROVE a = b
    <3> HIDE DEF q
    <3>1. a - 1 = b - 1
      BY <1>2, <2>2
    <3> QED BY <1>1, <3>1
  <2> HIDE DEF q
  <2> QED BY <2>1, <2>2
<1>4. q \in Listings(S)
  <2> HIDE DEF q
  <2>1. q \in Injection(D, S)
    BY <1>3 DEF Injection, IsInjective
  <2>2. IsFiniteSet(D) /\ Cardinality(D) = Cardinality(S)
    BY <1>1, FS_Interval
  <2> HIDE DEF D
  <2>3. q \in Surjection(D, S)
    BY <1>1, <2>1, <2>2, FS_Injection
  <2> QED BY <2>1, <2>3 DEF Listings, Bijection, D
<1>5. Len(q) = Cardinality(S)
  BY <1>4, ListsAll
<1>6. ASSUME NEW a \in D, NEW b \in D, a < b PROVE f[q[a]] < f[q[b]]
  <2> HIDE DEF q
  <2>1. f[q[a]] \in Int /\ f[q[b]] \in Int /\ q[a] # q[b]
    BY <1>1, <1>2, <1>3, <1>6
  <2>2. ~(f[q[b]] < f[q[a]])
    <3>1. f[q[b]] < f[q[a]] => RankBy(S, f, q[b]) < RankBy(S, f, q[a])
      BY <1>1, <1>2, RankBounds
    <3> QED BY <1>1, <1>2, <1>6, <3>1
  <2> QED BY <1>2, <2>1, <2>2 DEF Distinct
<1> HIDE DEF q
<1> QED BY <1>4, <1>5, <1>6 DEF Sorted

\* Dropping the first of a list.
LEMMA TailOfList ==
  ASSUME NEW S, NEW q \in Seq(S), q # <<>>,
         \A a, b \in 1 .. Len(q) : a # b => q[a] # q[b]
  PROVE  /\ Head(q) \in S /\ Head(q) = q[1] /\ Tail(q) \in Seq(S)
         /\ ToSet(q) = {Head(q)} \union ToSet(Tail(q)) /\ Head(q) \notin ToSet(Tail(q))
         /\ Len(Tail(q)) = Len(q) - 1 /\ \A a \in 1 .. Len(Tail(q)) : Tail(q)[a] = q[a + 1]
         /\ \A a, b \in 1 .. Len(Tail(q)) : a # b => Tail(q)[a] # Tail(q)[b]
<1>1. /\ Len(q) \in Nat /\ DOMAIN q = 1 .. Len(q) /\ Len(q) >= 1
      /\ Head(q) \in S /\ Head(q) = q[1]
  BY EmptySeq, LenProperties, HeadTailProperties
<1>2. /\ Tail(q) \in Seq(S) /\ Len(Tail(q)) = Len(q) - 1
      /\ \A a \in 1 .. Len(Tail(q)) : Tail(q)[a] = q[a + 1]
  BY HeadTailProperties
<1>3. DOMAIN Tail(q) = 1 .. Len(q) - 1
  BY <1>2, LenProperties
<1> DEFINE t == Tail(q)
<1> HIDE DEF t
<1>4. ToSet(q) = {q[1]} \union ToSet(t)
  <2>1. ASSUME NEW a \in 1 .. Len(q) PROVE q[a] \in {q[1]} \union ToSet(t)
    <3>1. CASE a = 1
      BY <3>1
    <3>2. CASE a # 1
      <4>1. a - 1 \in DOMAIN t /\ t[a - 1] = q[a]
        BY <1>1, <1>2, <1>3, <3>2 DEF t
      <4> QED BY <4>1 DEF ToSet
    <3> QED BY <3>1, <3>2
  <2>2. ASSUME NEW a \in DOMAIN t PROVE t[a] \in ToSet(q)
    <3>1. a + 1 \in DOMAIN q /\ t[a] = q[a + 1]
      BY <1>1, <1>2, <1>3 DEF t
    <3> QED BY <3>1 DEF ToSet
  <2>3. q[1] \in ToSet(q)
    BY <1>1 DEF ToSet
  <2> QED BY <1>1, <2>1, <2>2, <2>3 DEF ToSet
<1>5. q[1] \notin ToSet(t)
  <2> SUFFICES ASSUME NEW a \in DOMAIN t, t[a] = q[1] PROVE FALSE
    BY DEF ToSet
  <2>1. a + 1 \in 1 .. Len(q) /\ a + 1 # 1 /\ t[a] = q[a + 1]
    BY <1>1, <1>2, <1>3 DEF t
  <2> QED BY <1>1, <2>1
<1>6. \A a, b \in 1 .. Len(t) : a # b => t[a] # t[b]
  BY <1>1, <1>2 DEF t
<1> QED BY <1>1, <1>2, <1>4, <1>5, <1>6 DEF t

---------------------------------------------------------------------------------
(* Pots and what they award.                                               *)

PotType == [amt : Nat, eligible : SUBSET Pos]

AwardTo(pot, p) == Award(pot, hand.score, hand.left, hand.dealer, N, p)
Awards(ps, p)   == [k \in 0 .. Len(ps) - 1 |-> AwardTo(ps[k + 1], p)]

LEMMA HandType ==
  ASSUME hand \in Hands
  PROVE  /\ hand.total \in [Pos -> Nat] /\ hand.score \in [Pos -> Nat] /\ hand.dealer \in Pos
         /\ hand.inHand \in SUBSET Pos /\ hand.listed \in SUBSET Pos /\ hand.left \in SUBSET Pos
         /\ hand.listed \subseteq hand.inHand
<1>1. /\ hand.total \in [Pos -> 0 .. MaxTotal] /\ hand.score \in [Pos -> Scores \cup {0}]
      /\ hand.dealer \in Pos /\ hand.inHand \in SUBSET Pos /\ hand.listed \in SUBSET Pos
      /\ hand.left \in SUBSET Pos /\ hand.listed \subseteq hand.inHand
  <2> SUFFICES ASSUME NEW h \in Hands
               PROVE  /\ h.total \in [Pos -> 0 .. MaxTotal] /\ h.score \in [Pos -> Scores \cup {0}]
                      /\ h.dealer \in Pos /\ h.inHand \in SUBSET Pos /\ h.listed \in SUBSET Pos
                      /\ h.left \in SUBSET Pos /\ h.listed \subseteq h.inHand
    OBVIOUS
  <2> QED BY DEF Hands
<1>2. 0 .. MaxTotal \subseteq Nat /\ Scores \cup {0} \subseteq Nat
  BY BoundsAssumption
<1> QED BY <1>1, <1>2

LEMMA AwardNat ==
  ASSUME NEW pot \in PotType, NEW p
  PROVE  AwardTo(pot, p) \in Nat /\ (pot.amt = 0 => AwardTo(pot, p) = 0)
<1> DEFINE W     == Winners(pot, hand.score)
           legit == W \ hand.left
           c     == Cardinality(W)
<1>1. pot.amt \in Nat /\ pot.eligible \in SUBSET Pos
  BY DEF PotType
<1>2. CASE p \in legit
  <2>1. W \in SUBSET Pos /\ W # {}
    BY <1>1, <1>2 DEF Winners
  <2>2. c \in Nat /\ c > 0
    <3> HIDE DEF W
    <3> QED BY <2>1, PosFinite, FS_EmptySet
  <2>3. pot.amt \div c \in Nat
    <3> HIDE DEF c
    <3> QED BY <1>1, <2>2, Shares
  <2>4. AwardTo(pot, p) \in {pot.amt \div c, pot.amt \div c + 1}
    <3>1. AwardTo(pot, p) = pot.amt \div c
            + (IF Cardinality({q \in legit : FromButton(q, hand.dealer, N) < FromButton(p, hand.dealer, N)})
                    < pot.amt % c THEN 1 ELSE 0)
      BY <1>2 DEF AwardTo, Award
    <3> HIDE DEF c, legit
    <3> QED BY <2>3, <3>1
  <2>5. pot.amt # 0
    BY <1>2 DEF Winners
  <2> HIDE DEF c
  <2> QED BY <2>3, <2>4, <2>5
<1>3. CASE p \notin legit
  BY <1>3 DEF AwardTo, Award
<1> QED BY <1>2, <1>3

\* A sum over a list that grows by one.
LEMMA SumExtends ==
  ASSUME NEW n \in Nat, NEW f, NEW g, \A k \in 0 .. n - 1 : f[k] \in Int /\ g[k] = f[k],
         g[n] \in Int
  PROVE  Sum(n + 1, g) = Sum(n, f) + g[n]
<1>1. \A k \in 0 .. n : g[k] \in Int
  OBVIOUS
<1>2. Sum(n, g) = Sum(n, f)
  BY SumSame
<1> QED BY <1>1, <1>2, SumStep

\* A sum of which one member grows.
Raised(g, f, n, i, v) ==
  \A k \in 0 .. n - 1 : f[k] \in Int /\ g[k] = IF k = i THEN f[k] + v ELSE f[k]

LEMMA SumChanged ==
  ASSUME NEW n \in Nat, NEW f, NEW g, NEW i \in 0 .. n - 1, NEW v \in Nat, Raised(g, f, n, i, v)
  PROVE  Sum(n, g) = Sum(n, f) + v
<1> DEFINE d == [k \in 0 .. n - 1 |-> IF k \in {i} THEN v ELSE 0]
<1>1. Sum(n, d) = v * Cardinality({i})
  BY SumConst
<1>2. Cardinality({i}) = 1
  BY FS_Singleton
<1>3. \A k \in 0 .. n - 1 : f[k] \in Int /\ d[k] \in Int /\ g[k] = f[k] + d[k]
  BY DEF Raised
<1> HIDE DEF d
<1>4. Sum(n, g) = Sum(n, f) + Sum(n, d)
  BY <1>3, SumAdd
<1> QED BY <1>1, <1>2, <1>4

LEMMA AppendAwards ==
  ASSUME NEW ps \in Seq(PotType), NEW pot \in PotType
  PROVE  /\ Len(Append(ps, pot)) = Len(ps) + 1
         /\ Sum(Len(ps) + 1, Amounts(Append(ps, pot))) = Sum(Len(ps), Amounts(ps)) + pot.amt
         /\ \A p : Sum(Len(ps) + 1, Awards(Append(ps, pot), p))
                     = Sum(Len(ps), Awards(ps, p)) + AwardTo(pot, p)
<1> DEFINE n == Len(ps)
           qs == Append(ps, pot)
<1>1. /\ n \in Nat /\ Len(qs) = n + 1 /\ qs[n + 1] = pot
      /\ \A k \in 1 .. n : qs[k] = ps[k] /\ ps[k] \in PotType
  BY AppendProperties, LenProperties
<1> HIDE DEF n, qs
<1>2. Sum(n + 1, Amounts(qs)) = Sum(n, Amounts(ps)) + pot.amt
  <2> DEFINE f == Amounts(ps)
             g == Amounts(qs)
  <2>1. \A k \in 0 .. n - 1 : f[k] \in Int /\ g[k] = f[k]
    <3> SUFFICES ASSUME NEW k \in 0 .. n - 1 PROVE f[k] \in Int /\ g[k] = f[k]
      OBVIOUS
    <3>1. k + 1 \in 1 .. n /\ k \in 0 .. Len(qs) - 1 /\ k \in 0 .. Len(ps) - 1
      BY <1>1 DEF n
    <3> QED BY <1>1, <3>1 DEF Amounts, PotType
  <2>2. g[n] = pot.amt /\ pot.amt \in Int
    BY <1>1 DEF Amounts, PotType
  <2> HIDE DEF f, g
  <2>3. Sum(n + 1, g) = Sum(n, f) + g[n]
    BY <1>1, <2>1, <2>2, SumExtends
  <2> QED BY <2>2, <2>3 DEF f, g
<1>3. ASSUME NEW p PROVE Sum(n + 1, Awards(qs, p)) = Sum(n, Awards(ps, p)) + AwardTo(pot, p)
  <2> DEFINE f == Awards(ps, p)
             g == Awards(qs, p)
  <2>1. \A k \in 0 .. n - 1 : f[k] \in Int /\ g[k] = f[k]
    <3> SUFFICES ASSUME NEW k \in 0 .. n - 1 PROVE f[k] \in Int /\ g[k] = f[k]
      OBVIOUS
    <3>1. k + 1 \in 1 .. n /\ k \in 0 .. Len(qs) - 1 /\ k \in 0 .. Len(ps) - 1
      BY <1>1 DEF n
    <3>2. AwardTo(ps[k + 1], p) \in Nat
      BY <1>1, <3>1, AwardNat
    <3> QED BY <1>1, <3>1, <3>2 DEF Awards
  <2>2. g[n] = AwardTo(pot, p) /\ g[n] \in Int
    <3>1. AwardTo(pot, p) \in Nat
      BY AwardNat
    <3> QED BY <1>1, <3>1 DEF Awards
  <2> HIDE DEF f, g
  <2>3. Sum(n + 1, g) = Sum(n, f) + g[n]
    BY <1>1, <2>1, <2>2, SumExtends
  <2> QED BY <2>2, <2>3 DEF f, g
<1> QED BY <1>1, <1>2, <1>3 DEF n, qs

---------------------------------------------------------------------------------
(* The invariants.                                                         *)

TypeInv ==
  /\ hand \in Hands /\ rest \in [Pos -> Nat] /\ pots \in Seq(PotType)
  /\ phase \in {"build", "award", "done"} /\ current \in Nat
  /\ unpaid \in Seq(Pos) /\ share \in Nat /\ remainder \in Nat /\ won \in [Pos -> Nat]

Bet == hand.total

\* The all-in players still to be given a layer, the smallest bet first.
QueueInv ==
  /\ queue \in Seq(hand.listed)
  /\ \A a, b \in 1 .. Len(queue) : a # b => queue[a] # queue[b]
  /\ \A a, b \in 1 .. Len(queue) : a < b => Bet[queue[a]] <= Bet[queue[b]]

\* What the layers of module Pots up to level lv award to p.
LayerOf(i) == Layer(Bet, hand.inHand, hand.listed, i)
LayersTo(lv, p) ==
  [i \in Pos |-> IF OpensLayer(Bet, hand.listed, i) /\ Bet[i] <= lv
                 THEN AwardTo(LayerOf(i), p) ELSE 0]

\* rebuildPots has taken the chips up to level lv, an all-in bet: nobody in the queue
\* has less, nobody else has more.
Untaken(lv) == [i \in Pos |-> Bet[i] - AtMost(Bet[i], lv)]
Reached(lv) ==
  /\ lv \in Nat /\ rest = Untaken(lv)
  /\ \A j \in hand.listed : IF j \in ToSet(queue) THEN Bet[j] >= lv ELSE Bet[j] <= lv
  /\ lv = 0 \/ \E j \in hand.listed : Bet[j] = lv
  /\ \A p \in Pos : Sum(Len(pots), Awards(pots, p)) = Sum(N, LayersTo(lv, p))

BuildInv ==
  phase = "build" =>
    /\ QueueInv /\ \E lv : Reached(lv)
    /\ current = 1 /\ unpaid = <<>> /\ won = [p \in Pos |-> 0]

---------------------------------------------------------------------------------
(* Layers.                                                                 *)

LEMMA FloorBounds ==
  ASSUME hand \in Hands, NEW i \in Pos
  PROVE  LET lo == Floor(Bet, hand.listed, i)
         IN  /\ lo \in Nat /\ lo <= Bet[i]
             /\ \A j \in hand.listed : Bet[j] < Bet[i] => Bet[j] <= lo
             /\ lo = 0 \/ \E j \in hand.listed : Bet[j] = lo /\ Bet[j] < Bet[i]
<1> DEFINE f == [j \in Pos |-> IF j \in hand.listed /\ Bet[j] < Bet[i] THEN Bet[j] ELSE 0]
           lo == Highest(N, f)
<1>1. Bet \in [Pos -> Nat] /\ hand.listed \in SUBSET Pos
  BY HandType DEF Bet
<1>2. Pos = 0 .. N - 1 /\ N \in Nat
  BY NAssumption DEF Pos
<1>3. \A k \in 0 .. N - 1 : f[k] \in Nat
  BY <1>1, <1>2
<1>4. /\ lo \in Nat /\ \A k \in Pos : f[k] <= lo
      /\ lo = 0 \/ \E k \in Pos : lo = f[k]
  <2> HIDE DEF f
  <2> QED BY <1>2, <1>3, HighestBounds
<1>5. lo = Floor(Bet, hand.listed, i)
  BY DEF Floor
<1> HIDE DEF lo
<1>6. \A k \in Pos : f[k] = 0 \/ (k \in hand.listed /\ Bet[k] < Bet[i] /\ f[k] = Bet[k])
  BY <1>1
<1>7. \A j \in hand.listed : Bet[j] < Bet[i] => f[j] = Bet[j]
  BY <1>1
<1>8. lo = 0 \/ \E j \in hand.listed : Bet[j] = lo /\ Bet[j] < Bet[i]
  <2> HIDE DEF f
  <2> QED BY <1>4, <1>6
<1>9. lo <= Bet[i]
  BY <1>1, <1>4, <1>8
<1>10. \A j \in hand.listed : Bet[j] < Bet[i] => Bet[j] <= lo
  <2> HIDE DEF f
  <2> QED BY <1>1, <1>4, <1>7
<1> QED BY <1>4, <1>5, <1>8, <1>9, <1>10

LEMMA LayerType ==
  ASSUME hand \in Hands, NEW i \in Pos
  PROVE  LayerOf(i) \in PotType
<1> DEFINE lo == Floor(Bet, hand.listed, i)
           f  == [j \in Pos |-> Slice(Bet[j], lo, Bet[i])]
<1>1. Bet \in [Pos -> Nat] /\ hand.inHand \in SUBSET Pos
  BY HandType DEF Bet
<1>2. lo \in Nat /\ lo <= Bet[i]
  BY FloorBounds
<1> HIDE DEF lo
<1>3. \A k \in 0 .. N - 1 : f[k] \in Nat
  BY <1>1, <1>2 DEF Pos, Slice, AtMost
<1>4. Sum(N, f) \in Nat
  <2> HIDE DEF f
  <2> QED BY <1>3, SumNat, NAssumption
<1> QED BY <1>1, <1>4 DEF LayerOf, Layer, PotType, lo

\* Nothing above a level is awarded by the layers up to it.
LEMMA LayersType ==
  ASSUME hand \in Hands, NEW lv, NEW p
  PROVE  \A i \in 0 .. N - 1 : LayersTo(lv, p)[i] \in Nat
<1>1. ASSUME NEW i \in Pos PROVE LayersTo(lv, p)[i] \in Nat
  <2>1. AwardTo(LayerOf(i), p) \in Nat
    BY LayerType, AwardNat
  <2> QED BY <2>1 DEF LayersTo
<1> QED BY <1>1 DEF Pos

\* Of the all-in players who bet the same the first opens the layer.
LEMMA SomeoneOpens ==
  ASSUME hand \in Hands, NEW x \in hand.listed, Bet[x] > 0
  PROVE  \E m \in Pos : /\ OpensLayer(Bet, hand.listed, m) /\ Bet[m] = Bet[x]
                        /\ \A i \in Pos : OpensLayer(Bet, hand.listed, i) /\ Bet[i] = Bet[x] => i = m
<1> DEFINE C == {j \in hand.listed : Bet[j] = Bet[x]}
<1>1. hand.listed \in SUBSET Pos /\ Bet \in [Pos -> Nat]
  BY HandType DEF Bet
<1>2. Pos \subseteq Nat
  BY NAssumption DEF Pos
<1>3. C \in SUBSET Nat /\ C # {}
  BY <1>1, <1>2
<1>4. PICK m \in C : \A k \in C : m <= k
  <2> HIDE DEF C
  <2> QED BY <1>3, LeastElement
<1>5. m \in Pos /\ m \in hand.listed /\ Bet[m] = Bet[x] /\ OpensLayer(Bet, hand.listed, m)
  BY <1>1, <1>4 DEF OpensLayer
<1>6. ASSUME NEW i \in Pos, OpensLayer(Bet, hand.listed, i), Bet[i] = Bet[x] PROVE i = m
  <2>1. i \in C /\ i <= m
    BY <1>5, <1>6 DEF OpensLayer
  <2>2. m <= i
    BY <1>4, <2>1
  <2> QED BY <1>2, <1>5, <2>1, <2>2
<1> QED BY <1>5, <1>6

---------------------------------------------------------------------------------
(* rebuildPots.                                                            *)

LEMMA QueueTail ==
  ASSUME QueueInv, queue # <<>>
  PROVE  /\ Head(queue) \in hand.listed
         /\ ToSet(queue) = {Head(queue)} \union ToSet(Tail(queue))
         /\ Head(queue) \notin ToSet(Tail(queue))
         /\ \A j \in ToSet(queue) : Bet[Head(queue)] <= Bet[j] \/ j = Head(queue)
         /\ (queue' = Tail(queue) /\ UNCHANGED hand => QueueInv')
<1> DEFINE x == Head(queue)
           t == Tail(queue)
<1>1. /\ x \in hand.listed /\ x = queue[1] /\ t \in Seq(hand.listed)
      /\ ToSet(queue) = {x} \union ToSet(t) /\ x \notin ToSet(t)
      /\ Len(t) = Len(queue) - 1 /\ \A a \in 1 .. Len(t) : t[a] = queue[a + 1]
      /\ \A a, b \in 1 .. Len(t) : a # b => t[a] # t[b]
  BY TailOfList DEF QueueInv
<1>2. Len(queue) \in Nat /\ DOMAIN queue = 1 .. Len(queue) /\ Len(queue) >= 1
  BY EmptySeq, LenProperties DEF QueueInv
<1> HIDE DEF x, t
<1>3. ASSUME NEW j \in ToSet(queue) PROVE Bet[x] <= Bet[j] \/ j = x
  <2>1. PICK b \in 1 .. Len(queue) : queue[b] = j
    BY <1>2 DEF ToSet
  <2>2. b = 1 \/ Bet[queue[1]] <= Bet[queue[b]]
    BY <1>2, <2>1 DEF QueueInv
  <2> QED BY <1>1, <2>1, <2>2
<1>4. ASSUME queue' = t, UNCHANGED hand PROVE QueueInv'
  <2>1. ASSUME NEW a \in 1 .. Len(t), NEW b \in 1 .. Len(t), a < b PROVE Bet[t[a]] <= Bet[t[b]]
    <3>1. a + 1 \in 1 .. Len(queue) /\ b + 1 \in 1 .. Len(queue) /\ a + 1 < b + 1
      BY <1>1, <1>2, <2>1
    <3> QED BY <1>1, <2>1, <3>1 DEF QueueInv
  <2> QED BY <1>1, <1>4, <2>1 DEF QueueInv, Bet
<1> QED BY <1>1, <1>3, <1>4 DEF x, t

\* The pot built next is a layer of module Pots, the one above the level reached.
LEMMA NextLayer ==
  ASSUME TypeInv, QueueInv, queue # <<>>, NEW lv, Reached(lv), rest[Head(queue)] > 0
  PROVE  LET x       == Head(queue)
             top     == rest[x]
             paid(i) == AtMost(rest[i], top)
             pot     == [amt      |-> Sum(N, [i \in Pos |-> paid(i)]),
                         eligible |-> {i \in hand.inHand : rest[i] >= top}]
         IN  /\ pot \in PotType /\ Bet[x] > lv
             /\ [i \in Pos |-> rest[i] - paid(i)] = Untaken(Bet[x])
             /\ \A p \in Pos : Sum(N, LayersTo(Bet[x], p)) = Sum(N, LayersTo(lv, p)) + AwardTo(pot, p)
<1> DEFINE x       == Head(queue)
           top     == rest[x]
           paid(i) == AtMost(rest[i], top)
           pot     == [amt      |-> Sum(N, [i \in Pos |-> paid(i)]),
                       eligible |-> {i \in hand.inHand : rest[i] >= top}]
<1>1. /\ Bet \in [Pos -> Nat] /\ hand.listed \in SUBSET Pos /\ hand.inHand \in SUBSET Pos
      /\ hand \in Hands
  BY HandType DEF Bet, TypeInv
<1>2. /\ x \in Pos /\ x \in hand.listed /\ x \in ToSet(queue)
      /\ \A j \in ToSet(queue) : Bet[x] <= Bet[j]
  BY <1>1, QueueTail
<1>3. /\ lv \in Nat /\ \A i \in Pos : rest[i] = Bet[i] - AtMost(Bet[i], lv)
  BY DEF Reached, Untaken
<1> HIDE DEF x
<1>4. Bet[x] > lv /\ top = Bet[x] - lv
  BY <1>1, <1>2, <1>3 DEF AtMost, x
<1>5. ASSUME NEW i \in Pos
      PROVE  /\ paid(i) = Slice(Bet[i], lv, Bet[x]) /\ paid(i) \in Nat
             /\ rest[i] - paid(i) = Bet[i] - AtMost(Bet[i], Bet[x])
             /\ rest[i] >= top <=> Bet[i] >= Bet[x]
  BY <1>1, <1>2, <1>3, <1>4 DEF AtMost, Slice
<1>6. [i \in Pos |-> rest[i] - paid(i)] = Untaken(Bet[x])
  <2> HIDE DEF paid
  <2> QED BY <1>5 DEF Untaken
<1>7. PICK m \in Pos : /\ OpensLayer(Bet, hand.listed, m) /\ Bet[m] = Bet[x]
                       /\ \A i \in Pos : OpensLayer(Bet, hand.listed, i) /\ Bet[i] = Bet[x] => i = m
  BY <1>1, <1>2, <1>3, <1>4, SomeoneOpens
<1>8. Floor(Bet, hand.listed, m) = lv
  <2> DEFINE lo == Floor(Bet, hand.listed, m)
  <2>1. /\ lo \in Nat
        /\ \A j \in hand.listed : Bet[j] < Bet[x] => Bet[j] <= lo
        /\ lo = 0 \/ \E j \in hand.listed : Bet[j] = lo /\ Bet[j] < Bet[x]
    BY <1>1, <1>7, FloorBounds
  <2> HIDE DEF lo
  <2>2. lv <= lo
    BY <1>3, <1>4, <2>1 DEF Reached
  <2>3. ASSUME NEW j \in hand.listed, Bet[j] < Bet[x] PROVE Bet[j] <= lv
    <3>1. j \notin ToSet(queue)
      BY <1>1, <1>2, <2>3
    <3> QED BY <3>1 DEF Reached
  <2>4. lo <= lv
    BY <1>3, <2>1, <2>3
  <2> QED BY <1>3, <2>1, <2>2, <2>4 DEF lo
<1>9. pot = LayerOf(m)
  <2>1. [i \in Pos |-> paid(i)] = [i \in Pos |-> Slice(Bet[i], lv, Bet[m])]
    <3> HIDE DEF paid
    <3> QED BY <1>5, <1>7
  <2>2. {i \in hand.inHand : rest[i] >= top} = {i \in hand.inHand : Bet[i] >= Bet[m]}
    BY <1>1, <1>5, <1>7
  <2> HIDE DEF paid, top
  <2>3. LayerOf(m) = [amt      |-> Sum(N, [i \in Pos |-> Slice(Bet[i], lv, Bet[m])]),
                      eligible |-> {i \in hand.inHand : Bet[i] >= Bet[m]}]
    BY <1>8 DEF LayerOf, Layer
  <2> QED BY <2>1, <2>2, <2>3
<1> HIDE DEF pot
<1>10. pot \in PotType
  BY <1>1, <1>9, LayerType
<1>11. ASSUME NEW p \in Pos
       PROVE  Sum(N, LayersTo(Bet[x], p)) = Sum(N, LayersTo(lv, p)) + AwardTo(pot, p)
  <2> DEFINE f == LayersTo(lv, p)
             g == LayersTo(Bet[x], p)
  <2>1. AwardTo(pot, p) \in Nat
    BY <1>10, AwardNat
  <2>2. ASSUME NEW k \in Pos
        PROVE  g[k] = IF k = m THEN f[k] + AwardTo(pot, p) ELSE f[k]
    <3>1. CASE k = m
      <4>1. f[k] = 0 /\ g[k] = AwardTo(LayerOf(m), p)
        BY <1>1, <1>2, <1>3, <1>4, <1>7, <3>1 DEF LayersTo
      <4> QED BY <1>9, <2>1, <3>1, <4>1
    <3>2. CASE k # m
      <4>1. OpensLayer(Bet, hand.listed, k) => (Bet[k] <= Bet[x] <=> Bet[k] <= lv)
        <5> SUFFICES ASSUME OpensLayer(Bet, hand.listed, k)
                     PROVE  Bet[k] <= Bet[x] <=> Bet[k] <= lv
          OBVIOUS
        <5>1. k \in hand.listed /\ Bet[k] # Bet[x]
          BY <1>7, <3>2 DEF OpensLayer
        <5>2. k \in ToSet(queue) => Bet[x] <= Bet[k]
          BY <1>2
        <5>3. k \notin ToSet(queue) => Bet[k] <= lv
          BY <5>1 DEF Reached
        <5> QED BY <1>1, <1>2, <1>3, <1>4, <5>1, <5>2, <5>3
      <4> QED BY <3>2, <4>1 DEF LayersTo
    <3> QED BY <3>1, <3>2
  <2>3. Raised(g, f, N, m, AwardTo(pot, p))
    <3>1. \A k \in 0 .. N - 1 : f[k] \in Nat
      BY <1>1, LayersType
    <3> HIDE DEF f, g
    <3> QED BY <2>2, <3>1 DEF Pos, Raised
  <2>4. m \in 0 .. N - 1 /\ N \in Nat
    BY NAssumption DEF Pos
  <2> HIDE DEF f, g
  <2>5. Sum(N, g) = Sum(N, f) + AwardTo(pot, p)
    BY <2>1, <2>3, <2>4, SumChanged
  <2> QED BY <2>5 DEF f, g
<1> HIDE DEF paid, top
<1> QED BY <1>4, <1>6, <1>10, <1>11 DEF pot, x, paid, top

\* When the queue is empty, the level reached is where the last pot starts.
Due(p) ==
  Winnings(AllPots(Bet, hand.inHand, hand.listed, hand.chipless),
           hand.score, hand.left, hand.dealer, N, p)

LEMMA LastLayer ==
  ASSUME TypeInv, queue = <<>>, NEW lv, Reached(lv)
  PROVE  LET pot == [amt |-> Sum(N, rest), eligible |-> hand.inHand \ hand.chipless]
         IN  /\ pot \in PotType
             /\ \A p \in Pos : Due(p) = Sum(Len(pots), Awards(pots, p)) + AwardTo(pot, p)
<1> DEFINE pot == [amt |-> Sum(N, rest), eligible |-> hand.inHand \ hand.chipless]
           f   == [j \in Pos |-> IF j \in hand.listed THEN Bet[j] ELSE 0]
           all == AllPots(Bet, hand.inHand, hand.listed, hand.chipless)
<1>1. /\ Bet \in [Pos -> Nat] /\ hand.listed \in SUBSET Pos /\ hand.inHand \in SUBSET Pos
      /\ hand \in Hands
  BY HandType DEF Bet, TypeInv
<1>2. Pos = 0 .. N - 1 /\ N \in Nat
  BY NAssumption DEF Pos
<1>3. lv \in Nat /\ \A j \in hand.listed : Bet[j] <= lv
  BY DEF Reached, ToSet
<1>4. Roof(Bet, hand.listed) = lv
  <2> DEFINE r == Highest(N, f)
  <2>1. \A k \in 0 .. N - 1 : f[k] \in Nat
    BY <1>1, <1>2
  <2>2. r \in Nat /\ (\A k \in Pos : f[k] <= r) /\ (r = 0 \/ \E k \in Pos : r = f[k])
    <3> HIDE DEF f
    <3> QED BY <1>2, <2>1, HighestBounds
  <2>3. r = Roof(Bet, hand.listed)
    BY DEF Roof
  <2> HIDE DEF r
  <2>4. r <= lv
    BY <1>1, <1>3, <2>2
  <2>5. lv <= r
    BY <1>1, <1>3, <2>2 DEF Reached
  <2> QED BY <1>3, <2>2, <2>3, <2>4, <2>5
<1>5. LastPot(Bet, hand.inHand, hand.listed, hand.chipless) = pot
  BY <1>4 DEF LastPot, Reached, Untaken
<1>6. pot \in PotType
  <2>1. \A k \in 0 .. N - 1 : rest[k] \in Nat
    BY <1>2 DEF TypeInv
  <2>2. Sum(N, rest) \in Nat
    BY <1>2, <2>1, SumNat
  <2> QED BY <1>1, <2>2 DEF PotType
<1> HIDE DEF pot
<1>7. ASSUME NEW p \in Pos
      PROVE  Due(p) = Sum(N, LayersTo(lv, p)) + AwardTo(pot, p)
  <2> DEFINE g == LayersTo(lv, p)
             a == [i \in 0 .. N |-> AwardTo(all[i], p)]
  <2>1. ASSUME NEW i \in 0 .. N - 1 PROVE g[i] \in Nat /\ a[i] = g[i]
    <3>1. i \in Pos /\ i \in 0 .. N /\ i # N
      BY <1>2
    <3>2. g[i] \in Nat
      BY <1>1, <2>1, LayersType
    <3>3. CASE OpensLayer(Bet, hand.listed, i)
      <4>1. all[i] = LayerOf(i) /\ Bet[i] <= lv
        BY <1>3, <3>1, <3>3 DEF AllPots, LayerOf, OpensLayer
      <4> QED BY <3>1, <3>2, <3>3, <4>1 DEF LayersTo
    <3>4. CASE ~OpensLayer(Bet, hand.listed, i)
      <4>1. all[i] = EmptyPot
        BY <3>1, <3>4 DEF AllPots
      <4>2. EmptyPot \in PotType /\ EmptyPot.amt = 0
        BY DEF EmptyPot, PotType
      <4>3. AwardTo(all[i], p) = 0
        BY <4>1, <4>2, AwardNat
      <4> QED BY <3>1, <3>2, <3>4, <4>3 DEF LayersTo
    <3> QED BY <3>3, <3>4
  <2>2. a[N] = AwardTo(pot, p) /\ a[N] \in Nat
    <3>1. all[N] = pot
      BY <1>2, <1>5 DEF AllPots
    <3>2. AwardTo(pot, p) \in Nat
      BY <1>6, AwardNat
    <3> QED BY <1>2, <3>1, <3>2
  <2>3. Due(p) = Sum(N + 1, a)
    BY DEF Due, Winnings, AwardTo
  <2> HIDE DEF a, g
  <2>4. \A k \in 0 .. N - 1 : g[k] \in Int /\ a[k] = g[k]
    BY <2>1
  <2>5. Sum(N + 1, a) = Sum(N, g) + a[N]
    BY <1>2, <2>2, <2>4, SumExtends
  <2> QED BY <2>2, <2>3, <2>5 DEF g
<1>8. \A p \in Pos : Sum(Len(pots), Awards(pots, p)) = Sum(N, LayersTo(lv, p))
  BY DEF Reached
<1> QED BY <1>6, <1>7, <1>8 DEF pot

---------------------------------------------------------------------------------
(* resolveShowdown.                                                        *)

Dist       == [p \in Pos |-> FromButton(p, hand.dealer, N)]
Wins(pot)  == Winners(pot, hand.score)
Legit(pot) == Wins(pot) \ hand.left

\* The first n pots are paid.
PaidUp(w, n) == \A p \in Pos : w[p] = Sum(n, Awards(pots, p))

\* Pot k is being paid: those before its unpaid winners have got theirs, and the odd
\* chips they took are gone.
Paying(todo, sh, odd, w, k) ==
  LET pot   == pots[k]
      chips == pot.amt % Cardinality(Wins(pot))
      paid  == Legit(pot) \ ToSet(todo)
  IN  /\ todo \in Seq(Pos) /\ ToSet(todo) \subseteq Legit(pot) /\ Sorted(todo, Dist)
      /\ \A p \in paid, q \in ToSet(todo) : Dist[p] < Dist[q]
      /\ sh = pot.amt \div Cardinality(Wins(pot))
      /\ odd = IF Cardinality(paid) < chips THEN chips - Cardinality(paid) ELSE 0
      /\ \A p \in Pos : w[p] = Sum(k - 1, Awards(pots, p))
                                 + (IF p \in paid THEN AwardTo(pot, p) ELSE 0)

Awarding(todo, sh, odd, w, n) ==
  IF todo = <<>> THEN PaidUp(w, n) ELSE n > 0 /\ Paying(todo, sh, odd, w, n)

AwardInv ==
  phase # "build" =>
    /\ current \in 1 .. Len(pots) + 1
    /\ \A p \in Pos : Sum(Len(pots), Awards(pots, p)) = Due(p)
    /\ Awarding(unpaid, share, remainder, won, current - 1)
    /\ phase = "done" => unpaid = <<>> /\ current = Len(pots) + 1

\* Different seats, different distances.
LEMMA DistDiffers ==
  ASSUME hand \in Hands
  PROVE  /\ \A p \in Pos : Dist[p] \in Int
         /\ \A p, q \in Pos : p # q => Dist[p] # Dist[q]
<1> DEFINE d == hand.dealer
<1>1. d \in Pos /\ Pos \subseteq Nat /\ \A p \in Pos : p < N
  BY HandType, NAssumption DEF Pos
<1> HIDE DEF d
<1>2. ASSUME NEW p \in Pos
      PROVE  /\ p + N - d - 1 \in Nat /\ p + N - d - 1 < 2 * N
             /\ Dist[p] = (p + N - d - 1) % N
  <2>1. p + N - d - 1 \in Nat /\ p + N - d - 1 < 2 * N
    BY <1>1, NAssumption
  <2>2. Dist[p] = FromButton(p, d, N)
    BY DEF Dist, d
  <2> QED BY <2>1, <2>2 DEF FromButton
<1>3. ASSUME NEW p \in Pos
      PROVE  Dist[p] = IF p + N - d - 1 < N THEN p + N - d - 1 ELSE p - d - 1
  <2> DEFINE a == p + N - d - 1
  <2>1. a \in Nat /\ a < 2 * N /\ Dist[p] = a % N /\ N \in Nat /\ N > 0
    BY <1>2, NAssumption
  <2> HIDE DEF a
  <2>2. Dist[p] = IF a < N THEN a ELSE a - N
    BY <2>1, ModRounds
  <2> QED BY <1>1, <2>2, NAssumption DEF a
<1>4. ASSUME NEW p \in Pos, NEW q \in Pos, p # q PROVE Dist[p] # Dist[q]
  <2>1. /\ Dist[p] = IF p + N - d - 1 < N THEN p + N - d - 1 ELSE p - d - 1
        /\ Dist[q] = IF q + N - d - 1 < N THEN q + N - d - 1 ELSE q - d - 1
    BY <1>3
  <2> QED BY <1>1, <1>4, <2>1, NAssumption
<1>5. ASSUME NEW p \in Pos PROVE Dist[p] \in Int
  BY <1>1, <1>3, NAssumption
<1> QED BY <1>4, <1>5

\* oddChipOrder lists whom it is given, from the button on.
LEMMA OrderSorts ==
  ASSUME hand \in Hands, NEW S \in SUBSET Pos
  PROVE  /\ OddChipOrder(S) \in Seq(S) /\ ToSet(OddChipOrder(S)) = S
         /\ Sorted(OddChipOrder(S), Dist)
<1> DEFINE InOrder(q) == \A a, b \in 1 .. Len(q) :
             a < b => FromButton(q[a], hand.dealer, N) < FromButton(q[b], hand.dealer, N)
<1>1. ASSUME NEW q \in Listings(S) PROVE InOrder(q) <=> Sorted(q, Dist)
  <2>1. \A a \in 1 .. Len(q) : q[a] \in Pos
    <3>1. q \in Seq(S)
      BY ListsAll
    <3>2. q \in [1 .. Len(q) -> S]
      BY <3>1, LenProperties
    <3> QED BY <3>2
  <2>2. \A a \in 1 .. Len(q) : Dist[q[a]] = FromButton(q[a], hand.dealer, N)
    BY <2>1 DEF Dist
  <2> QED BY <2>2 DEF Sorted
<1>2. (\A i \in S : Dist[i] \in Int) /\ Distinct(S, Dist)
  BY DistDiffers DEF Distinct
<1>3. PICK q \in Listings(S) : Sorted(q, Dist)
  BY <1>2, CanBeSorted
<1>4. InOrder(q)
  BY <1>1, <1>3
<1>5. OddChipOrder(S) = CHOOSE o \in Listings(S) : InOrder(o)
  BY DEF OddChipOrder
<1> HIDE DEF InOrder
<1>6. OddChipOrder(S) \in Listings(S) /\ InOrder(OddChipOrder(S))
  BY <1>3, <1>4, <1>5
<1> QED BY <1>1, <1>6, ListsAll

LEMMA PotTypes ==
  ASSUME TypeInv, NEW n \in 1 .. Len(pots)
  PROVE  /\ pots[n] \in PotType /\ Legit(pots[n]) \in SUBSET Pos /\ Wins(pots[n]) \in SUBSET Pos
         /\ n \in Nat /\ n - 1 \in Nat
         /\ \A p : AwardTo(pots[n], p) \in Nat /\ (p \notin Legit(pots[n]) => AwardTo(pots[n], p) = 0)
         /\ \A p : Sum(n, Awards(pots, p)) = Sum(n - 1, Awards(pots, p)) + AwardTo(pots[n], p)
<1>1. Len(pots) \in Nat /\ \A k \in 1 .. Len(pots) : pots[k] \in PotType
  BY LenProperties DEF TypeInv
<1>2. pots[n] \in PotType /\ Legit(pots[n]) \in SUBSET Pos /\ Wins(pots[n]) \in SUBSET Pos
  BY <1>1 DEF Legit, Wins, Winners, PotType
<1>3. ASSUME NEW p
      PROVE  AwardTo(pots[n], p) \in Nat /\ (p \notin Legit(pots[n]) => AwardTo(pots[n], p) = 0)
  <2>1. AwardTo(pots[n], p) \in Nat
    BY <1>2, AwardNat
  <2>2. ASSUME p \notin Legit(pots[n]) PROVE AwardTo(pots[n], p) = 0
    BY <2>2 DEF AwardTo, Award, Legit, Wins
  <2> QED BY <2>1, <2>2
<1>4. ASSUME NEW p
      PROVE  Sum(n, Awards(pots, p)) = Sum(n - 1, Awards(pots, p)) + AwardTo(pots[n], p)
  <2> DEFINE f == Awards(pots, p)
  <2>1. ASSUME NEW k \in 0 .. n - 1 PROVE f[k] = AwardTo(pots[k + 1], p) /\ f[k] \in Int
    <3>1. k \in 0 .. Len(pots) - 1 /\ k + 1 \in 1 .. Len(pots)
      BY <1>1
    <3>2. AwardTo(pots[k + 1], p) \in Nat
      BY <1>1, <3>1, AwardNat
    <3> QED BY <3>1, <3>2 DEF Awards
  <2>2. n - 1 \in Nat /\ (n - 1) + 1 = n /\ n - 1 \in 0 .. n - 1
    OBVIOUS
  <2> HIDE DEF f
  <2>3. Sum((n - 1) + 1, f) = Sum(n - 1, f) + f[n - 1]
    BY <2>1, <2>2, SumStep
  <2>4. f[n - 1] = AwardTo(pots[n], p)
    BY <2>1, <2>2
  <2> QED BY <2>2, <2>3, <2>4 DEF f
<1>5. n \in Nat /\ n - 1 \in Nat
  BY <1>1
<1> QED BY <1>2, <1>3, <1>4, <1>5

\* A pot whose winners have all been served is paid.
LEMMA PotPaid ==
  ASSUME TypeInv, NEW n \in 1 .. Len(pots), NEW sh, NEW odd, NEW w, Paying(<<>>, sh, odd, w, n)
  PROVE  PaidUp(w, n)
<1>1. ToSet(<<>>) = {}
  BY DEF ToSet
<1>2. ASSUME NEW p \in Pos PROVE w[p] = Sum(n, Awards(pots, p))
  <2>1. w[p] = Sum(n - 1, Awards(pots, p)) + (IF p \in Legit(pots[n]) THEN AwardTo(pots[n], p) ELSE 0)
    BY <1>1 DEF Paying
  <2>2. /\ AwardTo(pots[n], p) \in Nat /\ (p \notin Legit(pots[n]) => AwardTo(pots[n], p) = 0)
        /\ Sum(n, Awards(pots, p)) = Sum(n - 1, Awards(pots, p)) + AwardTo(pots[n], p)
    BY PotTypes
  <2> QED BY <2>1, <2>2
<1> QED BY <1>2 DEF PaidUp

\* What a winner who stayed is due, counting the winners before.
LEMMA AwardOf ==
  ASSUME NEW pot \in PotType, NEW p \in Legit(pot)
  PROVE  AwardTo(pot, p) =
           pot.amt \div Cardinality(Wins(pot))
             + (IF Cardinality({q \in Legit(pot) : Dist[q] < Dist[p]})
                     < pot.amt % Cardinality(Wins(pot)) THEN 1 ELSE 0)
<1>1. Legit(pot) \subseteq Pos
  BY DEF Legit, Wins, Winners, PotType
<1>2. {q \in Legit(pot) : Dist[q] < Dist[p]}
        = {q \in Legit(pot) : FromButton(q, hand.dealer, N) < FromButton(p, hand.dealer, N)}
  BY <1>1 DEF Dist
<1>3. p \in Wins(pot) \ hand.left
  BY DEF Legit
<1> QED BY <1>2, <1>3 DEF AwardTo, Award, Legit, Wins

LEMMA AwardSums ==
  ASSUME TypeInv, NEW n \in 0 .. Len(pots), NEW p
  PROVE  Sum(n, Awards(pots, p)) \in Nat
<1> DEFINE f == Awards(pots, p)
<1>1. Len(pots) \in Nat /\ \A k \in 1 .. Len(pots) : pots[k] \in PotType
  BY LenProperties DEF TypeInv
<1>2. ASSUME NEW k \in 0 .. n - 1 PROVE f[k] \in Nat
  <2>1. k \in 0 .. Len(pots) - 1 /\ k + 1 \in 1 .. Len(pots)
    BY <1>1
  <2>2. AwardTo(pots[k + 1], p) \in Nat
    BY <1>1, <2>1, AwardNat
  <2> QED BY <2>1, <2>2 DEF Awards
<1>3. n \in Nat
  BY <1>1
<1> HIDE DEF f
<1>4. Sum(n, f) \in Nat
  BY <1>2, <1>3, SumNat
<1> QED BY <1>4 DEF f

\* Opening pot n leaves it with nothing to pay or nobody paid yet.
LEMMA OpenAwarding ==
  ASSUME TypeInv, OpenPot, AwardInv
  PROVE  Awarding(unpaid', share', remainder', won', current' - 1)
<1> DEFINE n    == current
           pot  == pots[n]
           best == Best(pot)
<1>1. /\ phase = "award" /\ unpaid = <<>> /\ n \in 1 .. Len(pots)
      /\ current' - 1 = n /\ won' = won /\ PaidUp(won, n - 1)
  BY LenProperties DEF OpenPot, AwardInv, Awarding, TypeInv
<1> HIDE DEF n
<1>2. /\ pot \in PotType /\ Legit(pot) \in SUBSET Pos /\ Wins(pot) \in SUBSET Pos /\ n - 1 \in Nat
      /\ \A p : AwardTo(pot, p) \in Nat /\ (p \notin Legit(pot) => AwardTo(pot, p) = 0)
      /\ \A p : Sum(n, Awards(pots, p)) = Sum(n - 1, Awards(pots, p)) + AwardTo(pot, p)
  BY <1>1, PotTypes
<1>3. Wins(pot) = IF pot.amt = 0 THEN {} ELSE best
  BY DEF Wins, Winners, Best
<1>4. CASE pot.amt = 0 \/ best = {}
  <2>1. unpaid' = <<>>
    BY <1>1, <1>4 DEF OpenPot, n
  <2>2. Legit(pot) = {}
    BY <1>3, <1>4 DEF Legit
  <2>3. ASSUME NEW p \in Pos PROVE won[p] = Sum(n, Awards(pots, p))
    <3>1. won[p] = Sum(n - 1, Awards(pots, p)) /\ AwardTo(pot, p) = 0 /\ won[p] \in Nat
      BY <1>1, <1>2, <2>2 DEF PaidUp, TypeInv
    <3> QED BY <1>2, <3>1
  <2> QED BY <1>1, <2>1, <2>3 DEF Awarding, PaidUp
<1>5. CASE pot.amt # 0 /\ best # {}
  <2>1. /\ unpaid' = OddChipOrder(best \ hand.left)
        /\ share' = pot.amt \div Cardinality(best) /\ remainder' = pot.amt % Cardinality(best)
    BY <1>1, <1>5 DEF OpenPot, n
  <2>2. best = Wins(pot) /\ best \ hand.left = Legit(pot)
    BY <1>3, <1>5 DEF Legit
  <2>3. unpaid' \in Seq(Legit(pot)) /\ ToSet(unpaid') = Legit(pot) /\ Sorted(unpaid', Dist)
    BY <1>2, <2>1, <2>2, OrderSorts DEF TypeInv
  <2>4. Legit(pot) \ ToSet(unpaid') = {} /\ Cardinality({}) = 0
    BY <2>3, FS_EmptySet
  <2>5. unpaid' \in Seq(Pos)
    BY <1>2, <2>3
  <2>6. remainder' \in Nat
    <3>1. Cardinality(best) \in Nat /\ Cardinality(best) # 0 /\ pot.amt \in Nat
      BY <1>2, <1>5, <2>2, PosFinite, FS_EmptySet DEF PotType
    <3> QED BY <2>1, <3>1, Shares
  <2>7. \A p \in Pos : won'[p] = Sum(n - 1, Awards(pots, p))
    BY <1>1 DEF PaidUp
  <2>8. Paying(unpaid', share', remainder', won', n)
    <3> DEFINE chips == pot.amt % Cardinality(Wins(pot))
    <3>1. remainder' = chips /\ chips \in Nat
      BY <2>1, <2>2, <2>6
    <3>2. remainder' = IF 0 < chips THEN chips - 0 ELSE 0
      <4> HIDE DEF chips
      <4> QED BY <3>1
    <3>3. share' = pot.amt \div Cardinality(Wins(pot))
      BY <2>1, <2>2
    <3>4. ASSUME NEW p \in Pos
          PROVE  won'[p] = Sum(n - 1, Awards(pots, p)) + 0
      BY <1>1, <2>7 DEF TypeInv
    <3> QED BY <2>3, <2>4, <2>5, <3>2, <3>3, <3>4 DEF Paying
  <2> HIDE DEF pot, best
  <2>9. n > 0
    BY <1>1
  <2> QED BY <1>1, <2>8, <2>9, PotPaid DEF Awarding
<1> QED BY <1>4, <1>5

\* The next unpaid winner gets exactly the award.
LEMMA PayAwarding ==
  ASSUME TypeInv, PayWinner, AwardInv
  PROVE  Awarding(unpaid', share', remainder', won', current' - 1)
<1> DEFINE n     == current - 1
           pot   == pots[n]
           x     == Head(unpaid)
           c     == Cardinality(Wins(pot))
           chips == pot.amt % c
           paid  == Legit(pot) \ ToSet(unpaid)
           paid2 == Legit(pot) \ ToSet(unpaid')
           odd   == AtMost(remainder, 1)
<1>1. /\ phase = "award" /\ unpaid # <<>> /\ unpaid' = Tail(unpaid)
      /\ share' = share /\ remainder' = remainder - odd
      /\ won' = [won EXCEPT ![x] = @ + share + odd] /\ current' - 1 = n
      /\ n \in 1 .. Len(pots) /\ n > 0 /\ Paying(unpaid, share, remainder, won, n)
  BY LenProperties DEF PayWinner, AwardInv, Awarding, TypeInv
<1> HIDE DEF n
<1>2. /\ pot \in PotType /\ Legit(pot) \in SUBSET Pos /\ Wins(pot) \in SUBSET Pos /\ n - 1 \in Nat
      /\ \A p : AwardTo(pot, p) \in Nat
  BY <1>1, PotTypes
<1>3. /\ unpaid \in Seq(Pos) /\ ToSet(unpaid) \subseteq Legit(pot) /\ Sorted(unpaid, Dist)
      /\ \A p \in paid, q \in ToSet(unpaid) : Dist[p] < Dist[q]
      /\ share = pot.amt \div c
      /\ remainder = IF Cardinality(paid) < chips THEN chips - Cardinality(paid) ELSE 0
      /\ \A p \in Pos : won[p] = Sum(n - 1, Awards(pots, p))
                                   + (IF p \in paid THEN AwardTo(pot, p) ELSE 0)
  BY <1>1 DEF Paying
<1>4. Len(unpaid) \in Nat /\ unpaid \in [1 .. Len(unpaid) -> Pos] /\ DOMAIN unpaid = 1 .. Len(unpaid)
  BY <1>3, LenProperties
<1>5. \A p \in Pos : Dist[p] \in Int
  BY DistDiffers DEF TypeInv
<1>6. \A a, b \in 1 .. Len(unpaid) : a # b => unpaid[a] # unpaid[b]
  <2> SUFFICES ASSUME NEW a \in 1 .. Len(unpaid), NEW b \in 1 .. Len(unpaid), a # b
               PROVE  unpaid[a] # unpaid[b]
    OBVIOUS
  <2>1. a < b \/ b < a
    BY <1>4
  <2>2. Dist[unpaid[a]] \in Int /\ Dist[unpaid[b]] \in Int
    BY <1>4, <1>5
  <2> QED BY <1>3, <2>1, <2>2 DEF Sorted
<1>7. /\ x \in Pos /\ x = unpaid[1] /\ unpaid' \in Seq(Pos)
      /\ ToSet(unpaid) = {x} \union ToSet(unpaid') /\ x \notin ToSet(unpaid')
      /\ Len(unpaid') = Len(unpaid) - 1 /\ \A a \in 1 .. Len(unpaid') : unpaid'[a] = unpaid[a + 1]
  BY <1>1, <1>3, <1>6, TailOfList
<1>8. Len(unpaid) >= 1
  BY <1>1, <1>3, EmptySeq
<1> HIDE DEF x
<1>9. Sorted(unpaid', Dist)
  <2> SUFFICES ASSUME NEW a \in 1 .. Len(unpaid'), NEW b \in 1 .. Len(unpaid'), a < b
               PROVE  Dist[unpaid'[a]] < Dist[unpaid'[b]]
    BY DEF Sorted
  <2>1. a + 1 \in 1 .. Len(unpaid) /\ b + 1 \in 1 .. Len(unpaid) /\ a + 1 < b + 1
    BY <1>4, <1>7
  <2> QED BY <1>3, <1>7, <2>1 DEF Sorted
<1>10. \A q \in ToSet(unpaid') : Dist[x] < Dist[q]
  <2> SUFFICES ASSUME NEW q \in ToSet(unpaid') PROVE Dist[x] < Dist[q]
    OBVIOUS
  <2>1. PICK b \in 1 .. Len(unpaid) : unpaid[b] = q
    BY <1>4, <1>7 DEF ToSet
  <2>2. b # 1
    BY <1>7, <2>1
  <2>3. 1 \in 1 .. Len(unpaid) /\ 1 < b
    BY <1>4, <1>8, <2>2
  <2> QED BY <1>3, <1>7, <2>1, <2>3 DEF Sorted
<1>11. x \in Legit(pot) /\ x \notin paid /\ paid2 = paid \union {x}
  BY <1>3, <1>7
<1>12. {q \in Legit(pot) : Dist[q] < Dist[x]} = paid
  <2>1. ASSUME NEW q \in Legit(pot), Dist[q] < Dist[x] PROVE q \in paid
    <3>1. q \in Pos /\ q # x
      BY <1>2, <1>5, <1>7, <2>1
    <3>2. q \notin ToSet(unpaid')
      BY <1>5, <1>7, <1>10, <2>1, <3>1
    <3> QED BY <1>7, <2>1, <3>1, <3>2
  <2>2. ASSUME NEW q \in paid PROVE Dist[q] < Dist[x]
    BY <1>3, <1>7
  <2> QED BY <2>1, <2>2
<1>13. AwardTo(pot, x) = share + (IF Cardinality(paid) < chips THEN 1 ELSE 0)
  BY <1>2, <1>3, <1>11, <1>12, AwardOf
<1>14. /\ Cardinality(paid) \in Nat /\ Cardinality(paid2) = Cardinality(paid) + 1
       /\ IsFiniteSet(paid)
  <2>1. paid \in SUBSET Pos
    BY <1>2
  <2> HIDE DEF paid
  <2> QED BY <1>11, <2>1, PosFinite, FS_AddElement
<1>15. chips \in Nat
  <2>1. Wins(pot) # {} /\ pot.amt \in Nat
    BY <1>2, <1>11 DEF Legit, PotType
  <2>2. c \in Nat /\ c # 0
    BY <1>2, <2>1, PosFinite, FS_EmptySet
  <2> HIDE DEF c
  <2> QED BY <2>1, <2>2, Shares
<1> HIDE DEF chips, paid, paid2
<1>16. /\ odd = IF Cardinality(paid) < chips THEN 1 ELSE 0
       /\ remainder' = IF Cardinality(paid2) < chips THEN chips - Cardinality(paid2) ELSE 0
  <2> DEFINE m == Cardinality(paid)
  <2>1. m \in Nat /\ Cardinality(paid2) = m + 1
    BY <1>14
  <2>2. remainder = IF m < chips THEN chips - m ELSE 0
    BY <1>3
  <2>3. remainder' = remainder - odd
    BY <1>1
  <2> HIDE DEF m, odd
  <2>4. odd = IF m < chips THEN 1 ELSE 0
    BY <1>15, <2>1, <2>2 DEF AtMost, odd
  <2>5. remainder' = IF m + 1 < chips THEN chips - (m + 1) ELSE 0
    BY <1>15, <2>1, <2>2, <2>3, <2>4
  <2> QED BY <2>1, <2>4, <2>5 DEF m
<1>17. ASSUME NEW p \in Pos
       PROVE  won'[p] = Sum(n - 1, Awards(pots, p)) + (IF p \in paid2 THEN AwardTo(pot, p) ELSE 0)
  <2>1. won \in [Pos -> Nat] /\ share \in Nat
    BY DEF TypeInv
  <2>2. CASE p = x
    <3>1. won'[x] = won[x] + share + odd /\ won[x] = Sum(n - 1, Awards(pots, x)) + 0
      BY <1>1, <1>3, <1>7, <1>11, <2>1
    <3>2. odd \in Nat /\ won[x] \in Nat /\ AwardTo(pot, x) = share + odd
      BY <1>7, <1>13, <1>16, <2>1
    <3>3. Sum(n - 1, Awards(pots, x)) \in Int
      <4>1. n - 1 \in 0 .. Len(pots)
        BY <1>1
      <4>2. Sum(n - 1, Awards(pots, x)) \in Nat
        BY <4>1, AwardSums
      <4> QED BY <4>2
    <3> QED BY <1>11, <2>1, <2>2, <3>1, <3>2, <3>3
  <2>3. CASE p # x
    <3>1. won'[p] = won[p]
      BY <1>1, <2>1, <2>3
    <3>2. p \in paid2 <=> p \in paid
      BY <1>11, <2>3
    <3> QED BY <1>3, <3>1, <3>2
  <2> QED BY <2>2, <2>3
<1>18. Paying(unpaid', share', remainder', won', n)
  <2>1. ToSet(unpaid') \subseteq Legit(pot)
    BY <1>3, <1>7
  <2>2. \A p \in paid2, q \in ToSet(unpaid') : Dist[p] < Dist[q]
    BY <1>3, <1>7, <1>10, <1>11
  <2> QED BY <1>1, <1>3, <1>7, <1>9, <1>16, <1>17, <2>1, <2>2 DEF Paying, paid2, chips
<1> QED BY <1>1, <1>18, PotPaid DEF Awarding

---------------------------------------------------------------------------------
(* The steps.                                                              *)

\* What is said about the hand is said about every state of it.
LEMMA HandStays ==
  ASSUME UNCHANGED hand
  PROVE  /\ Bet' = Bet /\ Dist' = Dist
         /\ \A lv : Untaken(lv)' = Untaken(lv)
         /\ \A p : Due(p)' = Due(p)
         /\ \A pot : Wins(pot)' = Wins(pot) /\ Legit(pot)' = Legit(pot)
         /\ \A pot, p : AwardTo(pot, p)' = AwardTo(pot, p)
         /\ \A lv, p : LayersTo(lv, p)' = LayersTo(lv, p)
<1>1. Bet' = Bet
  BY DEF Bet
<1>2. Dist' = Dist
  BY DEF Dist
<1>3. \A lv : Untaken(lv)' = Untaken(lv)
  BY <1>1 DEF Untaken
<1>4. \A p : Due(p)' = Due(p)
  BY <1>1 DEF Due
<1>5. \A pot : Wins(pot)' = Wins(pot) /\ Legit(pot)' = Legit(pot)
  BY DEF Wins, Legit
<1>6. \A pot, p : AwardTo(pot, p)' = AwardTo(pot, p)
  BY DEF AwardTo
<1>7. \A lv, p : LayersTo(lv, p)' = LayersTo(lv, p)
  BY <1>1 DEF LayersTo, LayerOf, AwardTo
<1> QED BY <1>1, <1>2, <1>3, <1>4, <1>5, <1>6, <1>7

LEMMA PotsStay ==
  ASSUME UNCHANGED <<hand, pots>>
  PROVE  \A p : Awards(pots, p)' = Awards(pots, p)
BY DEF Awards, AwardTo

LEMMA NewPot ==
  ASSUME TypeInv, UNCHANGED hand, NEW pot \in PotType, pots' = Append(pots, pot)
  PROVE  /\ pots' \in Seq(PotType) /\ Len(pots') = Len(pots) + 1
         /\ Sum(Len(pots'), Amounts(pots')) = Sum(Len(pots), Amounts(pots)) + pot.amt
         /\ \A p : Sum(Len(pots), Awards(pots, p))' = Sum(Len(pots), Awards(pots, p)) + AwardTo(pot, p)
<1> DEFINE qs == Append(pots, pot)
<1>1. /\ Len(qs) = Len(pots) + 1
      /\ Sum(Len(pots) + 1, Amounts(qs)) = Sum(Len(pots), Amounts(pots)) + pot.amt
      /\ \A p : Sum(Len(pots) + 1, Awards(qs, p)) = Sum(Len(pots), Awards(pots, p)) + AwardTo(pot, p)
  BY AppendAwards DEF TypeInv
<1>2. qs \in Seq(PotType)
  BY AppendProperties DEF TypeInv
<1> HIDE DEF qs
<1>3. ASSUME NEW p PROVE Awards(pots, p)' = Awards(qs, p)
  BY DEF Awards, AwardTo, qs
<1> QED BY <1>1, <1>2, <1>3 DEF qs

LEMMA AwardingKept ==
  ASSUME UNCHANGED <<hand, pots>>, Awarding(unpaid', share', remainder', won', current' - 1)
  PROVE  Awarding(unpaid, share, remainder, won, current - 1)'
<1>1. \A p : Awards(pots, p)' = Awards(pots, p)
  BY PotsStay
<1>2. /\ Dist' = Dist
      /\ \A pot : Wins(pot)' = Wins(pot) /\ Legit(pot)' = Legit(pot)
      /\ \A pot, p : AwardTo(pot, p)' = AwardTo(pot, p)
  BY HandStays
<1>3. CASE unpaid' = <<>>
  BY <1>1, <1>3 DEF Awarding, PaidUp
<1>4. CASE unpaid' # <<>>
  <2> DEFINE n == current' - 1
  <2>1. n > 0 /\ Paying(unpaid', share', remainder', won', n)
    BY <1>4 DEF Awarding
  <2>2. /\ Wins(pots[current - 1])' = Wins(pots[n]) /\ Legit(pots[current - 1])' = Legit(pots[n])
        /\ \A p : AwardTo(pots[current - 1], p)' = AwardTo(pots[n], p)
    BY DEF Wins, Legit, AwardTo
  <2>3. Paying(unpaid, share, remainder, won, current - 1)'
    BY <1>1, <1>2, <2>1, <2>2 DEF Paying
  <2> QED BY <1>4, <2>1, <2>3 DEF Awarding
<1> QED BY <1>3, <1>4

\* A step that changes nothing but the phase, or less.
LEMMA IdleAwards ==
  ASSUME AwardInv, UNCHANGED <<hand, pots, current, unpaid, share, remainder, won>>, phase # "build"
  PROVE  /\ current' \in 1 .. Len(pots') + 1
         /\ \A p \in Pos : (Sum(Len(pots), Awards(pots, p)) = Due(p))'
         /\ Awarding(unpaid, share, remainder, won, current - 1)'
<1>1. Awarding(unpaid', share', remainder', won', current' - 1)
  BY DEF AwardInv
<1>2. Awarding(unpaid, share, remainder, won, current - 1)'
  BY <1>1, AwardingKept
<1> QED BY <1>2, HandStays, PotsStay DEF AwardInv

IInv == TypeInv /\ BuildInv /\ AwardInv /\ PotsHoldAllBets

LEMMA InitInv == Init => IInv
<1> SUFFICES ASSUME Init PROVE IInv
  OBVIOUS
<1>1. hand \in Hands /\ rest = Bet /\ pots = <<>> /\ phase = "build" /\ current = 1
  BY DEF Init, Bet
<1>2. Bet \in [Pos -> Nat] /\ hand.listed \in SUBSET Pos
  BY <1>1, HandType DEF Bet
<1>3. TypeInv
  <2>1. won \in [Pos -> Nat] /\ unpaid \in Seq(Pos) /\ share \in Nat /\ remainder \in Nat
    BY EmptySeq DEF Init
  <2> QED BY <1>1, <1>2, <2>1, EmptySeq DEF TypeInv
<1>4. QueueInv /\ ToSet(queue) = hand.listed
  <2>1. /\ queue \in Listings(hand.listed)
        /\ \A a, b \in 1 .. Len(queue) : a < b => Bet[queue[a]] <= Bet[queue[b]]
    BY <1>1 DEF Init
  <2> QED BY <1>2, <2>1, ListsAll DEF QueueInv
<1>5. Reached(0)
  <2>1. rest = Untaken(0)
    BY <1>1, <1>2 DEF Untaken, AtMost
  <2>2. \A j \in hand.listed : IF j \in ToSet(queue) THEN Bet[j] >= 0 ELSE Bet[j] <= 0
    BY <1>2, <1>4
  <2>3. ASSUME NEW p \in Pos PROVE Sum(Len(pots), Awards(pots, p)) = Sum(N, LayersTo(0, p))
    <3>1. Sum(Len(pots), Awards(pots, p)) = 0
      BY <1>1, EmptySeq, SumZero
    <3>2. ASSUME NEW i \in 0 .. N - 1 PROVE LayersTo(0, p)[i] = 0
      <4>1. ~(OpensLayer(Bet, hand.listed, i) /\ Bet[i] <= 0)
        BY <1>2 DEF OpensLayer, Pos
      <4> QED BY <4>1 DEF LayersTo, Pos
    <3>3. Sum(N, LayersTo(0, p)) = 0
      BY <3>2, SumZeros, NAssumption
    <3> QED BY <3>1, <3>3
  <2> QED BY <2>1, <2>2, <2>3 DEF Reached
<1>6. BuildInv
  BY <1>4, <1>5 DEF Init, BuildInv
<1>7. AwardInv
  BY <1>1 DEF AwardInv
<1>8. PotsHoldAllBets
  <2>1. Sum(Len(pots), Amounts(pots)) = 0
    BY <1>1, EmptySeq, SumZero
  <2>2. Sum(N, rest) \in Int
    <3>1. \A k \in 0 .. N - 1 : rest[k] \in Int
      BY <1>1, <1>2 DEF Pos
    <3> QED BY <3>1, SumInt, NAssumption
  <2> QED BY <1>1, <2>1, <2>2 DEF PotsHoldAllBets, Bet
<1> QED BY <1>3, <1>6, <1>7, <1>8 DEF IInv

LEMMA AmountSums ==
  ASSUME TypeInv
  PROVE  Sum(Len(pots), Amounts(pots)) \in Int
<1>1. Len(pots) \in Nat /\ \A k \in 1 .. Len(pots) : pots[k] \in PotType
  BY LenProperties DEF TypeInv
<1>2. ASSUME NEW k \in 0 .. Len(pots) - 1 PROVE Amounts(pots)[k] \in Int
  <2>1. k + 1 \in 1 .. Len(pots)
    BY <1>1
  <2> QED BY <1>1, <2>1 DEF Amounts, PotType
<1> QED BY <1>1, <1>2, SumInt

\* rebuildPots skips an all-in player whose bet is taken already.
LEMMA SkipInv == IInv /\ SkipCovered => IInv'
<1> SUFFICES ASSUME IInv, SkipCovered PROVE IInv'
  OBVIOUS
<1>1. /\ phase = "build" /\ queue # <<>> /\ rest[Head(queue)] = 0 /\ queue' = Tail(queue)
      /\ UNCHANGED <<hand, rest, pots, phase, current, unpaid, share, remainder, won>>
  BY DEF SkipCovered
<1>2. TypeInv /\ QueueInv /\ hand \in Hands
  BY <1>1 DEF IInv, BuildInv, TypeInv
<1>3. /\ Head(queue) \in hand.listed /\ ToSet(queue) = {Head(queue)} \union ToSet(queue')
      /\ QueueInv'
  BY <1>1, <1>2, QueueTail
<1>4. PICK lv : Reached(lv)
  BY <1>1 DEF IInv, BuildInv
<1>5. Bet \in [Pos -> Nat] /\ hand.listed \in SUBSET Pos
  BY <1>2, HandType DEF Bet
<1>6. lv \in Nat /\ Bet[Head(queue)] <= lv
  BY <1>1, <1>3, <1>4, <1>5 DEF Reached, Untaken, AtMost
<1>7. /\ Bet' = Bet /\ Untaken(lv)' = Untaken(lv)
      /\ \A p : LayersTo(lv, p)' = LayersTo(lv, p) /\ Awards(pots, p)' = Awards(pots, p)
  BY <1>1, HandStays, PotsStay
<1>8. Reached(lv)'
  <2>1. \A j \in hand.listed : IF j \in ToSet(queue') THEN Bet[j] >= lv ELSE Bet[j] <= lv
    BY <1>3, <1>4, <1>6 DEF Reached
  <2> QED BY <1>1, <1>4, <1>7, <2>1 DEF Reached
<1>9. TypeInv' /\ PotsHoldAllBets' /\ AwardInv'
  BY <1>1 DEF IInv, TypeInv, PotsHoldAllBets, AwardInv
<1>10. BuildInv'
  BY <1>1, <1>3, <1>8 DEF IInv, BuildInv
<1> QED BY <1>9, <1>10 DEF IInv

\* rebuildPots takes a layer.
LEMMA TakeInv == IInv /\ TakeLayer => IInv'
<1> SUFFICES ASSUME IInv, TakeLayer PROVE IInv'
  OBVIOUS
<1> DEFINE x       == Head(queue)
           top     == rest[x]
           paid(i) == AtMost(rest[i], top)
           pot     == [amt      |-> Sum(N, [i \in Pos |-> paid(i)]),
                       eligible |-> {i \in hand.inHand : rest[i] >= top}]
<1>1. /\ phase = "build" /\ queue # <<>> /\ queue' = Tail(queue) /\ top > 0
      /\ pots' = Append(pots, pot) /\ rest' = [i \in Pos |-> rest[i] - paid(i)]
      /\ UNCHANGED <<hand, phase, current, unpaid, share, remainder, won>>
  BY DEF TakeLayer
<1>2. TypeInv /\ QueueInv /\ hand \in Hands
  BY <1>1 DEF IInv, BuildInv, TypeInv
<1>3. /\ x \in hand.listed /\ ToSet(queue) = {x} \union ToSet(queue') /\ QueueInv'
      /\ x \notin ToSet(queue')
      /\ \A j \in ToSet(queue) : Bet[x] <= Bet[j] \/ j = x
  BY <1>1, <1>2, QueueTail
<1>4. PICK lv : Reached(lv)
  BY <1>1 DEF IInv, BuildInv
<1>5. Bet \in [Pos -> Nat] /\ hand.listed \in SUBSET Pos
  BY <1>2, HandType DEF Bet
<1>6. /\ pot \in PotType /\ Bet[x] > lv
      /\ [i \in Pos |-> rest[i] - paid(i)] = Untaken(Bet[x])
      /\ \A p \in Pos : Sum(N, LayersTo(Bet[x], p)) = Sum(N, LayersTo(lv, p)) + AwardTo(pot, p)
  BY <1>1, <1>2, <1>4, NextLayer
<1>7. PotsHoldAllBets'
  <2> DEFINE f == [i \in Pos |-> paid(i)]
  <2>1. \A k \in 0 .. N - 1 : f[k] \in Int /\ rest'[k] \in Int /\ rest[k] = f[k] + rest'[k]
    <3>1. rest \in [Pos -> Nat] /\ x \in Pos
      BY <1>2, <1>3, <1>5 DEF TypeInv
    <3> HIDE DEF x
    <3> QED BY <1>1, <3>1 DEF Pos, AtMost
  <2>2. pot.amt = Sum(N, f)
    OBVIOUS
  <2> HIDE DEF pot, f
  <2>3. Sum(N, rest) = Sum(N, f) + Sum(N, rest')
    BY <2>1, SumAdd, NAssumption
  <2>4. Sum(Len(pots'), Amounts(pots')) = Sum(Len(pots), Amounts(pots)) + pot.amt
    BY <1>1, <1>2, <1>6, NewPot
  <2>5. Sum(N, f) \in Int /\ Sum(N, rest') \in Int
    BY <2>1, SumInt, NAssumption
  <2>6. Sum(Len(pots), Amounts(pots)) \in Int
    BY <1>2, AmountSums
  <2>7. Sum(Len(pots), Amounts(pots)) + Sum(N, rest) = Sum(N, hand.total)
    BY <1>1 DEF IInv, PotsHoldAllBets
  <2>8. Sum(Len(pots'), Amounts(pots')) + Sum(N, rest') = Sum(N, hand'.total)
    BY <1>1, <2>2, <2>3, <2>4, <2>5, <2>6, <2>7
  <2> QED BY <1>1, <2>8 DEF PotsHoldAllBets
<1> HIDE DEF paid, pot, x
<1>8. PICK y \in Nat : y = Bet[x]
  BY <1>3, <1>5
<1>9. /\ Bet' = Bet /\ Untaken(y)' = Untaken(y)
      /\ \A p : LayersTo(y, p)' = LayersTo(y, p)
  BY <1>1, HandStays
<1>10. /\ pots' \in Seq(PotType)
       /\ \A p : Sum(Len(pots), Awards(pots, p))' = Sum(Len(pots), Awards(pots, p)) + AwardTo(pot, p)
  BY <1>1, <1>2, <1>6, NewPot
<1>11. Reached(y)'
  <2>1. \A j \in hand.listed : IF j \in ToSet(queue') THEN Bet[j] >= y ELSE Bet[j] <= y
    <3> SUFFICES ASSUME NEW j \in hand.listed
                 PROVE  IF j \in ToSet(queue') THEN Bet[j] >= y ELSE Bet[j] <= y
      OBVIOUS
    <3>1. Bet[j] \in Nat /\ lv \in Nat
      BY <1>4, <1>5 DEF Reached
    <3>2. CASE j \in ToSet(queue')
      BY <1>3, <1>8, <3>1, <3>2
    <3>3. CASE j \notin ToSet(queue')
      <4>1. j = x \/ Bet[j] <= lv
        BY <1>3, <1>4, <3>3 DEF Reached
      <4> QED BY <1>6, <1>8, <3>1, <3>3, <4>1
    <3> QED BY <3>2, <3>3
  <2>2. \A p \in Pos : Sum(Len(pots), Awards(pots, p))' = Sum(N, LayersTo(y, p))
    BY <1>4, <1>6, <1>8, <1>10 DEF Reached
  <2>3. rest' = Untaken(y)
    BY <1>1, <1>6, <1>8
  <2> QED BY <1>1, <1>3, <1>8, <1>9, <2>1, <2>2, <2>3 DEF Reached
<1>12. TypeInv'
  <2>1. rest' = [i \in Pos |-> Bet[i] - AtMost(Bet[i], y)]
    BY <1>1, <1>6, <1>8 DEF Untaken
  <2>2. \A i \in Pos : Bet[i] - AtMost(Bet[i], y) \in Nat
    BY <1>5, <1>8 DEF AtMost
  <2>3. rest' \in [Pos -> Nat]
    BY <2>1, <2>2
  <2> QED BY <1>1, <1>2, <1>10, <2>3 DEF TypeInv
<1>13. BuildInv'
  BY <1>1, <1>3, <1>11 DEF IInv, BuildInv
<1>14. AwardInv'
  BY <1>1 DEF AwardInv
<1> QED BY <1>7, <1>12, <1>13, <1>14 DEF IInv

\* rebuildPots closes with the last pot.
LEMMA CloseInv == IInv /\ CloseLastPot => IInv'
<1> SUFFICES ASSUME IInv, CloseLastPot PROVE IInv'
  OBVIOUS
<1> DEFINE pot == [amt |-> Sum(N, rest), eligible |-> hand.inHand \ hand.chipless]
<1>1. /\ phase = "build" /\ queue = <<>> /\ phase' = "award"
      /\ pots' = IF pot.amt > 0 \/ pots = <<>> THEN Append(pots, pot) ELSE pots
      /\ UNCHANGED <<hand, rest, queue, current, unpaid, share, remainder, won>>
  BY DEF CloseLastPot
<1>2. TypeInv /\ current = 1 /\ unpaid = <<>> /\ won = [p \in Pos |-> 0]
  BY <1>1 DEF IInv, BuildInv
<1>3. PICK lv : Reached(lv)
  BY <1>1 DEF IInv, BuildInv
<1>4. pot \in PotType /\ \A p \in Pos : Due(p) = Sum(Len(pots), Awards(pots, p)) + AwardTo(pot, p)
  BY <1>1, <1>2, <1>3, LastLayer
<1>5. pot.amt \in Nat /\ pot.amt = Sum(N, rest)
  BY <1>4 DEF PotType
<1> HIDE DEF pot
<1>6. /\ pots' \in Seq(PotType)
      /\ Sum(Len(pots'), Amounts(pots')) = Sum(Len(pots), Amounts(pots)) + pot.amt
      /\ \A p \in Pos : Sum(Len(pots), Awards(pots, p))' = Due(p)
  <2>1. CASE pot.amt > 0 \/ pots = <<>>
    BY <1>1, <1>2, <1>4, <2>1, NewPot
  <2>2. CASE ~(pot.amt > 0 \/ pots = <<>>)
    <3>1. pots' = pots /\ pot.amt = 0
      BY <1>1, <1>5, <2>2
    <3>2. Sum(Len(pots), Amounts(pots)) \in Int
      BY <1>2, AmountSums
    <3>3. ASSUME NEW p \in Pos PROVE Sum(Len(pots), Awards(pots, p))' = Due(p)
      <4>1. AwardTo(pot, p) = 0
        BY <1>4, <3>1, AwardNat
      <4>2. Sum(Len(pots), Awards(pots, p)) \in Int
        <5>1. Len(pots) \in 0 .. Len(pots)
          BY <1>2, LenProperties DEF TypeInv
        <5>2. Sum(Len(pots), Awards(pots, p)) \in Nat
          BY <1>2, <5>1, AwardSums
        <5> QED BY <5>2
      <4> QED BY <1>1, <1>4, <3>1, <4>1, <4>2, PotsStay
    <3> QED BY <1>2, <3>1, <3>2, <3>3 DEF TypeInv
  <2> QED BY <2>1, <2>2
<1>7. TypeInv'
  BY <1>1, <1>2, <1>6 DEF TypeInv
<1>8. BuildInv'
  BY <1>1 DEF BuildInv
<1>9. PotsHoldAllBets'
  <2>1. Sum(Len(pots), Amounts(pots)) + Sum(N, rest) = Sum(N, hand.total)
    BY <1>1 DEF IInv, PotsHoldAllBets
  <2>2. Sum(N, hand.total) \in Int
    <3>1. Bet \in [Pos -> Nat]
      BY <1>2, HandType DEF TypeInv, Bet
    <3>2. \A k \in 0 .. N - 1 : Bet[k] \in Int
      BY <3>1 DEF Pos
    <3>3. Sum(N, Bet) \in Int
      BY <3>2, SumInt, NAssumption
    <3> QED BY <3>3 DEF Bet
  <2>3. Sum(Len(pots'), Amounts(pots')) = Sum(N, hand'.total)
    BY <1>1, <1>5, <1>6, <2>1
  <2> QED BY <1>1, <2>2, <2>3 DEF PotsHoldAllBets
<1>10. AwardInv'
  <2>1. Len(pots') \in Nat
    BY <1>6, LenProperties
  <2>2. Awarding(unpaid, share, remainder, won, current - 1)'
    <3>1. \A p \in Pos : won[p] = 0
      BY <1>2
    <3>2. \A p : Sum(0, Awards(pots, p))' = 0
      BY SumZero
    <3>3. current' - 1 = 0 /\ unpaid' = <<>> /\ won' = won
      BY <1>1, <1>2
    <3> QED BY <3>1, <3>2, <3>3 DEF Awarding, PaidUp
  <2>3. \A p \in Pos : (Sum(Len(pots), Awards(pots, p)) = Due(p))'
    BY <1>1, <1>6, HandStays
  <2>4. current' \in 1 .. Len(pots') + 1 /\ phase' # "done"
    BY <1>1, <1>2, <2>1
  <2> QED BY <2>2, <2>3, <2>4 DEF AwardInv
<1> QED BY <1>7, <1>8, <1>9, <1>10 DEF IInv

\* resolveShowdown opens the next pot.
LEMMA OpenInv == IInv /\ OpenPot => IInv'
<1> SUFFICES ASSUME IInv, OpenPot PROVE IInv'
  OBVIOUS
<1>1. /\ phase = "award" /\ current \in 1 .. Len(pots) /\ current' = current + 1
      /\ UNCHANGED <<hand, rest, queue, pots, phase, won>> /\ TypeInv /\ hand \in Hands
  <2>1. current >= 1 /\ Len(pots) \in Nat
    BY LenProperties DEF OpenPot, IInv, AwardInv, TypeInv
  <2> QED BY <2>1 DEF OpenPot, IInv, TypeInv
<1>2. Awarding(unpaid', share', remainder', won', current' - 1)
  BY OpenAwarding DEF IInv
<1>3. Awarding(unpaid, share, remainder, won, current - 1)'
  BY <1>1, <1>2, AwardingKept
<1>4. Len(pots) \in Nat
  BY LenProperties DEF IInv, TypeInv
<1>5. TypeInv'
  <2> DEFINE pot  == pots[current]
             best == Best(pot)
  <2>1. CASE pot.amt = 0 \/ best = {}
    <3>1. UNCHANGED <<unpaid, share, remainder>>
      BY <2>1 DEF OpenPot
    <3>2. current \in Nat /\ current' \in Nat
      BY <1>1, <1>4
    <3> QED BY <1>1, <3>1, <3>2 DEF TypeInv
  <2>2. CASE pot.amt # 0 /\ best # {}
    <3>1. /\ unpaid' = OddChipOrder(best \ hand.left)
          /\ share' = pot.amt \div Cardinality(best) /\ remainder' = pot.amt % Cardinality(best)
      BY <2>2 DEF OpenPot
    <3>2. pot \in PotType
      BY <1>1, PotTypes
    <3>3. best \in SUBSET Pos /\ pot.amt \in Nat
      BY <3>2 DEF Best, PotType
    <3>4. share' \in Nat /\ remainder' \in Nat
      <4>1. Cardinality(best) \in Nat /\ Cardinality(best) # 0
        BY <2>2, <3>3, PosFinite, FS_EmptySet
      <4> QED BY <3>1, <3>3, <4>1, Shares
    <3>5. unpaid' \in Seq(Pos)
      <4>1. best \ hand.left \in SUBSET Pos
        BY <3>3
      <4>2. OddChipOrder(best \ hand.left) \in Seq(best \ hand.left)
        BY <1>1, <4>1, OrderSorts
      <4> QED BY <3>1, <4>1, <4>2
    <3> QED BY <1>1, <1>4, <3>4, <3>5 DEF TypeInv
  <2> QED BY <2>1, <2>2
<1>6. AwardInv'
  <2>1. current' \in 1 .. Len(pots') + 1
    BY <1>1, <1>4
  <2> QED BY <1>1, <1>3, <2>1, HandStays, PotsStay DEF IInv, AwardInv
<1>7. BuildInv' /\ PotsHoldAllBets'
  BY <1>1 DEF IInv, BuildInv, PotsHoldAllBets
<1> QED BY <1>5, <1>6, <1>7 DEF IInv

\* resolveShowdown pays a winner.
LEMMA PayInv == IInv /\ PayWinner => IInv'
<1> SUFFICES ASSUME IInv, PayWinner PROVE IInv'
  OBVIOUS
<1> DEFINE odd == AtMost(remainder, 1)
<1>1. /\ phase = "award" /\ unpaid # <<>> /\ unpaid' = Tail(unpaid)
      /\ won' = [won EXCEPT ![Head(unpaid)] = @ + share + odd] /\ remainder' = remainder - odd
      /\ UNCHANGED <<hand, rest, queue, pots, phase, current, share>> /\ TypeInv
  BY DEF PayWinner, IInv
<1>2. Awarding(unpaid', share', remainder', won', current' - 1)
  BY PayAwarding DEF IInv
<1>3. Awarding(unpaid, share, remainder, won, current - 1)'
  BY <1>1, <1>2, AwardingKept
<1>4. TypeInv'
  <2>1. Head(unpaid) \in Pos /\ unpaid' \in Seq(Pos)
    BY <1>1, HeadTailProperties DEF TypeInv
  <2>2. odd \in Nat /\ remainder' \in Nat
    BY <1>1 DEF TypeInv, AtMost
  <2> HIDE DEF odd
  <2>3. won' \in [Pos -> Nat]
    BY <1>1, <2>1, <2>2 DEF TypeInv
  <2> QED BY <1>1, <2>1, <2>2, <2>3 DEF TypeInv
<1>5. AwardInv'
  BY <1>1, <1>3, HandStays, PotsStay DEF IInv, AwardInv
<1>6. BuildInv' /\ PotsHoldAllBets'
  BY <1>1 DEF IInv, BuildInv, PotsHoldAllBets
<1> QED BY <1>4, <1>5, <1>6 DEF IInv

LEMMA FinishInv == IInv /\ Finish => IInv'
<1> SUFFICES ASSUME IInv, Finish PROVE IInv'
  OBVIOUS
<1>1. /\ phase = "award" /\ unpaid = <<>> /\ current > Len(pots) /\ phase' = "done"
      /\ UNCHANGED <<hand, rest, queue, pots, current, unpaid, share, remainder, won>> /\ TypeInv
  BY DEF Finish, IInv
<1>2. current = Len(pots) + 1
  <2>1. Len(pots) \in Nat /\ current \in 1 .. Len(pots) + 1
    BY <1>1, LenProperties DEF IInv, AwardInv, TypeInv
  <2> QED BY <1>1, <2>1
<1>3. AwardInv'
  BY <1>1, <1>2, IdleAwards DEF IInv, AwardInv
<1>4. TypeInv' /\ BuildInv' /\ PotsHoldAllBets'
  BY <1>1 DEF IInv, TypeInv, BuildInv, PotsHoldAllBets
<1> QED BY <1>3, <1>4 DEF IInv

LEMMA IdleInv == IInv /\ UNCHANGED vars => IInv'
<1> SUFFICES ASSUME IInv, UNCHANGED vars PROVE IInv'
  OBVIOUS
<1>1. /\ UNCHANGED <<hand, rest, queue, pots, phase, current, unpaid, share, remainder, won>>
      /\ TypeInv
  BY DEF vars, IInv
<1>2. AwardInv'
  BY <1>1, IdleAwards DEF IInv, AwardInv
<1>3. BuildInv'
  <2>1. CASE phase = "build"
    <3>1. PICK lv : Reached(lv)
      BY <2>1 DEF IInv, BuildInv
    <3>2. /\ Bet' = Bet /\ Untaken(lv)' = Untaken(lv)
          /\ \A p : LayersTo(lv, p)' = LayersTo(lv, p) /\ Awards(pots, p)' = Awards(pots, p)
      BY <1>1, HandStays, PotsStay
    <3>3. Reached(lv)'
      BY <1>1, <3>1, <3>2 DEF Reached
    <3>4. QueueInv'
      BY <1>1, <2>1, <3>2 DEF IInv, BuildInv, QueueInv
    <3> QED BY <1>1, <3>3, <3>4 DEF IInv, BuildInv
  <2>2. CASE phase # "build"
    BY <1>1, <2>2 DEF BuildInv
  <2> QED BY <2>1, <2>2
<1>4. TypeInv' /\ PotsHoldAllBets'
  BY <1>1 DEF IInv, TypeInv, PotsHoldAllBets
<1> QED BY <1>2, <1>3, <1>4 DEF IInv

LEMMA NextInv == IInv /\ [Next]_vars => IInv'
BY SkipInv, TakeInv, CloseInv, OpenInv, PayInv, FinishInv, IdleInv DEF Next

LEMMA Inductive == Spec => []IInv
BY InitInv, NextInv, PTL DEF Spec

---------------------------------------------------------------------------------
(* The theorems.                                                           *)

\* Whatever was bet, whoever is all-in for how much: at every turn of its loop
\* rebuildPots has put the chips it took into pots, and left the rest with the players
\* (game.go:628).
THEOREM NoChipOutsideThePots == Spec => []PotsHoldAllBets
<1>1. IInv => PotsHoldAllBets
  BY DEF IInv
<1> QED BY <1>1, Inductive, PTL

\* Module Payout speaks of the same pots and awards.
LEMMA PromiseSum == \A n, f : Promise!Sum(n, f) = Sum(n, f)
BY DEF Promise!Sum, Sum

LEMMA PromisePots ==
  \A total, inHand, allIns, chipless :
    Promise!AllPots(total, inHand, allIns, chipless) = AllPots(total, inHand, allIns, chipless)
<1>1. Promise!Pos = Pos
  BY DEF Promise!Pos, Pos
<1>2. \A x, lo, hi : Promise!Slice(x, lo, hi) = Slice(x, lo, hi)
  BY DEF Promise!Slice, Slice, Promise!AtMost, AtMost
<1>3. \A n, f : Promise!Highest(n, f) = Highest(n, f)
  BY DEF Promise!Highest, Highest
<1>4. \A total, allIns, i : Promise!Floor(total, allIns, i) = Floor(total, allIns, i)
  BY <1>1, <1>3 DEF Promise!Floor, Floor
<1>5. \A total, allIns : Promise!Roof(total, allIns) = Roof(total, allIns)
  BY <1>1, <1>3 DEF Promise!Roof, Roof
<1>6. \A total, allIns, i : Promise!OpensLayer(total, allIns, i) <=> OpensLayer(total, allIns, i)
  BY DEF Promise!OpensLayer, OpensLayer
<1>7. \A total, inHand, allIns, i :
        Promise!Layer(total, inHand, allIns, i) = Layer(total, inHand, allIns, i)
  BY <1>1, <1>2, <1>4, PromiseSum DEF Promise!Layer, Layer
<1>8. \A total, inHand, allIns, chipless :
        Promise!LastPot(total, inHand, allIns, chipless) = LastPot(total, inHand, allIns, chipless)
  BY <1>1, <1>5, PromiseSum DEF Promise!LastPot, LastPot, Promise!AtMost, AtMost
<1>9. Promise!EmptyPot = EmptyPot
  BY DEF Promise!EmptyPot, EmptyPot
<1> QED BY <1>6, <1>7, <1>8, <1>9 DEF Promise!AllPots, AllPots

LEMMA PromiseAwards ==
  \A pot, score, left, dealer, n, p :
    Promise!Award(pot, score, left, dealer, n, p) = Award(pot, score, left, dealer, n, p)
<1>1. \A pot, score : Promise!Winners(pot, score) = Winners(pot, score)
  BY DEF Promise!Winners, Winners
<1>2. \A p, dealer, n : Promise!FromButton(p, dealer, n) = FromButton(p, dealer, n)
  BY DEF Promise!FromButton, FromButton
<1>3. \A S : Promise!Cardinality(S) = Cardinality(S)
  BY DEF Promise!Cardinality, Cardinality
<1> SUFFICES ASSUME NEW pot, NEW score, NEW left, NEW dealer, NEW n, NEW p
             PROVE  Promise!Award(pot, score, left, dealer, n, p) = Award(pot, score, left, dealer, n, p)
  OBVIOUS
<1> DEFINE legit  == Winners(pot, score) \ left
           before == {q \in legit : FromButton(q, dealer, n) < FromButton(p, dealer, n)}
<1>4. {q \in legit : Promise!FromButton(q, dealer, n) < Promise!FromButton(p, dealer, n)} = before
  BY <1>2
<1> QED BY <1>1, <1>3, <1>4 DEF Promise!Award, Award

\* What module Payout pays is what the closed form awards.
LEMMA PromiseDue == Promise!Due(hand) = [p \in Pos |-> Due(p)]
<1>1. Promise!HandPots(hand) = AllPots(Bet, hand.inHand, hand.listed, hand.chipless)
  BY PromisePots DEF Promise!HandPots, Bet
<1>2. \A pots_, score, left, dealer, n, p :
        Promise!Winnings(pots_, score, left, dealer, n, p) = Winnings(pots_, score, left, dealer, n, p)
  BY PromiseSum, PromiseAwards DEF Promise!Winnings, Winnings
<1>3. \A p : Promise!Winnings(Promise!HandPots(hand), hand.score, hand.left, hand.dealer, N, p) = Due(p)
  BY <1>1, <1>2 DEF Due
<1>4. Promise!Pos = Pos
  BY DEF Promise!Pos, Pos
<1> QED BY <1>3, <1>4 DEF Promise!Due

\* The last step pays what was promised.
LEMMA FinishResolves ==
  ASSUME IInv, Finish
  PROVE  Promise!Resolve
<1>1. /\ phase = "award" /\ phase' = "done" /\ unpaid = <<>> /\ current > Len(pots)
      /\ UNCHANGED <<hand, won>> /\ TypeInv
  BY DEF Finish, IInv
<1>2. current - 1 = Len(pots)
  <2>1. Len(pots) \in Nat /\ current \in 1 .. Len(pots) + 1
    BY <1>1, LenProperties DEF IInv, AwardInv, TypeInv
  <2> QED BY <1>1, <2>1
<1>3. \A p \in Pos : won[p] = Due(p)
  BY <1>1, <1>2 DEF IInv, AwardInv, Awarding, PaidUp
<1>4. won \in [Pos -> Nat]
  BY <1>1 DEF TypeInv
<1>5. won = [p \in Pos |-> Due(p)]
  BY <1>3, <1>4
<1> QED BY <1>1, <1>5, PromiseDue DEF Promise!Resolve

\* The steps before it are not seen.
LEMMA OthersHidden ==
  ASSUME Next, ~Finish
  PROVE  UNCHANGED Promise!vars
<1>1. phase # "done" /\ phase' # "done" /\ UNCHANGED hand
  BY DEF Next, SkipCovered, TakeLayer, CloseLastPot, OpenPot, PayWinner
<1> QED BY <1>1 DEF Promise!vars

\* Peeling one layer per all-in off the bets (rebuildPots, game.go:628) and paying the
\* winners of each pot one by one, odd chips clockwise from the button (resolveShowdown,
\* game.go:687), gives every player what the layers between the all-in totals give in one
\* step, for any number of seats, bets and hands.
THEOREM LoopsPayThePromise == Spec => ImplementsPayout
<1>1. Init => Promise!Init
  BY DEF Init, Promise!Init, Promise!Pos, Pos
<1>2. IInv /\ [Next]_vars => [Promise!Resolve]_Promise!vars
  <2>1. CASE UNCHANGED vars
    BY <2>1 DEF vars, Promise!vars
  <2>2. ASSUME IInv, Next PROVE Promise!Resolve \/ UNCHANGED Promise!vars
    BY <2>2, FinishResolves, OthersHidden
  <2> QED BY <2>1, <2>2
<1> QED BY <1>1, <1>2, Inductive, PTL DEF Spec, ImplementsPayout, Promise!Spec
=================================================================================
