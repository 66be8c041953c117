---------------------------- MODULE PokerGameProofs -----------------------------
(***************************************************************************)
(* Proofs about the engine, for any number of seats, blinds, buy-ins and   *)
(* hands.  In this order:                                                  *)
(*   1. every variable keeps its type, and until the pots are paid no      *)
(*      player has gained or lost a chip (TypeCorrect, NoChipLostInPlay);  *)
(*   2. a hand leaves nothing behind (NothingSurvives);                    *)
(*   3. positions follow the seats (SeatsStayInOrder);                     *)
(*   4. the pots hold what was bet, pay no more than they hold, and hold   *)
(*      for each player what the player contests;                          *)
(*   5. a running hand: whoever the table waits for can act and at the     *)
(*      right price (TurnStaysRight), street bets and totals stay in step  *)
(*      (StreetsStayInStep), paying creates no chips (PotsPayOut), and the *)
(*      best hand takes all it contests (BestHandIsPaid);                  *)
(*   6. a browser that rebuilds the pots announces what was paid           *)
(*      (WinnersAreShown), and one that compares two snapshots hears the   *)
(*      action that was taken (ActionsAreHeard).                           *)
(***************************************************************************)
EXTENDS TableView, SumTheorems

(***************************************************************************)
(* PART 1.  Types and stakes.                                              *)
(***************************************************************************)

Table == [Pos -> Player]

(***************************************************************************)
(* Positions and counting.                                                 *)
(***************************************************************************)

\* A set of positions is finite and holds at most N of them.
LEMMA PosFinite ==
  ASSUME NEW S \in SUBSET Pos
  PROVE  IsFiniteSet(S) /\ Cardinality(S) \in 0 .. N
<1>1. IsFiniteSet(Pos) /\ Cardinality(Pos) = N
  <2>1. 0 \in Int /\ N - 1 \in Int /\ ~(0 > N - 1) /\ (N - 1) - 0 + 1 = N
    BY NAssumption
  <2> QED BY <2>1, FS_Interval DEF Pos
<1>2. IsFiniteSet(S) /\ Cardinality(S) <= Cardinality(Pos)
  BY <1>1, FS_Subset
<1>3. Cardinality(S) \in Nat
  BY <1>2, FS_CardinalityType
<1> QED BY <1>1, <1>2, <1>3, NAssumption

\* The positions before i are at most i.
LEMMA RankType ==
  ASSUME NEW S \in SUBSET Pos, NEW i \in Pos
  PROVE  Rank(S, i) \in Pos
<1> DEFINE B == {j \in S : j < i}
<1>1. B \subseteq 0 .. i - 1
  <2> SUFFICES ASSUME NEW j \in S, j < i PROVE j \in 0 .. i - 1
    OBVIOUS
  <2>1. j \in Pos
    OBVIOUS
  <2> QED BY <2>1, NAssumption DEF Pos
<1>0. i \in Nat /\ i < N /\ 0 \in Int /\ i - 1 \in Int
  BY NAssumption DEF Pos
<1>2. IsFiniteSet(0 .. i - 1) /\ Cardinality(0 .. i - 1) = i
  <2>1. IsFiniteSet(0 .. i - 1) /\ Cardinality(0 .. i - 1) = IF 0 > i - 1 THEN 0 ELSE (i - 1) - 0 + 1
    BY <1>0, FS_Interval
  <2> QED BY <2>1, <1>0
<1>3. IsFiniteSet(B) /\ Cardinality(B) <= i
  BY <1>1, <1>2, FS_Subset
<1>4. Cardinality(B) \in Nat
  BY <1>3, FS_CardinalityType
<1>5. Cardinality(B) \in Pos
  <2> HIDE DEF B
  <2> QED BY <1>3, <1>4, NAssumption DEF Pos
<1> QED BY <1>5 DEF Rank

LEMMA ShiftType ==
  ASSUME NEW S \in SUBSET Pos, NEW i \in Pos
  PROVE  Shift(S, i) \in Pos
BY RankType, NAssumption DEF Shift, Pos

\* Seated players are at positions of the table.
LEMMA SeatedType == ASSUME TypeOK PROVE Seated(np) \in SUBSET Pos
<1> SUFFICES ASSUME NEW i \in Seated(np) PROVE i \in Pos
  OBVIOUS
<1>1. np \in Nat /\ np <= N /\ i \in Nat /\ i <= np - 1
  BY NAssumption DEF TypeOK, Seated
<1> QED BY <1>1, NAssumption DEF Pos

\* Going clockwise from anywhere ends at a position of S, if S has one.
LEMMA NextFromType ==
  ASSUME NEW S \in SUBSET Pos, NEW a \in 0 .. N, NEW n \in 0 .. N
  PROVE  /\ S # {} => NextFrom(a, n, S) \in S
         /\ a \in Pos => NextFrom(a, n, S) \in Pos
<1>1. CASE S = {}
  BY <1>1 DEF NextFrom
<1>2. CASE S # {}
  <2> DEFINE D == {Clockwise(a, n, j) + N : j \in S}
  <2>1. D \in SUBSET Nat /\ D # {}
    <3> SUFFICES ASSUME NEW j \in S PROVE Clockwise(a, n, j) + N \in Nat
      BY <1>2
    <3>1. j \in Pos
      OBVIOUS
    <3> QED BY <3>1, NAssumption DEF Clockwise, Pos
  <2>2. PICK m \in D : \A k \in D : m <= k
    BY <2>1, LeastElement
  <2>3. PICK i \in S : m = Clockwise(a, n, i) + N
    BY <2>2
  <2>4. ASSUME NEW j \in S PROVE Clockwise(a, n, i) <= Clockwise(a, n, j)
    <3>1. Clockwise(a, n, i) + N <= Clockwise(a, n, j) + N
      BY <2>2, <2>3
    <3>2. Clockwise(a, n, i) \in Int /\ Clockwise(a, n, j) \in Int
      BY NAssumption DEF Clockwise, Pos
    <3> QED BY <3>1, <3>2, NAssumption
  <2>5. NextFrom(a, n, S) \in S
    BY <1>2, <2>4 DEF NextFrom
  <2> QED BY <2>5
<1> QED BY <1>1, <1>2

(***************************************************************************)
(* Chips.                                                                  *)
(***************************************************************************)

\* The reading operators return what their names say.
LEMMA ReadingTypes ==
  ASSUME NEW ps \in Table
  PROVE  /\ InHand(ps) \in SUBSET Pos /\ Ready(ps) \in SUBSET Pos
         /\ Left(ps) \in SUBSET Pos /\ AllIns(ps) \in SUBSET Pos
         /\ CanAct(ps) \in SUBSET Pos /\ Waiting(ps) \in SUBSET Pos
         /\ Totals(ps) \in [Pos -> Nat]
         /\ ToCall(ps) \in Nat
<1>1. Totals(ps) \in [Pos -> Nat]
  BY DEF Totals, Table, Player
<1>2. ToCall(ps) \in Nat
  <2> DEFINE f == [i \in Pos |-> ps[i].bet]
  <2>1. \A k \in 0 .. N - 1 : f[k] \in Nat
    BY DEF Pos, Table, Player
  <2>2. Highest(N, f) \in Nat
    <3> HIDE DEF f
    <3> QED BY <2>1, HighestBounds, NAssumption
  <2> QED BY <2>2 DEF ToCall
<1> QED BY <1>1, <1>2 DEF InHand, Ready, Left, AllIns, CanAct, Waiting

\* Betting moves chips from the stack to the bet.
LEMMA PutInChipsKeeps ==
  ASSUME NEW p \in Player, NEW amt \in Nat
  PROVE  LET q == PutInChips(p, amt)
         IN  /\ q \in Player
             /\ q.stack + q.totalBet = p.stack + p.totalBet
             /\ q.in = p.in /\ q.left = p.left /\ q.ready = p.ready
<1> DEFINE paid == AtMost(amt, p.stack)
<1>1. paid \in Nat /\ p.stack - paid \in Nat
  BY DEF AtMost, Player
<1> HIDE DEF paid
<1>2. PutInChips(p, amt) = [p EXCEPT !.bet = @ + paid, !.totalBet = @ + paid, !.stack = @ - paid]
  BY DEF PutInChips, paid
<1> DEFINE q == PutInChips(p, amt)
<1>3. q \in Player
  <2>1. p.bet + paid \in Nat /\ p.totalBet + paid \in Nat /\ p.stack - paid \in Nat
    BY <1>1 DEF Player
  <2>2. q = [p EXCEPT !.bet = p.bet + paid, !.totalBet = p.totalBet + paid, !.stack = p.stack - paid]
    BY <1>2 DEF Player
  <2> HIDE DEF q
  <2> QED BY <2>1, <2>2 DEF Player
<1>4. /\ q.stack = p.stack - paid /\ q.totalBet = p.totalBet + paid
      /\ q.in = p.in /\ q.left = p.left /\ q.ready = p.ready
  BY <1>2 DEF Player
<1>5. p.stack \in Nat /\ p.totalBet \in Nat
  BY DEF Player
<1> QED BY <1>1, <1>3, <1>4, <1>5

\* ps and qs hold the same chips, player by player.
SameChips(ps, qs) ==
  \A i \in Pos : qs[i].stack + qs[i].totalBet = ps[i].stack + ps[i].totalBet

\* Nobody but a player who left stops being ready between ps and qs.
StaysReady(ps, qs) ==
  \A i \in Pos : qs[i].left = ps[i].left /\ (ps[i].left \/ qs[i].ready = ps[i].ready)

\* So does one player's bet, among the others.
LEMMA PutInKeepsTable ==
  ASSUME NEW ps, NEW qs \in Table, SameChips(ps, qs), StaysReady(ps, qs),
         NEW pn \in Pos, NEW amt \in Nat
  PROVE  LET rs == [qs EXCEPT ![pn] = PutInChips(@, amt)]
         IN  rs \in Table /\ SameChips(ps, rs) /\ StaysReady(ps, rs)
<1> DEFINE q == PutInChips(qs[pn], amt)
           rs == [qs EXCEPT ![pn] = PutInChips(@, amt)]
<1>1. /\ q \in Player /\ q.stack + q.totalBet = qs[pn].stack + qs[pn].totalBet
      /\ q.left = qs[pn].left /\ q.ready = qs[pn].ready
  BY PutInChipsKeeps DEF Table
<1>2. rs = [i \in Pos |-> IF i = pn THEN q ELSE qs[i]]
  BY DEF Table
<1> HIDE DEF q, rs
<1>3. rs \in Table
  BY <1>1, <1>2 DEF Table
<1>4. SameChips(ps, rs)
  BY <1>1, <1>2 DEF SameChips
<1>5. StaysReady(ps, rs)
  BY <1>1, <1>2 DEF StaysReady
<1> QED BY <1>3, <1>4, <1>5 DEF rs

\* The highest contribution of the others is a natural.
LEMMA SecondTotalType ==
  ASSUME NEW ps \in Table, NEW i \in Pos
  PROVE  SecondTotal(ps, i) \in Nat
<1> DEFINE f == [j \in Pos |-> IF j = i THEN 0 ELSE ps[j].totalBet]
<1>1. \A k \in 0 .. N - 1 : f[k] \in Nat
  BY DEF Pos, Table, Player
<1>2. Highest(N, f) \in Nat
  <2> HIDE DEF f
  <2> QED BY <1>1, HighestBounds, NAssumption
<1> QED BY <1>2 DEF SecondTotal

\* Giving an uncalled bet back leaves everyone with the same chips in all.
LEMMA ReturnUncalledKeeps ==
  ASSUME NEW ps \in Table
  PROVE  LET qs == ReturnUncalled(ps)
         IN  /\ qs \in Table
             /\ \A i \in Pos : /\ qs[i].stack + qs[i].totalBet = ps[i].stack + ps[i].totalBet
                               /\ qs[i].left = ps[i].left /\ qs[i].ready = ps[i].ready
<1> SUFFICES ASSUME NEW i \in Pos
             PROVE  LET q == ReturnUncalled(ps)[i]
                    IN  /\ q \in Player
                        /\ q.stack + q.totalBet = ps[i].stack + ps[i].totalBet
                        /\ q.left = ps[i].left /\ q.ready = ps[i].ready
  BY DEF Table, ReturnUncalled
<1> DEFINE amt == ps[i].totalBet - SecondTotal(ps, i)
           back == AtMost(amt, ps[i].bet)
<1>1. ps[i] \in Player /\ SecondTotal(ps, i) \in Nat
  BY SecondTotalType DEF Table
<1>2. CASE ~(ps[i].in /\ ps[i].totalBet > SecondTotal(ps, i))
  BY <1>1, <1>2 DEF ReturnUncalled
<1>3. CASE ps[i].in /\ ps[i].totalBet > SecondTotal(ps, i)
  <2>1. amt \in Nat /\ ps[i].totalBet - amt \in Nat
    BY <1>1, <1>3 DEF Player
  <2>2. back \in Nat /\ ps[i].bet - back \in Nat
    BY <1>1, <2>1 DEF Player, AtMost
  <2>3. ReturnUncalled(ps)[i] =
          [ps[i] EXCEPT !.totalBet = @ - amt, !.stack = @ + amt, !.bet = @ - back]
    BY <1>3 DEF ReturnUncalled, ReturnChips
  <2> DEFINE q == ReturnUncalled(ps)[i]
  <2> HIDE DEF amt, back
  <2>4. q \in Player
    <3>1. ps[i].stack + amt \in Nat
      BY <1>1, <2>1 DEF Player
    <3> HIDE DEF q
    <3> QED BY <1>1, <2>1, <2>2, <2>3, <3>1 DEF Player, q
  <2>5. /\ q.stack = ps[i].stack + amt /\ q.totalBet = ps[i].totalBet - amt
        /\ q.left = ps[i].left /\ q.ready = ps[i].ready
    BY <1>1, <2>3 DEF Player
  <2>6. ps[i].stack \in Nat /\ ps[i].totalBet \in Nat
    BY <1>1 DEF Player
  <2> QED BY <2>1, <2>4, <2>5, <2>6
<1> QED BY <1>2, <1>3

(***************************************************************************)
(* The pots of a showdown, and what they pay.                              *)
(***************************************************************************)

\* Every pot holds a number of chips and is contested by seated players.
PotType == [amt : Nat, eligible : SUBSET Pos]

LEMMA LayerType ==
  ASSUME NEW total \in [Pos -> Nat], NEW inHand \in SUBSET Pos,
         NEW allIns \in SUBSET Pos, NEW i \in Pos
  PROVE  Layer(total, inHand, allIns, i) \in PotType
<1> DEFINE below == [j \in Pos |-> IF j \in allIns /\ total[j] < total[i] THEN total[j] ELSE 0]
           lo == Floor(total, allIns, i)
           f == [j \in Pos |-> Slice(total[j], lo, total[i])]
<1>1. \A k \in 0 .. N - 1 : below[k] \in Nat /\ below[k] <= total[i]
  BY DEF Pos
<1>2. lo \in Nat /\ lo <= total[i]
  <2>1. /\ Highest(N, below) \in Nat
        /\ Highest(N, below) = 0 \/ \E k \in 0 .. N - 1 : Highest(N, below) = below[k]
    <3> HIDE DEF below
    <3> QED BY <1>1, HighestBounds, NAssumption
  <2>2. lo = Highest(N, below)
    BY DEF Floor
  <2> HIDE DEF below, lo
  <2> QED BY <1>1, <2>1, <2>2
<1>3. \A k \in 0 .. N - 1 : f[k] \in Nat
  <2> HIDE DEF lo
  <2> QED BY <1>2 DEF Pos, Slice, AtMost
<1>4. Sum(N, f) \in Nat
  <2> HIDE DEF f
  <2> QED BY <1>3, SumNat, NAssumption
<1> QED BY <1>4 DEF Layer, PotType

LEMMA LastPotType ==
  ASSUME NEW total \in [Pos -> Nat], NEW inHand \in SUBSET Pos,
         NEW allIns \in SUBSET Pos, NEW chipless \in SUBSET Pos
  PROVE  LastPot(total, inHand, allIns, chipless) \in PotType
<1> DEFINE tops == [j \in Pos |-> IF j \in allIns THEN total[j] ELSE 0]
           lo == Roof(total, allIns)
           f == [j \in Pos |-> total[j] - AtMost(total[j], lo)]
<1>1. \A k \in 0 .. N - 1 : tops[k] \in Nat
  BY DEF Pos
<1>2. lo \in Nat
  <2>1. Highest(N, tops) \in Nat
    <3> HIDE DEF tops
    <3> QED BY <1>1, HighestBounds, NAssumption
  <2> QED BY <2>1 DEF Roof
<1>3. \A k \in 0 .. N - 1 : f[k] \in Nat
  <2> HIDE DEF lo
  <2> QED BY <1>2 DEF Pos, AtMost
<1>4. Sum(N, f) \in Nat
  <2> HIDE DEF f
  <2> QED BY <1>3, SumNat, NAssumption
<1> QED BY <1>4 DEF LastPot, PotType

LEMMA AllPotsType ==
  ASSUME NEW total \in [Pos -> Nat], NEW inHand \in SUBSET Pos,
         NEW allIns \in SUBSET Pos, NEW chipless \in SUBSET Pos
  PROVE  AllPots(total, inHand, allIns, chipless) \in [0 .. N -> PotType]
<1> SUFFICES ASSUME NEW i \in 0 .. N
             PROVE  AllPots(total, inHand, allIns, chipless)[i] \in PotType
  BY DEF AllPots
<1>1. EmptyPot \in PotType
  BY DEF EmptyPot, PotType
<1>2. LastPot(total, inHand, allIns, chipless) \in PotType
  BY LastPotType
<1>3. i # N => i \in Pos
  BY NAssumption DEF Pos
<1>4. i # N => Layer(total, inHand, allIns, i) \in PotType
  BY <1>3, LayerType
<1> QED BY <1>1, <1>2, <1>4 DEF AllPots

\* A pot pays every player a natural number of chips.
LEMMA AwardType ==
  ASSUME NEW pot \in PotType, NEW sc, NEW left, NEW dealer, NEW n, NEW p
  PROVE  Award(pot, sc, left, dealer, n, p) \in Nat
<1> DEFINE winners == Winners(pot, sc)
<1>1. winners \in SUBSET Pos
  BY DEF Winners, PotType
<1>2. IsFiniteSet(winners) /\ Cardinality(winners) \in Nat
  BY <1>1, PosFinite, FS_CardinalityType
<1>3. CASE p \notin winners \ left
  BY <1>3 DEF Award
<1>4. CASE p \in winners \ left
  <2>1. Cardinality(winners) # 0
    BY <1>2, <1>4, FS_EmptySet
  <2>2. pot.amt \div Cardinality(winners) \in Nat
    <3> DEFINE c == Cardinality(winners)
    <3>1. c \in Nat /\ c # 0 /\ pot.amt \in Nat
      BY <1>2, <2>1 DEF PotType
    <3> HIDE DEF c
    <3>2. pot.amt \div c \in Nat
      BY <3>1
    <3> QED BY <3>2 DEF c
  <2> QED BY <1>4, <2>2 DEF Award
<1> QED BY <1>3, <1>4

\* At the showdown nobody's stack shrinks.
LEMMA PayShowdownKeeps ==
  ASSUME NEW ps \in Table, NEW allIns \in SUBSET Pos, NEW sc, NEW d, NEW n
  PROVE  LET qs == PayShowdown(ps, allIns, sc, d, n)
         IN  /\ qs \in Table
             /\ \A i \in Pos : qs[i].left = ps[i].left /\ qs[i].ready = ps[i].ready
<1> DEFINE pots == AllPots(Totals(ps), InHand(ps), allIns, AllIns(ps))
           gain(i) == Winnings(pots, sc, Left(ps), d, n, i)
<1>1. pots \in [0 .. N -> PotType]
  BY ReadingTypes, AllPotsType
<1>2. ASSUME NEW i \in Pos PROVE gain(i) \in Nat
  <2> DEFINE f == [k \in 0 .. N |-> Award(pots[k], sc, Left(ps), d, n, i)]
  <2>1. \A k \in 0 .. (N + 1) - 1 : f[k] \in Nat
    <3> HIDE DEF pots
    <3> QED BY <1>1, AwardType, NAssumption
  <2>2. Sum(N + 1, f) \in Nat
    <3> HIDE DEF f
    <3> QED BY <2>1, SumNat, NAssumption
  <2> QED BY <2>2 DEF Winnings
<1>3. PayShowdown(ps, allIns, sc, d, n) = [i \in Pos |-> [ps[i] EXCEPT !.stack = @ + gain(i)]]
  BY DEF PayShowdown
<1> HIDE DEF gain
<1>4. ASSUME NEW i \in Pos
      PROVE  LET q == [ps[i] EXCEPT !.stack = @ + gain(i)]
             IN  q \in Player /\ q.left = ps[i].left /\ q.ready = ps[i].ready
  <2>1. ps[i] \in Player /\ ps[i].stack + gain(i) \in Nat
    BY <1>2 DEF Table, Player
  <2> QED BY <2>1 DEF Player
<1> QED BY <1>3, <1>4 DEF Table

(***************************************************************************)
(* updateRoundInfo.                                                        *)
(***************************************************************************)

\* What updateRoundInfo starts from.
Moment == [action : Pos, stage : PreFlop .. Showdown, betting : BOOLEAN,
           minRaise : Nat, board : {0, 3, 4, 5}]

LEMMA FoldDepartedKeeps ==
  ASSUME NEW ps \in Table
  PROVE  /\ FoldDeparted(ps) \in Table
         /\ SameChips(ps, FoldDeparted(ps)) /\ StaysReady(ps, FoldDeparted(ps))
<1> SUFFICES ASSUME NEW i \in Pos
             PROVE  LET q == FoldDeparted(ps)[i]
                    IN  /\ q \in Player /\ q.stack = ps[i].stack /\ q.totalBet = ps[i].totalBet
                        /\ q.left = ps[i].left /\ (ps[i].left \/ q.ready = ps[i].ready)
  BY DEF FoldDeparted, Table, SameChips, StaysReady
<1>1. ps[i] \in Player
  BY DEF Table
<1> QED BY <1>1 DEF FoldDeparted, Player

LEMMA ClearStreetKeeps ==
  ASSUME NEW ps \in Table
  PROVE  /\ ClearStreet(ps) \in Table
         /\ SameChips(ps, ClearStreet(ps)) /\ StaysReady(ps, ClearStreet(ps))
<1> SUFFICES ASSUME NEW i \in Pos
             PROVE  LET q == ClearStreet(ps)[i]
                    IN  /\ q \in Player /\ q.stack = ps[i].stack /\ q.totalBet = ps[i].totalBet
                        /\ q.left = ps[i].left /\ q.ready = ps[i].ready
  BY DEF ClearStreet, Table, SameChips, StaysReady
<1>1. ps[i] \in Player
  BY DEF Table
<1> QED BY <1>1 DEF ClearStreet, Player

LEMMA SettledKeeps ==
  ASSUME NEW ps \in Table
  PROVE  Settled(ps) \in Table /\ SameChips(ps, Settled(ps)) /\ StaysReady(ps, Settled(ps))
BY ReturnUncalledKeeps DEF Settled, SameChips, StaysReady, Table

LEMMA PayLastPlayerKeeps ==
  ASSUME NEW ps \in Table
  PROVE  PayLastPlayer(ps) \in Table /\ StaysReady(ps, PayLastPlayer(ps))
<1> DEFINE pot == Sum(N, Totals(ps))
<1>1. pot \in Nat
  <2>1. \A k \in 0 .. N - 1 : Totals(ps)[k] \in Nat
    BY ReadingTypes DEF Pos
  <2> QED BY <2>1, SumNat, NAssumption
<1> SUFFICES ASSUME NEW i \in Pos
             PROVE  LET q == PayLastPlayer(ps)[i]
                    IN  q \in Player /\ q.left = ps[i].left /\ q.ready = ps[i].ready
  BY DEF PayLastPlayer, Table, StaysReady
<1> HIDE DEF pot
<1>2. ps[i] \in Player /\ ps[i].stack + pot \in Nat
  BY <1>1 DEF Table, Player
<1>3. PayLastPlayer(ps)[i] = IF ps[i].in /\ ~ps[i].left
                             THEN [ps[i] EXCEPT !.stack = ps[i].stack + pot] ELSE ps[i]
  BY DEF PayLastPlayer, pot
<1> QED BY <1>2, <1>3 DEF Player

\* However updateRoundInfo ends, everything keeps its type; a hand that goes
\* on has the chips it had; and those who stay remain ready.
UpdateResult(before, at) ==
  /\ players' \in Table
  /\ actionNum' \in Pos /\ stage' \in PreFlop .. Showdown /\ betting' \in BOOLEAN
  /\ minRaise' \in Nat /\ board' \in {0, 3, 4, 5} /\ score' \in [Pos -> Nat]
  /\ stage' # Showdown => at.stage # Showdown /\ SameChips(before, players')
  /\ StaysReady(before, players')

\* The positions the cursor can move to are on the table.
LEMMA CursorType ==
  ASSUME TypeOK, NEW a \in Pos, NEW S \in SUBSET Pos
  PROVE  /\ NextFrom(a, np, S) \in Pos
         /\ S # {} => NextFrom(After(a, np), np, S) \in S
<1>1. a \in 0 .. N /\ After(a, np) \in 0 .. N /\ np \in 0 .. N
  BY NAssumption DEF TypeOK, After, Pos
<1> QED BY <1>1, NextFromType

\* A betting round in which two or more can act has somebody to act.
LEMMA ManyNotEmpty ==
  ASSUME NEW S \in SUBSET Pos, ~(Cardinality(S) < 2)
  PROVE  S # {}
BY FS_EmptySet

LEMMA UpdateRoundInfoKeeps ==
  ASSUME TypeOK, NEW STATE before, before \in Table, NEW STATE at, at \in Moment, UpdateRoundInfo(before, at)
  PROVE  UpdateResult(before, at)
<1> DEFINE ps == FoldDeparted(before)
<1>1. ps \in Table /\ SameChips(before, ps) /\ StaysReady(before, ps)
  BY FoldDepartedKeeps
<1> HIDE DEF ps
<1>2. /\ at.action \in Pos /\ at.stage \in PreFlop .. Showdown /\ at.betting \in BOOLEAN
      /\ at.minRaise \in Nat /\ at.board \in {0, 3, 4, 5}
      /\ score \in [Pos -> Nat] /\ dealerNum \in Pos
      /\ BigBlind \in Nat /\ Scores \subseteq Nat
  BY ConfigAssumption DEF TypeOK, Moment
<1> USE DEF NotReady, PreFlop, Flop, Turn, River, Showdown
\* Chips and readiness carry over two changes of the table.
<1>3. ASSUME NEW qs \in Table, StaysReady(ps, qs) PROVE StaysReady(before, qs)
  BY <1>1, <1>3 DEF StaysReady
<1>4. ASSUME NEW qs \in Table, SameChips(ps, qs) PROVE SameChips(before, qs)
  BY <1>1, <1>4 DEF SameChips
<1>5. CASE Concede(ps, at)
  <2>1. players' \in Table /\ StaysReady(before, players')
    BY <1>1, <1>3, <1>5, PayLastPlayerKeeps DEF Concede
  <2>2. /\ stage' = Showdown /\ betting' = FALSE /\ score' = score
        /\ actionNum' = at.action /\ minRaise' = at.minRaise /\ board' = at.board
    BY <1>5 DEF Concede
  <2>3. stage' # Showdown => at.stage # Showdown /\ SameChips(before, players')
    BY <2>2
  <2>4. betting' \in BOOLEAN
    BY <2>2
  <2>5. /\ actionNum' \in Pos /\ stage' \in PreFlop .. Showdown
        /\ minRaise' \in Nat /\ board' \in {0, 3, 4, 5} /\ score' \in [Pos -> Nat]
    BY <1>2, <2>2
  <2> QED BY <2>1, <2>3, <2>4, <2>5 DEF UpdateResult
<1>6. CASE MoveAction(ps, at)
  <2>1. actionNum' \in Pos
    BY <1>1, <1>2, <1>6, ReadingTypes, CursorType DEF MoveAction
  <2> QED BY <1>1, <1>2, <1>6, <2>1 DEF MoveAction, UpdateResult
<1>7. CASE ResolveShowdown(ps, at)
  <2>1. PICK qs \in {Settled(ps)} : players' = PayShowdown(qs, AllIns(ps), score', dealerNum, np)
    BY <1>7 DEF ResolveShowdown
  <2>2. qs \in Table /\ StaysReady(before, qs) /\ AllIns(ps) \in SUBSET Pos
    BY <1>1, <1>3, <2>1, SettledKeeps, ReadingTypes
  <2>3. players' \in Table /\ StaysReady(before, players')
    BY <2>1, <2>2, PayShowdownKeeps DEF StaysReady
  <2>4. score' \in [Pos -> Nat]
    <3>1. PICK sc \in [InHand(ps) -> Scores] :
            score' = [i \in Pos |-> IF i \in InHand(ps) THEN sc[i] ELSE 0]
      BY <1>7 DEF ResolveShowdown
    <3>2. ASSUME NEW i \in InHand(ps) PROVE sc[i] \in Nat
      BY <1>2
    <3> QED BY <3>1, <3>2
  <2>5. /\ stage' = Showdown /\ betting' = FALSE
        /\ actionNum' = at.action /\ minRaise' = at.minRaise /\ board' = at.board
    BY <1>7 DEF ResolveShowdown
  <2>6. betting' \in BOOLEAN
    BY <2>5
  <2>7. /\ actionNum' \in Pos /\ stage' \in PreFlop .. Showdown
        /\ minRaise' \in Nat /\ board' \in {0, 3, 4, 5}
    BY <1>2, <2>5
  <2>8. stage' # Showdown => at.stage # Showdown /\ SameChips(before, players')
    BY <2>5
  <2> QED BY <2>3, <2>4, <2>6, <2>7, <2>8 DEF UpdateResult
<1>8. CASE RunOut(ps, at)
  <2>1. /\ players' \in Table /\ SameChips(before, players') /\ StaysReady(before, players')
    BY <1>1, <1>3, <1>4, <1>8, SettledKeeps DEF RunOut
  <2> QED BY <1>2, <1>8, <2>1 DEF RunOut, UpdateResult
<1>9. CASE DealStreet(ps, at)
  <2>1. /\ players' \in Table /\ SameChips(before, players') /\ StaysReady(before, players')
    BY <1>1, <1>3, <1>4, <1>9, ClearStreetKeeps DEF DealStreet
  <2>2. actionNum' \in Pos
    <3>1. CanAct(ps) \in SUBSET Pos /\ CanAct(ps) # {}
      BY <1>1, <1>9, ReadingTypes, ManyNotEmpty DEF DealStreet, Few
    <3> QED BY <1>2, <1>9, <3>1, CursorType DEF DealStreet
  <2>3. board' \in {0, 3, 4, 5} /\ stage' \in PreFlop .. Showdown
    BY <1>9 DEF DealStreet
  <2> QED BY <1>2, <1>9, <2>1, <2>2, <2>3 DEF DealStreet, UpdateResult
<1>10. CASE FailToDeal(ps, at)
  <2>1. /\ players' \in Table /\ StaysReady(before, players')
    BY <1>1, <1>3, <1>10, ClearStreetKeeps DEF FailToDeal
  <2> QED BY <1>2, <1>10, <2>1 DEF FailToDeal, UpdateResult
<1> QED BY <1>5, <1>6, <1>7, <1>8, <1>9, <1>10 DEF UpdateRoundInfo, ps

(***************************************************************************)
(* The inductive invariant.                                                *)
(***************************************************************************)

\* Between hands nobody is in and nothing is bet, so a new hand starts from
\* the stacks alone.
HandCleared ==
  stage = NotReady => \A i \in Pos : ~players[i].in /\ players[i].totalBet = 0

\* During a hand every seated player is ready or has left: nobody is in the
\* state in which a rebuy can be taken back.
SeatsReady ==
  Running => \A i \in Seated(np) : players[i].ready \/ players[i].left

IInv == TypeOK /\ StakesIntact /\ HandCleared /\ SeatsReady

\* The parts of IInv, once updateRoundInfo has run.
LEMMA UpdateKeepsInv ==
  ASSUME IInv, NEW STATE before, before \in Table, NEW STATE at, at \in Moment,
         UpdateRoundInfo(before, at),
         UNCHANGED <<np, dealerNum, handsPlayed, departed>>,
         dealt' \in [Pos -> Nat], button' \in Nat,
         at.stage # Showdown =>
           \A i \in Pos : before[i].stack + before[i].totalBet = dealt'[i],
         \A i \in Seated(np) : before[i].ready \/ before[i].left
  PROVE  IInv'
<1>1. UpdateResult(before, at)
  BY UpdateRoundInfoKeeps DEF IInv
<1> USE DEF NotReady, PreFlop, Flop, Turn, River, Showdown
<1>2. TypeOK'
  BY <1>1 DEF UpdateResult, IInv, TypeOK, Table
<1>3. StakesIntact'
  <2> SUFFICES ASSUME InPlay', NEW i \in Pos
               PROVE  players'[i].stack + players'[i].totalBet = dealt'[i]
    BY DEF StakesIntact
  <2>1. stage' # Showdown
    BY DEF InPlay
  <2> QED BY <1>1, <2>1 DEF UpdateResult, SameChips
<1>4. HandCleared'
  BY <1>1 DEF UpdateResult, HandCleared
<1>5. SeatsReady'
  <2> SUFFICES ASSUME NEW i \in Seated(np) PROVE players'[i].ready \/ players'[i].left
    BY DEF SeatsReady, Seated
  <2>1. i \in Pos
    BY SeatedType DEF IInv
  <2> QED BY <1>1, <2>1 DEF UpdateResult, StaysReady
<1> QED BY <1>2, <1>3, <1>4, <1>5 DEF IInv

(***************************************************************************)
(* Start and the betting actions.                                          *)
(***************************************************************************)

\* The blinds and the first to act are seated.
LEMMA BlindsType ==
  ASSUME TypeOK, Cardinality(Ready(players)) >= 2
  PROVE  SmallBlindNum \in Pos /\ BigBlindNum \in Pos /\ UnderTheGun \in Pos
<1>1. Ready(players) \in SUBSET Pos /\ Ready(players) # {}
  <2>1. Ready(players) \in SUBSET Pos
    BY DEF Ready
  <2>2. Cardinality(Ready(players)) \in Nat
    BY <2>1, PosFinite, NAssumption
  <2> QED BY <2>1, <2>2, FS_EmptySet
<1>2. ASSUME NEW a \in Pos PROVE NextFrom(After(a, np), np, Ready(players)) \in Pos
  BY <1>1, CursorType
<1>3. dealerNum \in Pos
  BY DEF TypeOK
<1>4. SmallBlindNum \in Pos
  BY <1>2, <1>3 DEF SmallBlindNum
<1>5. BigBlindNum \in Pos
  BY <1>2, <1>4 DEF BigBlindNum
<1>6. UnderTheGun \in Pos
  BY <1>2, <1>3, <1>5 DEF UnderTheGun
<1> QED BY <1>4, <1>5, <1>6

\* Dealing in only moves chips from stacks to bets.
LEMMA DealInKeeps ==
  ASSUME TypeOK, Cardinality(Ready(players)) >= 2
  PROVE  /\ DealIn \in Table
         /\ SameChips(players, DealIn) /\ StaysReady(players, DealIn)
<1> DEFINE dealtIn == [i \in Pos |-> [players[i] EXCEPT !.bet = 0, !.called = FALSE,
                                        !.in = @ \/ players[i].ready]]
           sb == SmallBlindNum
           bb == BigBlindNum
           small == [dealtIn EXCEPT ![sb] = PutInChips(@, SmallBlind)]
<1>1. sb \in Pos /\ bb \in Pos /\ SmallBlind \in Nat /\ BigBlind \in Nat
  BY BlindsType, ConfigAssumption
<1>2. dealtIn \in Table /\ SameChips(players, dealtIn) /\ StaysReady(players, dealtIn)
  <2> SUFFICES ASSUME NEW i \in Pos
               PROVE  /\ dealtIn[i] \in Player
                      /\ dealtIn[i].stack = players[i].stack
                      /\ dealtIn[i].totalBet = players[i].totalBet
                      /\ dealtIn[i].left = players[i].left
                      /\ dealtIn[i].ready = players[i].ready
    BY DEF Table, SameChips, StaysReady
  <2>1. players[i] \in Player
    BY DEF TypeOK
  <2>2. (players[i].in \/ players[i].ready) \in BOOLEAN
    OBVIOUS
  <2> QED BY <2>1, <2>2 DEF Player
<1> HIDE DEF dealtIn, sb, bb
<1>3. small \in Table /\ SameChips(players, small) /\ StaysReady(players, small)
  BY <1>1, <1>2, PutInKeepsTable
<1> HIDE DEF small
<1>4. DealIn = [small EXCEPT ![bb] = PutInChips(@, BigBlind)]
  BY DEF DealIn, small, dealtIn, sb, bb
<1> QED BY <1>1, <1>3, <1>4, PutInKeepsTable

LEMMA StartKeeps == ASSUME IInv, Start PROVE IInv'
<1> DEFINE at == [action |-> UnderTheGun, stage |-> PreFlop, betting |-> TRUE,
                  minRaise |-> BigBlind, board |-> 0]
<1>1. TypeOK /\ Cardinality(Ready(players)) >= 2 /\ stage = NotReady
  BY DEF IInv, Start
<1>2. at \in Moment
  BY <1>1, BlindsType, ConfigAssumption DEF Moment, PreFlop, Showdown
<1>3. DealIn \in Table /\ SameChips(players, DealIn) /\ StaysReady(players, DealIn)
  BY <1>1, DealInKeeps
<1>4. UpdateRoundInfo(DealIn, at) /\ UNCHANGED <<np, dealerNum, handsPlayed, departed>>
  BY DEF Start
<1>5. /\ dealt' = [i \in Pos |-> players[i].stack] /\ button' = players[dealerNum].seatID
      /\ \A i \in Pos : players[i] \in Player /\ players[i].totalBet = 0
      /\ dealerNum \in Pos
  BY DEF IInv, HandCleared, TypeOK, Start
<1>6. dealt' \in [Pos -> Nat] /\ button' \in Nat
  BY <1>5 DEF Player
<1>7. ASSUME NEW i \in Pos PROVE DealIn[i].stack + DealIn[i].totalBet = dealt'[i]
  <2>1. players[i].stack \in Nat /\ dealt'[i] = players[i].stack
    BY <1>5 DEF Player
  <2> QED BY <1>3, <1>5, <2>1 DEF SameChips
<1>8. ASSUME NEW i \in Seated(np) PROVE DealIn[i].ready \/ DealIn[i].left
  <2>1. i \in Pos /\ (players[i].left \/ players[i].ready)
    BY <1>1, SeatedType DEF Start
  <2> QED BY <1>3, <2>1 DEF StaysReady
<1> HIDE DEF at
<1> QED BY <1>2, <1>3, <1>4, <1>6, <1>7, <1>8, UpdateKeepsInv

\* What the handlers pass to updateRoundInfo has its type.
LEMMA NowType ==
  ASSUME TypeOK, Running
  PROVE  /\ Now \in Moment
         /\ \A m \in Nat : [Now EXCEPT !.minRaise = m] \in Moment
BY DEF TypeOK, Running, Now, Moment

\* An action of the hand in progress: the table it passes to updateRoundInfo
\* has the chips of the hand, and everyone seated is still ready or has left.
LEMMA InHandKeepsInv ==
  ASSUME IInv, Running, NEW STATE before, before \in Table, NEW STATE at, at \in Moment,
         at.stage = stage, UpdateRoundInfo(before, at),
         UNCHANGED <<np, dealerNum, handsPlayed, departed, dealt, button>>,
         SameChips(players, before),
         \A i \in Seated(np) : before[i].ready \/ before[i].left
  PROVE  IInv'
<1>1. dealt' \in [Pos -> Nat] /\ button' \in Nat
  BY DEF IInv, TypeOK
<1>2. ASSUME at.stage # Showdown, NEW i \in Pos
      PROVE  before[i].stack + before[i].totalBet = dealt'[i]
  <2>1. InPlay
    BY <1>2 DEF InPlay, Running, PreFlop, River, Showdown
  <2> QED BY <2>1 DEF IInv, StakesIntact, SameChips
<1> QED BY <1>1, <1>2, UpdateKeepsInv

\* A bet keeps what InHandKeepsInv asks for.
LEMMA WagerKeeps ==
  ASSUME IInv, Running, NEW ps, ps \in Table, SameChips(players, ps), StaysReady(players, ps),
         NEW pn \in Pos, NEW amt \in Nat
  PROVE  LET qs == Wager(ps, pn, amt)
         IN  /\ qs \in Table /\ SameChips(players, qs)
             /\ \A i \in Seated(np) : qs[i].ready \/ qs[i].left
<1> DEFINE q == PutInChips(ps[pn], amt)
           c == [q EXCEPT !.called = TRUE]
           qs == Wager(ps, pn, amt)
<1>1. /\ q \in Player /\ q.stack + q.totalBet = ps[pn].stack + ps[pn].totalBet
      /\ q.left = ps[pn].left /\ q.ready = ps[pn].ready
  BY PutInChipsKeeps DEF Table
<1>2. qs = [i \in Pos |-> IF i = pn THEN c ELSE ps[i]]
  BY DEF Table, Wager
<1> HIDE DEF q
<1>3. /\ c \in Player /\ c.stack = q.stack /\ c.totalBet = q.totalBet
      /\ c.left = q.left /\ c.ready = q.ready
  BY <1>1 DEF Player
<1> HIDE DEF c, qs
<1>4. qs \in Table
  BY <1>2, <1>3 DEF Table
<1>5. SameChips(players, qs)
  BY <1>1, <1>2, <1>3 DEF SameChips
<1>6. ASSUME NEW i \in Seated(np) PROVE qs[i].ready \/ qs[i].left
  <2>1. i \in Pos /\ (players[i].ready \/ players[i].left)
    BY SeatedType DEF IInv, SeatsReady
  <2> QED BY <1>1, <1>2, <1>3, <2>1 DEF StaysReady
<1> QED BY <1>4, <1>5, <1>6 DEF qs

\* Whoever is on turn is in a running hand, and owes an integer.
LEMMA OnTurnRunning ==
  ASSUME IInv, NEW pn \in Pos, players[pn].in
  PROVE  Running
BY DEF IInv, TypeOK, HandCleared, Running, NotReady, PreFlop, Showdown

LEMMA OwedType ==
  ASSUME TypeOK, NEW pn \in Pos
  PROVE  Owed(pn) \in Int
<1>1. ToCall(players) \in Nat /\ players[pn].bet \in Nat
  BY ReadingTypes DEF TypeOK, Table, Player
<1> QED BY <1>1 DEF Owed

\* Everyone keeps chips and readiness while nothing happens.
LEMMA SamePlayers ==
  ASSUME TypeOK
  PROVE  players \in Table /\ SameChips(players, players) /\ StaysReady(players, players)
BY DEF TypeOK, Table, SameChips, StaysReady

LEMMA CallKeeps ==
  ASSUME IInv, NEW pn \in Seated(np), NEW amt \in Nat, Call(pn, amt) PROVE IInv'
<1>1. TypeOK /\ pn \in Pos /\ Running
  BY SeatedType, OnTurnRunning DEF IInv, Call, OnTurn
<1>2. /\ Wager(players, pn, amt) \in Table /\ SameChips(players, Wager(players, pn, amt))
      /\ \A i \in Seated(np) : Wager(players, pn, amt)[i].ready \/ Wager(players, pn, amt)[i].left
  BY <1>1, SamePlayers, WagerKeeps
<1>3. Now \in Moment /\ Now.stage = stage
  BY <1>1, NowType DEF Now
<1> QED BY <1>1, <1>2, <1>3, InHandKeepsInv DEF Call

LEMMA ShortRaiseKeeps ==
  ASSUME IInv, NEW pn \in Seated(np), NEW amt \in Nat, ShortRaise(pn, amt) PROVE IInv'
<1>1. TypeOK /\ pn \in Pos /\ Running
  BY SeatedType, OnTurnRunning DEF IInv, ShortRaise, OnTurn
<1>2. /\ Wager(players, pn, amt) \in Table /\ SameChips(players, Wager(players, pn, amt))
      /\ \A i \in Seated(np) : Wager(players, pn, amt)[i].ready \/ Wager(players, pn, amt)[i].left
  BY <1>1, SamePlayers, WagerKeeps
<1>3. Now \in Moment /\ Now.stage = stage
  BY <1>1, NowType DEF Now
<1> QED BY <1>1, <1>2, <1>3, InHandKeepsInv DEF ShortRaise

LEMMA RaiseKeeps ==
  ASSUME IInv, NEW pn \in Seated(np), NEW amt \in Nat, Raise(pn, amt) PROVE IInv'
<1> DEFINE reopened == [i \in Pos |-> [players[i] EXCEPT !.called = FALSE]]
           at == [Now EXCEPT !.minRaise = amt - Owed(pn)]
           ps == Wager(reopened, pn, amt)
<1>1. TypeOK /\ pn \in Pos /\ Running
  BY SeatedType, OnTurnRunning DEF IInv, Raise, OnTurn
<1>2. reopened \in Table /\ SameChips(players, reopened) /\ StaysReady(players, reopened)
  <2> SUFFICES ASSUME NEW i \in Pos
               PROVE  LET q == reopened[i]
                      IN  /\ q \in Player /\ q.stack = players[i].stack
                          /\ q.totalBet = players[i].totalBet
                          /\ q.left = players[i].left /\ q.ready = players[i].ready
    BY DEF Table, SameChips, StaysReady
  <2>1. players[i] \in Player
    BY <1>1 DEF TypeOK
  <2> QED BY <2>1 DEF Player
<1>3. UpdateRoundInfo(ps, at)
  BY DEF Raise
<1> HIDE DEF reopened
<1>4. /\ ps \in Table /\ SameChips(players, ps)
      /\ \A i \in Seated(np) : ps[i].ready \/ ps[i].left
  BY <1>1, <1>2, WagerKeeps
<1>5. at \in Moment /\ at.stage = stage
  <2>1. amt - Owed(pn) \in Nat
    <3>1. Owed(pn) \in Int /\ minRaise \in Nat /\ amt - Owed(pn) >= minRaise
      BY <1>1, OwedType DEF TypeOK, Raise
    <3> QED BY <3>1
  <2>2. at \in Moment
    BY <1>1, <2>1, NowType
  <2> QED BY <2>2 DEF Now
<1>6. UNCHANGED <<np, dealerNum, handsPlayed, departed, dealt, button>>
  BY DEF Raise
<1> HIDE DEF at, ps
<1> QED BY <1>1, <1>3, <1>4, <1>5, <1>6, InHandKeepsInv

\* A player going out of the hand keeps the chips.
LEMMA StepOut ==
  ASSUME IInv, Running, NEW pn \in Pos, NEW qs, qs \in Table,
         \A i \in Pos : /\ qs[i].stack = players[i].stack /\ qs[i].totalBet = players[i].totalBet
                        /\ i # pn => qs[i].left = players[i].left /\ qs[i].ready = players[i].ready,
         qs[pn].left \/ qs[pn].ready
  PROVE  /\ SameChips(players, qs)
         /\ \A i \in Seated(np) : qs[i].ready \/ qs[i].left
<1>1. ASSUME NEW i \in Seated(np) PROVE qs[i].ready \/ qs[i].left
  <2>1. i \in Pos /\ (players[i].ready \/ players[i].left)
    BY SeatedType DEF IInv, SeatsReady
  <2> QED BY <2>1
<1> QED BY <1>1 DEF SameChips

LEMMA FoldKeeps ==
  ASSUME IInv, NEW pn \in Seated(np), Fold(pn) PROVE IInv'
<1> DEFINE qs == [players EXCEPT ![pn].in = FALSE, ![pn].ready = TRUE]
<1>1. TypeOK /\ pn \in Pos /\ Running
  BY SeatedType, OnTurnRunning DEF IInv, Fold, OnTurn
<1>2. /\ qs \in Table
      /\ \A i \in Pos : /\ qs[i].stack = players[i].stack /\ qs[i].totalBet = players[i].totalBet
                        /\ i # pn => qs[i].left = players[i].left /\ qs[i].ready = players[i].ready
      /\ qs[pn].ready
  BY <1>1 DEF TypeOK, Table, Player
<1>3. UpdateRoundInfo(qs, Now) /\ UNCHANGED <<np, dealerNum, handsPlayed, departed, dealt, button>>
  BY DEF Fold
<1> HIDE DEF qs
<1>4. SameChips(players, qs) /\ \A i \in Seated(np) : qs[i].ready \/ qs[i].left
  BY <1>1, <1>2, StepOut
<1>5. Now \in Moment /\ Now.stage = stage
  BY <1>1, NowType DEF Now
<1> QED BY <1>1, <1>2, <1>3, <1>4, <1>5, InHandKeepsInv

(***************************************************************************)
(* Leaving, the runout and rebuys.                                         *)
(***************************************************************************)

\* Passing the button on leaves it at a position of the table.
LEMMA PassButtonType ==
  ASSUME TypeOK, NEW ps, NEW pn
  PROVE  PassButton(ps, pn) \in Pos
<1>1. dealerNum \in Pos /\ Ready(ps) \in SUBSET Pos
  BY DEF TypeOK, Ready
<1> QED BY <1>1, CursorType DEF PassButton

\* A step of a running hand that is not followed by updateRoundInfo.
LEMMA QuietKeepsInv ==
  ASSUME IInv, Running, players' \in Table, SameChips(players, players'),
         \A i \in Seated(np) : players'[i].ready \/ players'[i].left,
         UNCHANGED <<street, np, score, handsPlayed, departed, dealt, button>>,
         dealerNum' \in Pos
  PROVE  IInv'
<1>1. /\ stage' = stage /\ np' = np /\ dealt' = dealt
      /\ actionNum' = actionNum /\ betting' = betting /\ board' = board /\ minRaise' = minRaise
      /\ score' = score /\ handsPlayed' = handsPlayed /\ departed' = departed /\ button' = button
  BY DEF street
<1>2. TypeOK'
  BY <1>1 DEF IInv, TypeOK, Table
<1>3. StakesIntact'
  BY <1>1 DEF IInv, StakesIntact, SameChips, InPlay
<1>4. HandCleared'
  BY <1>1 DEF HandCleared, Running, NotReady, PreFlop, Showdown
<1>5. SeatsReady'
  BY <1>1 DEF SeatsReady, Seated
<1> QED BY <1>2, <1>3, <1>4, <1>5 DEF IInv

LEMMA LeaveHandKeeps ==
  ASSUME IInv, NEW pn \in Seated(np), LeaveHand(pn) PROVE IInv'
<1> DEFINE p     == players[pn]
           folds == p.in /\ ~AllIn(p) /\ pn = actionNum
           gone  == [players EXCEPT ![pn].left = TRUE]
           out   == [gone EXCEPT ![pn].in = FALSE, ![pn].ready = FALSE]
           Kept(qs) == /\ qs \in Table
                       /\ SameChips(players, qs)
                       /\ \A i \in Seated(np) : qs[i].ready \/ qs[i].left
<1>1. TypeOK /\ pn \in Pos /\ Running
  BY SeatedType DEF IInv, LeaveHand
<1>2. /\ gone \in Table
      /\ \A i \in Pos : /\ gone[i].stack = players[i].stack /\ gone[i].totalBet = players[i].totalBet
                        /\ i # pn => gone[i].left = players[i].left /\ gone[i].ready = players[i].ready
      /\ gone[pn].left
  BY <1>1 DEF TypeOK, Table, Player
<1> HIDE DEF gone
<1>3. /\ out \in Table
      /\ \A i \in Pos : /\ out[i].stack = players[i].stack /\ out[i].totalBet = players[i].totalBet
                        /\ i # pn => out[i].left = players[i].left /\ out[i].ready = players[i].ready
      /\ out[pn].left
  <2> DEFINE q == [gone[pn] EXCEPT !.in = FALSE, !.ready = FALSE]
  <2>1. /\ q \in Player /\ q.stack = gone[pn].stack /\ q.totalBet = gone[pn].totalBet
        /\ q.left = gone[pn].left
    BY <1>1, <1>2 DEF Table, Player
  <2>2. out = [i \in Pos |-> IF i = pn THEN q ELSE gone[i]]
    BY <1>1, <1>2 DEF Table, Player
  <2> HIDE DEF q, out
  <2> QED BY <1>1, <1>2, <2>1, <2>2 DEF Table
<1> HIDE DEF out
<1>0. Kept(gone) /\ Kept(out)
  BY <1>1, <1>2, <1>3, StepOut
<1> HIDE DEF Kept
<1>4. /\ \/ folds /\ UpdateRoundInfo(out, Now) /\ UNCHANGED dealerNum
         \/ ~folds /\ p.in /\ players' = gone /\ UNCHANGED <<street, score, dealerNum>>
         \/ /\ ~p.in /\ players' = out
            /\ dealerNum' = IF p.ready THEN PassButton(out, pn) ELSE dealerNum
            /\ UNCHANGED <<street, score>>
      /\ UNCHANGED <<np, handsPlayed, departed, dealt, button>>
  BY DEF LeaveHand, gone, out
<1>5. Now \in Moment /\ Now.stage = stage
  BY <1>1, NowType DEF Now
<1>6. dealerNum \in Pos /\ PassButton(out, pn) \in Pos
  BY <1>1, PassButtonType DEF TypeOK
<1> HIDE DEF folds, p
<1>7. CASE folds /\ UpdateRoundInfo(out, Now) /\ UNCHANGED dealerNum
  BY <1>0, <1>1, <1>4, <1>5, <1>7, InHandKeepsInv DEF Kept
<1>8. CASE players' = gone /\ UNCHANGED <<street, score, dealerNum>>
  BY <1>0, <1>1, <1>4, <1>6, <1>8, QuietKeepsInv DEF Kept
<1>9. CASE /\ players' = out
           /\ dealerNum' = IF p.ready THEN PassButton(out, pn) ELSE dealerNum
           /\ UNCHANGED <<street, score>>
  <2>1. dealerNum' \in Pos
    BY <1>6, <1>9
  <2> QED BY <1>0, <1>1, <1>4, <1>9, <2>1, QuietKeepsInv DEF Kept
<1> QED BY <1>4, <1>7, <1>8, <1>9

LEMMA RunoutNextKeeps == ASSUME IInv, RunoutNext PROVE IInv'
<1> USE DEF NotReady, PreFlop, Flop, Turn, River, Showdown
<1>1. TypeOK /\ Running /\ InPlay
  BY DEF IInv, RunoutNext, InPlay, Running
<1>2. UNCHANGED <<np, dealerNum, handsPlayed, departed, dealt, button>>
  BY DEF RunoutNext
<1>3. CASE UpdateRoundInfo(players, Now)
  <2>1. Now \in Moment /\ Now.stage = stage
    BY <1>1, NowType DEF Now
  <2>2. players \in Table /\ SameChips(players, players)
    BY <1>1, SamePlayers
  <2>3. \A i \in Seated(np) : players[i].ready \/ players[i].left
    BY <1>1 DEF IInv, SeatsReady
  <2> QED BY <1>1, <1>2, <1>3, <2>1, <2>2, <2>3, InHandKeepsInv
<1>4. CASE /\ board < 5
           /\ board' = IF board = 0 THEN 3 ELSE board + 1
           /\ stage' = (CASE board = 0 -> Flop [] board = 3 -> Turn [] board = 4 -> River)
           /\ betting' = FALSE
           /\ UNCHANGED <<players, actionNum, minRaise, score>>
  <2>1. board' \in {0, 3, 4, 5} /\ stage' \in Flop .. River
    BY <1>1, <1>4 DEF TypeOK
  <2>2. TypeOK'
    <3>1. betting' \in BOOLEAN
      BY <1>4
    <3>2. stage' \in NotReady .. Showdown
      BY <2>1
    <3> QED BY <1>1, <1>2, <1>4, <2>1, <3>1, <3>2 DEF TypeOK
  <2>3. StakesIntact'
    BY <1>1, <1>2, <1>4 DEF IInv, StakesIntact, InPlay
  <2>4. HandCleared'
    BY <2>1 DEF HandCleared
  <2>5. SeatsReady'
    BY <1>1, <1>2, <1>4 DEF IInv, SeatsReady, Seated
  <2> QED BY <2>2, <2>3, <2>4, <2>5 DEF IInv
<1> QED BY <1>3, <1>4 DEF RunoutNext

\* A rebuy adds the same chips to the stack and to what the hand started
\* from, or waits until the hand is over.
LEMMA RebuyKeeps ==
  ASSUME IInv, NEW pn \in Seated(np), NEW amt \in Nat, Rebuy(pn, amt) PROVE IInv'
<1> DEFINE later == [players EXCEPT ![pn].pendingBuyIn = @ + amt, ![pn].totalBuyIn = @ + amt]
           now   == [players EXCEPT ![pn].stack = @ + amt, ![pn].totalBuyIn = @ + amt]
           more  == [dealt EXCEPT ![pn] = @ + amt]
           Rest(qs) == \A i \in Pos : /\ qs[i].in = players[i].in
                                      /\ qs[i].totalBet = players[i].totalBet
                                      /\ qs[i].left = players[i].left
                                      /\ qs[i].ready = players[i].ready
<1>1. TypeOK /\ pn \in Pos /\ players \in Table /\ dealt \in [Pos -> Nat] /\ players[pn] \in Player
  BY SeatedType DEF IInv, TypeOK, Table
<1>2. /\ \/ players' = later /\ dealt' = dealt
         \/ players' = now /\ dealt' = IF Running THEN more ELSE dealt
      /\ UNCHANGED <<np, dealerNum, street, handsPlayed, departed, score, button>>
  BY DEF Rebuy
<1>3. later \in Table /\ Rest(later) /\ \A i \in Pos : later[i].stack = players[i].stack
  <2>1. players[pn].pendingBuyIn + amt \in Nat /\ players[pn].totalBuyIn + amt \in Nat
    BY <1>1 DEF Player
  <2> QED BY <1>1, <2>1 DEF Table, Player
<1>4. /\ now \in Table /\ Rest(now)
      /\ \A i \in Pos : now[i].stack = IF i = pn THEN players[i].stack + amt ELSE players[i].stack
  <2>1. players[pn].stack + amt \in Nat /\ players[pn].totalBuyIn + amt \in Nat
    BY <1>1 DEF Player
  <2> QED BY <1>1, <2>1 DEF Table, Player
<1>5. /\ more \in [Pos -> Nat]
      /\ \A i \in Pos : more[i] = IF i = pn THEN dealt[i] + amt ELSE dealt[i]
  BY <1>1
<1> HIDE DEF later, now, more
<1>6. players' \in Table /\ Rest(players') /\ dealt' \in [Pos -> Nat]
  BY <1>1, <1>2, <1>3, <1>4, <1>5
<1>7. /\ stage' = stage /\ np' = np /\ dealerNum' = dealerNum
      /\ actionNum' = actionNum /\ betting' = betting /\ board' = board /\ minRaise' = minRaise
      /\ score' = score /\ handsPlayed' = handsPlayed /\ departed' = departed /\ button' = button
  BY <1>2 DEF street
<1>8. TypeOK'
  BY <1>1, <1>6, <1>7 DEF TypeOK, Table
<1>9. StakesIntact'
  <2> SUFFICES ASSUME InPlay, NEW i \in Pos
               PROVE  players'[i].stack + players'[i].totalBet = dealt'[i]
    BY <1>7 DEF StakesIntact, InPlay
  <2>1. Running
    BY DEF InPlay, Running, PreFlop, River, Showdown
  <2>2. /\ players[i].stack + players[i].totalBet = dealt[i]
        /\ players[i].stack \in Nat /\ players[i].totalBet \in Nat /\ dealt[i] \in Nat
    BY <1>1 DEF IInv, StakesIntact, Table, Player
  <2>3. CASE players' = later /\ dealt' = dealt
    BY <1>3, <2>2, <2>3
  <2>4. CASE players' = now /\ dealt' = more
    BY <1>4, <1>5, <2>2, <2>4
  <2> QED BY <1>2, <2>1, <2>3, <2>4
<1>10. HandCleared'
  BY <1>6, <1>7 DEF IInv, HandCleared
<1>11. SeatsReady'
  <2>1. Seated(np) \in SUBSET Pos
    BY <1>1, SeatedType
  <2> QED BY <1>6, <1>7, <2>1 DEF IInv, SeatsReady, Running, Seated
<1> QED BY <1>8, <1>9, <1>10, <1>11 DEF IInv

(***************************************************************************)
(* Between hands.                                                          *)
(***************************************************************************)

\* Between hands the invariant asks for types and for cleared players.
Cleared(ps) == ps \in Table /\ \A i \in Pos : ~ps[i].in /\ ps[i].totalBet = 0

LEMMA RestKeepsInv ==
  ASSUME stage' = NotReady, TypeOK', Cleared(players')
  PROVE  IInv'
BY DEF IInv, StakesIntact, HandCleared, SeatsReady, InPlay, Running, Cleared,
       NotReady, PreFlop, River, Showdown

LEMMA VacantType == Vacant \in Player /\ ~Vacant.in /\ Vacant.totalBet = 0
BY DEF Vacant, Player

\* A buy-in is taken back only between hands: during one, nobody seated is
\* unready unless they left.
LEMMA UndoRebuyKeeps ==
  ASSUME IInv, NEW pn \in Seated(np), UndoRebuy(pn) PROVE IInv'
<1> DEFINE s == players[pn].stack - BuyIn
           b == players[pn].totalBuyIn - AtMost(BuyIn, players[pn].totalBuyIn)
<1>1. TypeOK /\ pn \in Pos /\ players \in Table /\ players[pn] \in Player
  BY SeatedType DEF IInv, TypeOK, Table
<1>2. stage = NotReady /\ Cleared(players)
  <2>1. ~Running
    BY DEF IInv, SeatsReady, UndoRebuy
  <2>2. stage = NotReady
    BY <1>1, <2>1 DEF TypeOK, Running, NotReady, PreFlop, Showdown
  <2> QED BY <1>1, <2>2 DEF IInv, HandCleared, Cleared
<1>3. s \in Nat /\ b \in Nat
  <2>1. players[pn].stack \in Nat /\ players[pn].totalBuyIn \in Nat /\ BuyIn \in Nat
        /\ players[pn].stack >= BuyIn
    BY <1>1, ConfigAssumption DEF Player, UndoRebuy
  <2> QED BY <2>1 DEF AtMost
<1>4. players' = [players EXCEPT ![pn].stack = s, ![pn].totalBuyIn = b]
  BY <1>1 DEF UndoRebuy, Table
<1>5. UNCHANGED <<np, dealerNum, street, handsPlayed, departed, score, dealt, button>>
  BY DEF UndoRebuy
<1> HIDE DEF s, b
<1>6. Cleared(players')
  BY <1>1, <1>2, <1>3, <1>4 DEF Cleared, Table, Player
<1>7. TypeOK'
  BY <1>1, <1>5, <1>6 DEF TypeOK, Cleared, Table, street
<1> QED BY <1>2, <1>5, <1>6, <1>7, RestKeepsInv DEF street

LEMMA CompactCleared ==
  ASSUME NEW ps \in Table, NEW keep \in SUBSET Pos
  PROVE  /\ Compact(ps, keep) \in Table
         /\ Cleared(ps) => Cleared(Compact(ps, keep))
<1> DEFINE qs == Compact(ps, keep)
<1>1. ASSUME NEW k \in Pos PROVE qs[k] = Vacant \/ \E i \in Pos : qs[k] = ps[i]
  <2>1. CASE \E i \in keep : Rank(keep, i) = k
    <3> DEFINE i == CHOOSE i \in keep : Rank(keep, i) = k
    <3>1. i \in keep
      BY <2>1
    <3>2. qs[k] = ps[i]
      BY <2>1 DEF Compact
    <3> QED BY <3>1, <3>2
  <2>2. CASE ~\E i \in keep : Rank(keep, i) = k
    BY <2>2 DEF Compact
  <2> QED BY <2>1, <2>2
<1>2. DOMAIN qs = Pos /\ qs = [k \in Pos |-> qs[k]]
  BY DEF Compact
<1> HIDE DEF qs
<1>3. qs \in Table
  BY <1>1, <1>2, VacantType DEF Table
<1>4. Cleared(ps) => Cleared(qs)
  BY <1>1, <1>3, VacantType DEF Cleared
<1> QED BY <1>3, <1>4 DEF qs

LEMMA BySeatCleared ==
  ASSUME Cleared(players), NEW ps, Cleared(ps), NEW n \in 0 .. N
  PROVE  Cleared(BySeat(ps, n))
<1> DEFINE qs == BySeat(ps, n)
<1>0. Seated(n) \in SUBSET Pos
  <2> SUFFICES ASSUME NEW i \in Seated(n) PROVE i \in Pos
    OBVIOUS
  <2>1. n \in Nat /\ n <= N /\ i \in Nat /\ i <= n - 1
    BY NAssumption DEF Seated
  <2> QED BY <2>1, NAssumption DEF Pos
<1>1. ASSUME NEW k \in Pos PROVE qs[k] = Vacant \/ \E i \in Pos : qs[k] = ps[i]
  <2>1. CASE \E i \in Seated(n) : SeatRank(ps, n, i) = k
    <3> DEFINE i == CHOOSE i \in Seated(n) : SeatRank(ps, n, i) = k
    <3>1. i \in Seated(n)
      BY <2>1
    <3>2. qs[k] = ps[i]
      BY <2>1 DEF BySeat
    <3> HIDE DEF i
    <3> QED BY <1>0, <3>1, <3>2
  <2>2. CASE ~\E i \in Seated(n) : SeatRank(ps, n, i) = k
    BY <2>2 DEF BySeat
  <2> QED BY <2>1, <2>2
<1>2. DOMAIN qs = Pos /\ qs = [k \in Pos |-> qs[k]]
  BY DEF BySeat
<1> HIDE DEF qs
<1>3. qs \in Table
  BY <1>1, <1>2, VacantType DEF Cleared, Table
<1>4. Cleared(qs)
  BY <1>1, <1>3, VacantType DEF Cleared
<1> QED BY <1>4 DEF qs

\* A player between hands has nothing in the hand.
LEMMA AtRestCleared ==
  ASSUME IInv, AtRest
  PROVE  TypeOK /\ Cleared(players) /\ Seated(np) \in SUBSET Pos
BY SeatedType DEF IInv, HandCleared, AtRest, Cleared, TypeOK, Table

\* A step at rest that changes nothing but seats.
LEMMA SeatingKeepsInv ==
  ASSUME IInv, AtRest, Cleared(players'), np' \in 0 .. N, dealerNum' \in Pos, button' \in Nat,
         UNCHANGED <<street, handsPlayed, departed, score, dealt>>
  PROVE  IInv'
<1>1. TypeOK'
  BY DEF IInv, TypeOK, Cleared, Table, street
<1> QED BY <1>1, RestKeepsInv DEF AtRest, street

LEMMA SeatPlayerKeeps ==
  ASSUME IInv, NEW s \in Nat, NEW ready \in BOOLEAN, SeatPlayer(s, ready) PROVE IInv'
<1> DEFINE p == [Vacant EXCEPT !.seatID = s, !.ready = ready,
                               !.stack = BuyIn, !.totalBuyIn = BuyIn]
           ps == [players EXCEPT ![np] = p]
<1>1. AtRest /\ Cleared(players) /\ np \in Pos /\ np + 1 \in 0 .. N /\ dealerNum \in Pos /\ button \in Nat
  <2>1. AtRest /\ Cleared(players) /\ dealerNum \in Pos /\ button \in Nat
    BY AtRestCleared DEF TypeOK, SeatPlayer
  <2>2. np \in 0 .. N /\ np < N
    BY DEF IInv, TypeOK, SeatPlayer
  <2> QED BY <2>1, <2>2, NAssumption DEF Pos
<1>2. p \in Player /\ ~p.in /\ p.totalBet = 0
  BY ConfigAssumption DEF Vacant, Player
<1>3. players' = BySeat(ps, np + 1)
  BY DEF SeatPlayer
<1> HIDE DEF p
<1>4. Cleared(ps)
  BY <1>1, <1>2 DEF Cleared, Table
<1> HIDE DEF ps
<1>5. Cleared(players')
  BY <1>1, <1>3, <1>4, BySeatCleared
<1> QED BY <1>1, <1>5, SeatingKeepsInv DEF SeatPlayer

LEMMA MoveSeatKeeps ==
  ASSUME IInv, NEW pn \in Seated(np), NEW s \in Nat, MoveSeat(pn, s) PROVE IInv'
<1> DEFINE ps == [players EXCEPT ![pn].seatID = s]
<1>1. /\ AtRest /\ Cleared(players) /\ pn \in Pos /\ np \in 0 .. N
      /\ dealerNum \in Pos /\ button \in Nat
  BY AtRestCleared DEF TypeOK, MoveSeat
<1>2. Cleared(ps)
  BY <1>1 DEF Cleared, Table, Player
<1>3. players' = BySeat(ps, np)
  BY DEF MoveSeat
<1> HIDE DEF ps
<1>4. Cleared(players')
  BY <1>1, <1>2, <1>3, BySeatCleared
<1>5. button' \in Nat
  BY <1>1 DEF MoveSeat
<1> QED BY <1>1, <1>4, <1>5, SeatingKeepsInv DEF MoveSeat

LEMMA ToggleReadyKeeps ==
  ASSUME IInv, NEW pn \in Seated(np), ToggleReady(pn) PROVE IInv'
<1>1. AtRest /\ TypeOK /\ Cleared(players) /\ pn \in Pos /\ np \in 0 .. N /\ button \in Nat
  BY AtRestCleared DEF TypeOK, ToggleReady
<1>2. Cleared(players')
  <2>1. players' = [players EXCEPT ![pn].ready = ~@, ![pn].in = FALSE, ![pn].left = FALSE]
    BY DEF ToggleReady
  <2> DEFINE q == [players[pn] EXCEPT !.ready = ~@, !.in = FALSE, !.left = FALSE]
  <2>2. q \in Player /\ ~q.in /\ q.totalBet = players[pn].totalBet
    BY <1>1 DEF Cleared, Table, Player
  <2>3. players' = [i \in Pos |-> IF i = pn THEN q ELSE players[i]]
    BY <1>1, <2>1 DEF Cleared, Table, Player
  <2> HIDE DEF q
  <2> QED BY <1>1, <2>2, <2>3 DEF Cleared, Table
<1>3. dealerNum' \in Pos
  BY <1>1, PassButtonType DEF ToggleReady
<1> QED BY <1>1, <1>2, <1>3, SeatingKeepsInv DEF ToggleReady

\* An empty table.
LEMMA ResetKeeps == ASSUME Reset PROVE IInv'
<1>1. Cleared(players')
  BY VacantType DEF Reset, Cleared, Table
<1>2. betting' \in BOOLEAN
  BY DEF Reset
<1>6. stage' \in NotReady .. Showdown
  BY DEF Reset, NotReady, Showdown
<1>3. /\ np' \in 0 .. N /\ dealerNum' \in Pos /\ actionNum' \in Pos /\ board' \in {0, 3, 4, 5}
      /\ minRaise' \in Nat /\ handsPlayed' \in Nat /\ departed' \in Nat /\ button' \in Nat
  BY NAssumption DEF Reset, Pos
<1>4. score' \in [Pos -> Nat] /\ dealt' \in [Pos -> Nat]
  BY DEF Reset, NoScores, NoChips
<1>5. TypeOK'
  BY <1>1, <1>2, <1>3, <1>4, <1>6 DEF TypeOK, Cleared, Table
<1> QED BY <1>1, <1>5, RestKeepsInv DEF Reset

\* Dropping a seat between hands keeps what the new table keeps.
LEMMA DropKeeps ==
  ASSUME IInv, AtRest, NEW pn \in Seated(np), NEW d \in Pos, Drop(pn, d), Cleared(players')
  PROVE  IInv'
<1>1. /\ Stay(pn) \in SUBSET Pos /\ np \in 0 .. N /\ actionNum \in Pos /\ departed \in Nat
      /\ np # 0
  <2>1. np \in 0 .. N /\ actionNum \in Pos /\ departed \in Nat /\ Stay(pn) \in SUBSET Pos
    BY AtRestCleared DEF TypeOK, Stay
  <2> QED BY <2>1 DEF Seated
<1>2. np' \in 0 .. N /\ departed' \in Nat
  BY <1>1, NAssumption DEF Drop
<1>3. dealerNum' \in Pos /\ actionNum' \in Pos
  BY <1>1, ShiftType DEF Drop
<1>4. UNCHANGED <<stage, betting, board, minRaise, handsPlayed, score, dealt, button>>
  BY DEF Drop
<1>5. TypeOK'
  BY <1>2, <1>3, <1>4 DEF IInv, TypeOK, Cleared, Table
<1> QED BY <1>4, <1>5, RestKeepsInv DEF AtRest

\* Pausing clears the readiness of everyone, and nothing else between hands.
LEMMA PauseCleared ==
  ASSUME NEW ps, Cleared(ps)
  PROVE  Cleared(Pause(ps))
<1> SUFFICES ASSUME NEW i \in Pos
             PROVE  LET q == Pause(ps)[i] IN q \in Player /\ ~q.in /\ q.totalBet = 0
  BY DEF Pause, Cleared, Table
<1>1. ps[i] \in Player
  BY DEF Cleared, Table
<1> QED BY <1>1 DEF Pause, Unready, Player

LEMMA DropAndPauseKeeps ==
  ASSUME IInv, AtRest, NEW pn \in Seated(np), NEW STATE d, d \in Pos, DropAndPause(pn, d)
  PROVE  IInv'
<1>1. CASE Stay(pn) = {}
  BY <1>1, ResetKeeps DEF DropAndPause
<1>2. CASE Stay(pn) # {}
  <2>1. players' = Pause(Compact(players, Stay(pn))) /\ Drop(pn, d)
    BY <1>2 DEF DropAndPause
  <2>2. Stay(pn) \in SUBSET Pos /\ Cleared(players) /\ players \in Table
    BY AtRestCleared DEF Stay, Cleared
  <2>3. Cleared(players')
    BY <2>1, <2>2, CompactCleared, PauseCleared
  <2> QED BY <2>1, <2>3, DropKeeps
<1> QED BY <1>1, <1>2

LEMMA LeaveTableKeeps ==
  ASSUME IInv, NEW pn \in Seated(np), LeaveTable(pn) PROVE IInv'
<1> DEFINE d == IF players[pn].ready
                THEN PassButton([players EXCEPT ![pn].ready = FALSE], pn)
                ELSE dealerNum
<1>1. d \in Pos
  BY PassButtonType DEF IInv, TypeOK
<1>2. AtRest /\ DropAndPause(pn, d)
  BY DEF LeaveTable
<1> HIDE DEF d
<1> QED BY <1>1, <1>2, DropAndPauseKeeps

LEMMA SpectateKeeps ==
  ASSUME IInv, NEW pn \in Seated(np), Spectate(pn) PROVE IInv'
<1>1. dealerNum \in Pos /\ AtRest /\ DropAndPause(pn, dealerNum)
  BY DEF IInv, TypeOK, Spectate
<1> QED BY <1>1, DropAndPauseKeeps

LEMMA BustKeeps ==
  ASSUME IInv, NEW pn \in Seated(np), Bust(pn) PROVE IInv'
<1>1. AtRest /\ players' = Compact(players, Stay(pn)) /\ Drop(pn, dealerNum)
  BY DEF Bust
<1>2. Stay(pn) \in SUBSET Pos /\ Cleared(players) /\ players \in Table /\ dealerNum \in Pos
  BY <1>1, AtRestCleared DEF Stay, Cleared, TypeOK
<1>3. Cleared(players')
  BY <1>1, <1>2, CompactCleared
<1> QED BY <1>1, <1>2, <1>3, DropKeeps

\* resetForNextHand clears everyone, after crediting the pending rebuys.
LEMMA SettleShowdownKeeps == ASSUME IInv, SettleShowdown PROVE IInv'
<1> DEFINE keep   == Seated(np) \ Left(players)
           seats  == Compact(players, keep)
           funded == [i \in Pos |-> Credit(seats[i])]
           n      == Cardinality(keep)
           paused == n < np \/ \E i \in Seated(n) : funded[i].stack = 0
           Pausing(i)  == [Unready(funded[i]) EXCEPT !.called = FALSE]
           Going(i)    == [Unready(funded[i]) EXCEPT !.ready = funded[i].ready]
<1>1. /\ TypeOK /\ np \in 0 .. N /\ dealerNum \in Pos /\ actionNum \in Pos
      /\ departed \in Nat /\ handsPlayed \in Nat /\ players \in Table
      /\ keep \in SUBSET Pos
  BY SeatedType DEF IInv, TypeOK, Table
<1>2. n \in 0 .. N /\ n <= np
  <2>1. n \in 0 .. N
    BY <1>1, PosFinite
  <2>2. IsFiniteSet(0 .. np - 1) /\ Cardinality(0 .. np - 1) = np
    <3>1. 0 \in Int /\ np - 1 \in Int /\ np \in Nat
      BY <1>1, NAssumption
    <3>2. IsFiniteSet(0 .. np - 1)
          /\ Cardinality(0 .. np - 1) = IF 0 > np - 1 THEN 0 ELSE (np - 1) - 0 + 1
      BY <3>1, FS_Interval
    <3> QED BY <3>1, <3>2
  <2>3. keep \subseteq 0 .. np - 1
    BY DEF Seated
  <2> QED BY <2>1, <2>2, <2>3, FS_Subset
<1>3. ASSUME NEW i \in Pos
      PROVE  /\ Pausing(i) \in Player /\ ~Pausing(i).in /\ Pausing(i).totalBet = 0
             /\ Going(i) \in Player /\ ~Going(i).in /\ Going(i).totalBet = 0
  <2>1. seats[i] \in Player
    BY <1>1, CompactCleared DEF Table
  <2> HIDE DEF seats
  <2>2. funded[i] \in Player
    <3>1. seats[i].stack + seats[i].pendingBuyIn \in Nat
      BY <2>1 DEF Player
    <3> QED BY <2>1, <3>1 DEF Credit, Player
  <2> HIDE DEF funded
  <2> QED BY <2>2 DEF Unready, Player
<1>4. /\ np' = n /\ departed' = departed + np - n /\ actionNum' = Shift(keep, actionNum)
      /\ \/ /\ n = 0 /\ players' = seats /\ dealerNum' = 0 /\ handsPlayed' = handsPlayed
         \/ /\ n > 0 /\ players' = [i \in Pos |-> Pausing(i)]
            /\ dealerNum' = Rank(keep, NextButton)
            /\ handsPlayed' = handsPlayed + 1
         \/ /\ n > 0 /\ players' = [i \in Pos |-> Going(i)]
            /\ dealerNum' = NextFrom(Rank(keep, NextButton), n, Ready(players'))
            /\ handsPlayed' = handsPlayed + 1
      /\ stage' = NotReady /\ betting' = FALSE
      /\ score' = NoScores /\ dealt' = NoChips
      /\ UNCHANGED <<board, minRaise, button>>
  BY DEF SettleShowdown
<1>5. n = 0 => Cleared(seats)
  <2> SUFFICES ASSUME n = 0, NEW k \in Pos PROVE seats[k] = Vacant
    BY <1>1, CompactCleared, VacantType DEF Cleared
  <2>1. keep = {}
    BY <1>1, PosFinite, FS_EmptySet
  <2> HIDE DEF keep
  <2> QED BY <2>1 DEF Compact
<1>6. n > 0 => Rank(keep, NextButton) \in Pos
  <2> SUFFICES ASSUME n > 0 PROVE Rank(keep, NextButton) \in Pos
    OBVIOUS
  <2>1. keep # {}
    BY FS_EmptySet
  <2>2. NextButton \in keep
    BY <1>1, <2>1, CursorType DEF NextButton
  <2> QED BY <1>1, <2>2, RankType
<1> HIDE DEF keep, seats, funded, n, paused, Pausing, Going
<1>7. Cleared(players')
  <2>1. CASE n = 0 /\ players' = seats
    BY <1>5, <2>1
  <2>2. CASE players' = [i \in Pos |-> Pausing(i)]
    BY <1>3, <2>2 DEF Cleared, Table
  <2>3. CASE players' = [i \in Pos |-> Going(i)]
    BY <1>3, <2>3 DEF Cleared, Table
  <2> QED BY <1>4, <2>1, <2>2, <2>3
<1>8. dealerNum' \in Pos
  <2>1. CASE n = 0 /\ dealerNum' = 0
    BY <2>1, NAssumption DEF Pos
  <2>2. CASE n > 0 /\ dealerNum' = Rank(keep, NextButton)
    BY <1>6, <2>2
  <2>3. CASE n > 0 /\ dealerNum' = NextFrom(Rank(keep, NextButton), n, Ready(players'))
    <3>1. Rank(keep, NextButton) \in Pos /\ Rank(keep, NextButton) \in 0 .. N
      BY <1>6, <2>3, NAssumption DEF Pos
    <3>2. Ready(players') \in SUBSET Pos
      BY DEF Ready
    <3> QED BY <1>2, <2>3, <3>1, <3>2, NextFromType
  <2> QED BY <1>4, <2>1, <2>2, <2>3
<1>9. /\ np' \in 0 .. N /\ departed' \in Nat /\ handsPlayed' \in Nat /\ actionNum' \in Pos
  <2>1. actionNum' \in Pos
    BY <1>1, <1>4, ShiftType
  <2>2. departed' \in Nat /\ np' \in 0 .. N
    BY <1>1, <1>2, <1>4, NAssumption
  <2>3. handsPlayed' \in Nat
    BY <1>1, <1>4
  <2> QED BY <2>1, <2>2, <2>3
<1>10. score' \in [Pos -> Nat] /\ dealt' \in [Pos -> Nat]
  BY <1>4 DEF NoScores, NoChips
<1>11. betting' \in BOOLEAN
  BY <1>4
<1>14. stage' \in NotReady .. Showdown
  BY <1>4 DEF NotReady, Showdown
<1>12. board' \in {0, 3, 4, 5} /\ minRaise' \in Nat /\ button' \in Nat
  BY <1>1, <1>4 DEF TypeOK
<1>13. TypeOK'
  BY <1>7, <1>8, <1>9, <1>10, <1>11, <1>12, <1>14 DEF TypeOK, Cleared, Table
<1> QED BY <1>4, <1>7, <1>13, RestKeepsInv

(***************************************************************************)
(* The theorems.                                                           *)
(***************************************************************************)

LEMMA InitInv == Init => IInv
<1> SUFFICES ASSUME Init PROVE IInv
  OBVIOUS
<1>1. Cleared(players)
  BY VacantType DEF Init, Cleared, Table
<1>2. betting \in BOOLEAN
  BY DEF Init
<1>3. /\ stage \in NotReady .. Showdown /\ np \in 0 .. N /\ dealerNum \in Pos /\ actionNum \in Pos
      /\ board \in {0, 3, 4, 5} /\ minRaise \in Nat /\ handsPlayed \in Nat /\ departed \in Nat
      /\ button \in Nat
  BY NAssumption DEF Init, Pos, NotReady, Showdown
<1>4. score \in [Pos -> Nat] /\ dealt \in [Pos -> Nat]
  BY DEF Init, NoScores, NoChips
<1>5. TypeOK
  BY <1>1, <1>2, <1>3, <1>4 DEF TypeOK, Cleared, Table
<1>6. stage = NotReady
  BY DEF Init
<1> QED
  BY <1>1, <1>5, <1>6 DEF IInv, StakesIntact, HandCleared, SeatsReady, InPlay, Running, Cleared,
                          NotReady, PreFlop, River, Showdown

\* The amounts a player on turn may bet, and a rebuy, are naturals.
LEMMA AmountsNat == TypeOK => Amounts \subseteq Nat /\ Rebuys \subseteq Nat
BY ConfigAssumption DEF TypeOK, Player, Amounts

LEMMA StutterKeeps == ASSUME IInv, UNCHANGED vars PROVE IInv'
BY DEF IInv, TypeOK, StakesIntact, HandCleared, SeatsReady, InPlay, Running, Seated, vars

LEMMA StepKeeps == IInv /\ [Next]_vars => IInv'
<1> SUFFICES ASSUME IInv, [Next]_vars PROVE IInv'
  OBVIOUS
<1>1. Amounts \subseteq Nat /\ Rebuys \subseteq Nat
  BY AmountsNat DEF IInv
<1>2. CASE PlayHand
  <2>1. CASE Act
    <3>1. PICK pn \in Seated(np) :
            \/ \E amt \in Amounts : Call(pn, amt) \/ Raise(pn, amt) \/ ShortRaise(pn, amt)
            \/ Fold(pn)
      BY <2>1 DEF Act
    <3>2. CASE Fold(pn)
      BY <3>2, FoldKeeps
    <3>3. ASSUME NEW amt \in Amounts, Call(pn, amt) \/ Raise(pn, amt) \/ ShortRaise(pn, amt)
          PROVE  IInv'
      <4>1. amt \in Nat
        BY <1>1
      <4> QED BY <3>3, <4>1, CallKeeps, RaiseKeeps, ShortRaiseKeeps
    <3> QED BY <3>1, <3>2, <3>3
  <2>2. CASE RunoutNext
    BY <2>2, RunoutNextKeeps
  <2>3. CASE SettleShowdown
    BY <2>3, SettleShowdownKeeps
  <2>4. CASE \E pn \in Seated(np) : LeaveHand(pn)
    BY <2>4, LeaveHandKeeps
  <2>5. CASE \E pn \in Seated(np), amt \in Rebuys : Rebuy(pn, amt)
    BY <1>1, <2>5, RebuyKeeps
  <2> QED BY <1>2, <2>1, <2>2, <2>3, <2>4, <2>5 DEF PlayHand
<1>3. CASE BetweenHands
  <2>1. CASE Start
    BY <2>1, StartKeeps
  <2>2. CASE SettleSession
    BY <2>2, ResetKeeps DEF SettleSession
  <2>3. CASE \E s \in 1 .. N, ready \in BOOLEAN : SeatPlayer(s, ready)
    <3>1. 1 .. N \subseteq Nat
      BY NAssumption
    <3> QED BY <2>3, <3>1, SeatPlayerKeeps
  <2>4. CASE \E pn \in Seated(np), s \in 1 .. N : MoveSeat(pn, s)
    <3>1. 1 .. N \subseteq Nat
      BY NAssumption
    <3> QED BY <2>4, <3>1, MoveSeatKeeps
  <2>5. CASE \E pn \in Seated(np) : ToggleReady(pn) \/ UndoRebuy(pn)
    BY <2>5, ToggleReadyKeeps, UndoRebuyKeeps
  <2>6. CASE \E pn \in Seated(np) : LeaveTable(pn) \/ Spectate(pn) \/ Bust(pn)
    BY <2>6, LeaveTableKeeps, SpectateKeeps, BustKeeps
  <2> QED BY <1>3, <2>1, <2>2, <2>3, <2>4, <2>5, <2>6 DEF BetweenHands
<1>4. CASE UNCHANGED vars
  BY <1>4, StutterKeeps
<1> QED BY <1>2, <1>3, <1>4 DEF Next

\* The inductive invariant holds in every reachable state.
THEOREM Invariance == Spec => []IInv
BY InitInv, StepKeeps, PTL DEF Spec

\* Every variable has its type, at a table of any size.
THEOREM TypeCorrect == Spec => []TypeOK
<1>1. IInv => TypeOK
  BY DEF IInv
<1> QED BY <1>1, Invariance, PTL

\* Until the pots are paid every player's stack and bets make up what the
\* player brought into the hand: bets, blinds, refunds, folds, departures and
\* rebuys move chips, they never create or lose one.
THEOREM NoChipLostInPlay == Spec => []StakesIntact
<1>1. IInv => StakesIntact
  BY DEF IInv
<1> QED BY <1>1, Invariance, PTL

---------------------------------------------------------------------------------

(***************************************************************************)
(* PART 2.  A hand leaves nothing behind (CleanBetweenHands).  Next to the *)
(* types the property is inductive by itself: a hand is left only through  *)
(* SettleShowdown or Reset, and between hands every operation keeps each   *)
(* player tidy or puts in a tidy one.                                      *)
(***************************************************************************)

\* What CleanBetweenHands asks of one player.
Tidy(p) ==
  /\ ~p.in /\ ~p.left /\ p.totalBet = 0 /\ p.bet = 0 /\ p.pendingBuyIn = 0
  /\ p.ready => p.stack > 0

LEMMA CleanIsTidy ==
  CleanBetweenHands <=> (stage = NotReady => \A i \in Seated(np) : Tidy(players[i]))
BY DEF CleanBetweenHands, Tidy

LEMMA VacantTidy == Tidy(Vacant)
BY DEF Tidy, Vacant

(***************************************************************************)
(* Removing and sorting players keeps them as they are.                    *)
(***************************************************************************)

\* Removing seats leaves only players that were kept, and vacant positions.
LEMMA CompactTakes ==
  ASSUME NEW ps, NEW keep, NEW k \in Pos
  PROVE  Compact(ps, keep)[k] = Vacant \/ \E i \in keep : Compact(ps, keep)[k] = ps[i]
<1>1. CASE \E i \in keep : Rank(keep, i) = k
  <2> DEFINE i == CHOOSE i \in keep : Rank(keep, i) = k
  <2>1. i \in keep
    BY <1>1
  <2>2. Compact(ps, keep)[k] = ps[i]
    BY <1>1 DEF Compact
  <2> HIDE DEF i
  <2> QED BY <2>1, <2>2
<1>2. CASE ~\E i \in keep : Rank(keep, i) = k
  BY <1>2 DEF Compact
<1> QED BY <1>1, <1>2

\* Sorting by seat leaves only players of the list, and vacant positions.
LEMMA BySeatTakes ==
  ASSUME NEW ps, NEW n, NEW k \in Pos
  PROVE  BySeat(ps, n)[k] = Vacant \/ \E i \in Seated(n) : BySeat(ps, n)[k] = ps[i]
<1>1. CASE \E i \in Seated(n) : SeatRank(ps, n, i) = k
  <2> DEFINE i == CHOOSE i \in Seated(n) : SeatRank(ps, n, i) = k
  <2>1. i \in Seated(n)
    BY <1>1
  <2>2. BySeat(ps, n)[k] = ps[i]
    BY <1>1 DEF BySeat
  <2> HIDE DEF i
  <2> QED BY <2>1, <2>2
<1>2. CASE ~\E i \in Seated(n) : SeatRank(ps, n, i) = k
  BY <1>2 DEF BySeat
<1> QED BY <1>1, <1>2

\* So a table of tidy players stays one.
LEMMA CompactTidy ==
  ASSUME NEW ps, NEW keep, \A i \in keep : Tidy(ps[i]), NEW k \in Pos
  PROVE  Tidy(Compact(ps, keep)[k])
BY CompactTakes, VacantTidy

LEMMA BySeatTidy ==
  ASSUME NEW ps, NEW n, \A i \in Seated(n) : Tidy(ps[i]), NEW k \in Pos
  PROVE  Tidy(BySeat(ps, n)[k])
BY BySeatTakes, VacantTidy

(***************************************************************************)
(* During a hand.                                                          *)
(***************************************************************************)

\* What follows an action never ends the hand by itself: from any stage of a
\* hand it stays in one.
LEMMA UpdateStaysInHand ==
  ASSUME NEW before, NEW at, at.stage \in PreFlop .. Showdown, UpdateRoundInfo(before, at)
  PROVE  stage' # NotReady
BY DEF UpdateRoundInfo, Concede, MoveAction, ResolveShowdown, RunOut, DealStreet, FailToDeal,
       NotReady, PreFlop, Flop, Turn, River, Showdown

LEMMA NowStage ==
  ASSUME Running
  PROVE  /\ Now.stage \in PreFlop .. Showdown
         /\ \A m : [Now EXCEPT !.minRaise = m].stage \in PreFlop .. Showdown
BY DEF Running, Now

LEMMA ActStaysInHand ==
  ASSUME IInv, NEW pn \in Seated(np), NEW amt,
         Call(pn, amt) \/ Raise(pn, amt) \/ ShortRaise(pn, amt) \/ Fold(pn)
  PROVE  stage' # NotReady
<1>1. pn \in Pos /\ players[pn].in
  BY SeatedType DEF IInv, Call, Raise, ShortRaise, Fold, OnTurn
<1>2. /\ Now.stage \in PreFlop .. Showdown
      /\ \A m : [Now EXCEPT !.minRaise = m].stage \in PreFlop .. Showdown
  BY <1>1, OnTurnRunning, NowStage
<1>3. CASE Call(pn, amt)
  BY <1>2, <1>3, UpdateStaysInHand DEF Call
<1>4. CASE Raise(pn, amt)
  BY <1>2, <1>4, UpdateStaysInHand DEF Raise
<1>5. CASE ShortRaise(pn, amt)
  BY <1>2, <1>5, UpdateStaysInHand DEF ShortRaise
<1>6. CASE Fold(pn)
  BY <1>2, <1>6, UpdateStaysInHand DEF Fold
<1> QED BY <1>3, <1>4, <1>5, <1>6

LEMMA LeaveHandStaysInHand ==
  ASSUME NEW pn, LeaveHand(pn) PROVE stage' # NotReady
<1>1. Running /\ stage # NotReady /\ Now.stage \in PreFlop .. Showdown
  BY NowStage DEF LeaveHand, Running, NotReady, PreFlop, Showdown
<1>2. CASE \E ps : UpdateRoundInfo(ps, Now)
  BY <1>1, <1>2, UpdateStaysInHand
<1>3. CASE UNCHANGED street
  BY <1>1, <1>3 DEF street
<1> QED BY <1>2, <1>3 DEF LeaveHand

LEMMA RunoutNextStaysInHand ==
  ASSUME IInv, RunoutNext PROVE stage' # NotReady
<1>1. board \in {0, 3, 4, 5} /\ Running /\ Now.stage \in PreFlop .. Showdown
  BY NowStage DEF IInv, TypeOK, RunoutNext, InPlay, Running, PreFlop, River, Showdown
<1>2. CASE UpdateRoundInfo(players, Now)
  BY <1>1, <1>2, UpdateStaysInHand
<1>3. CASE stage' = (CASE board = 0 -> Flop [] board = 3 -> Turn [] board = 4 -> River)
           /\ board \in {0, 3, 4}
  BY <1>3 DEF NotReady, Flop, Turn, River
<1> QED BY <1>1, <1>2, <1>3 DEF RunoutNext

(***************************************************************************)
(* Between hands.                                                          *)
(***************************************************************************)

\* What holds before every step at rest.
LEMMA RestTidy ==
  ASSUME IInv, CleanBetweenHands, AtRest
  PROVE  /\ TypeOK /\ players \in Table /\ np \in 0 .. N
         /\ Seated(np) \in SUBSET Pos
         /\ \A i \in Seated(np) : Tidy(players[i])
BY AtRestCleared, CleanIsTidy DEF AtRest, Cleared, TypeOK

\* What has to be shown after a step.
LEMMA TidyThenClean ==
  ASSUME \A i \in Seated(np') : Tidy(players'[i])
  PROVE  CleanBetweenHands'
BY DEF CleanBetweenHands, Tidy

LEMMA SeatsOnTable ==
  ASSUME IInv' PROVE Seated(np') \in SUBSET Pos
<1>1. np' \in 0 .. N
  BY DEF IInv, TypeOK
<1>2. ASSUME NEW n \in 0 .. N PROVE Seated(n) \in SUBSET Pos
  BY NAssumption DEF Seated, Pos
<1> QED BY <1>1, <1>2

LEMMA InHandThenClean ==
  ASSUME stage' # NotReady PROVE CleanBetweenHands'
BY DEF CleanBetweenHands

LEMMA SeatPlayerClean ==
  ASSUME IInv, IInv', CleanBetweenHands, NEW s, NEW ready, SeatPlayer(s, ready)
  PROVE  CleanBetweenHands'
<1> DEFINE p == [Vacant EXCEPT !.seatID = s, !.ready = ready,
                               !.stack = BuyIn, !.totalBuyIn = BuyIn]
           ps == [players EXCEPT ![np] = p]
<1>1. /\ players \in Table /\ np \in 0 .. N /\ np < N /\ np' = np + 1
      /\ \A i \in Seated(np) : Tidy(players[i])
  BY RestTidy DEF SeatPlayer
<1>2. Tidy(p)
  BY ConfigAssumption DEF Tidy, Vacant
<1>3. players' = BySeat(ps, np + 1)
  BY DEF SeatPlayer
<1> HIDE DEF p
<1>4. ASSUME NEW i \in Seated(np + 1) PROVE Tidy(ps[i])
  <2>1. i \in Pos /\ (i = np \/ i \in Seated(np))
    BY <1>1, NAssumption DEF Seated, Pos
  <2>2. ps[i] = p \/ (i # np /\ ps[i] = players[i])
    BY <1>1, <2>1 DEF Table
  <2> HIDE DEF ps
  <2> QED BY <1>1, <1>2, <2>1, <2>2
<1> HIDE DEF ps
<1>5. Seated(np') \in SUBSET Pos
  BY SeatsOnTable
<1>6. \A k \in Pos : Tidy(players'[k])
  BY <1>3, <1>4, BySeatTidy
<1> QED BY <1>5, <1>6, TidyThenClean

LEMMA MoveSeatClean ==
  ASSUME IInv, CleanBetweenHands, NEW pn \in Seated(np), NEW s, MoveSeat(pn, s)
  PROVE  CleanBetweenHands'
<1> DEFINE ps == [players EXCEPT ![pn].seatID = s]
<1>1. /\ players \in Table /\ np' = np /\ Seated(np) \in SUBSET Pos
      /\ \A i \in Seated(np) : Tidy(players[i])
  BY RestTidy DEF MoveSeat
<1>2. players' = BySeat(ps, np)
  BY DEF MoveSeat
<1>3. ASSUME NEW i \in Seated(np) PROVE Tidy(ps[i])
  BY <1>1 DEF Table, Player, Tidy
<1> HIDE DEF ps
<1>4. \A k \in Pos : Tidy(players'[k])
  BY <1>2, <1>3, BySeatTidy
<1> QED BY <1>1, <1>4, TidyThenClean

\* Nobody gets ready without chips.
LEMMA ToggleReadyClean ==
  ASSUME IInv, CleanBetweenHands, NEW pn \in Seated(np), ToggleReady(pn)
  PROVE  CleanBetweenHands'
<1> DEFINE q == [players[pn] EXCEPT !.ready = ~@, !.in = FALSE, !.left = FALSE]
<1>1. /\ players \in Table /\ np' = np /\ Seated(np) \in SUBSET Pos
      /\ \A i \in Seated(np) : Tidy(players[i])
      /\ players[pn].ready \/ players[pn].stack > 0
  BY RestTidy DEF ToggleReady
<1>2. players' = [players EXCEPT ![pn].ready = ~@, ![pn].in = FALSE, ![pn].left = FALSE]
  BY DEF ToggleReady
<1>3. players' = [i \in Pos |-> IF i = pn THEN q ELSE players[i]]
  BY <1>1, <1>2 DEF Table, Player
<1>4. Tidy(q)
  <2>1. Tidy(players[pn]) /\ players[pn].stack > 0
    BY <1>1 DEF Tidy
  <2> QED BY <1>1, <2>1 DEF Table, Player, Tidy
<1> HIDE DEF q
<1>5. \A i \in Seated(np') : Tidy(players'[i])
  BY <1>1, <1>3, <1>4
<1> QED BY <1>5, TidyThenClean

\* Between hands a rebuy is never left pending; during a hand nothing is asked.
LEMMA RebuyClean ==
  ASSUME IInv, CleanBetweenHands, NEW pn \in Seated(np), NEW amt \in Nat, Rebuy(pn, amt)
  PROVE  CleanBetweenHands'
<1> DEFINE now == [players EXCEPT ![pn].stack = @ + amt, ![pn].totalBuyIn = @ + amt]
<1>1. stage' = stage /\ np' = np
  BY DEF Rebuy, street
<1>2. SUFFICES ASSUME AtRest PROVE CleanBetweenHands'
  BY <1>1, InHandThenClean DEF AtRest
<1>3. /\ players \in Table /\ Seated(np) \in SUBSET Pos
      /\ \A i \in Seated(np) : Tidy(players[i])
  BY <1>2, RestTidy
<1>4. players' = now
  BY <1>3 DEF Rebuy, Tidy
<1>5. ASSUME NEW i \in Seated(np) PROVE Tidy(now[i])
  <2>1. Tidy(players[i]) /\ players[i] \in Player
    BY <1>3 DEF Table
  <2> QED BY <1>3, <2>1 DEF Table, Player, Tidy
<1> HIDE DEF now
<1> QED BY <1>1, <1>4, <1>5, TidyThenClean

LEMMA UndoRebuyClean ==
  ASSUME IInv, CleanBetweenHands, NEW pn \in Seated(np), UndoRebuy(pn)
  PROVE  CleanBetweenHands'
<1> DEFINE b == players[pn].totalBuyIn - AtMost(BuyIn, players[pn].totalBuyIn)
           q == [players[pn] EXCEPT !.stack = @ - BuyIn, !.totalBuyIn = b]
<1>1. stage' = stage /\ np' = np
  BY DEF UndoRebuy, street
<1>2. SUFFICES ASSUME AtRest PROVE CleanBetweenHands'
  BY <1>1, InHandThenClean DEF AtRest
<1>3. /\ players \in Table /\ Seated(np) \in SUBSET Pos
      /\ \A i \in Seated(np) : Tidy(players[i])
  BY <1>2, RestTidy
<1>4. players' = [i \in Pos |-> IF i = pn THEN q ELSE players[i]]
  BY <1>3 DEF UndoRebuy, Table, Player
<1>5. Tidy(q)
  BY <1>3 DEF UndoRebuy, Tidy, Table, Player
<1> HIDE DEF q
<1>6. \A i \in Seated(np') : Tidy(players'[i])
  BY <1>1, <1>3, <1>4, <1>5
<1> QED BY <1>6, TidyThenClean

LEMMA PauseTidy ==
  ASSUME NEW ps, NEW i \in Pos, Tidy(ps[i])
  PROVE  Tidy(Pause(ps)[i])
<1>1. Pause(ps)[i] = Unready(ps[i])
  BY DEF Pause
<1>2. Tidy(Unready(ps[i]))
  BY DEF Unready, Tidy
<1> QED BY <1>1, <1>2

LEMMA ResetClean == ASSUME Reset PROVE CleanBetweenHands'
<1>1. np' = 0
  BY DEF Reset
<1>2. Seated(np') = {}
  BY <1>1 DEF Seated
<1> QED BY <1>2, TidyThenClean

\* A player goes, with or without a pause.
LEMMA DropClean ==
  ASSUME IInv, IInv', CleanBetweenHands, AtRest, NEW pn \in Seated(np),
         \/ \E d : DropAndPause(pn, d)
         \/ players' = Compact(players, Stay(pn))
  PROVE  CleanBetweenHands'
<1>1. Seated(np') \in SUBSET Pos
  BY SeatsOnTable
<1>2. \A i \in Stay(pn) : Tidy(players[i])
  BY RestTidy DEF Stay
<1>3. \A k \in Pos : Tidy(Compact(players, Stay(pn))[k])
  BY <1>2, CompactTidy
<1>4. CASE Reset
  BY <1>4, ResetClean
<1>5. CASE players' = Compact(players, Stay(pn))
  BY <1>1, <1>3, <1>5, TidyThenClean
<1>6. CASE players' = Pause(Compact(players, Stay(pn)))
  <2>1. \A k \in Pos : Tidy(players'[k])
    BY <1>3, <1>6, PauseTidy
  <2> QED BY <1>1, <2>1, TidyThenClean
<1> QED BY <1>4, <1>5, <1>6 DEF DropAndPause

(***************************************************************************)
(* The end of a hand.                                                      *)
(***************************************************************************)

\* Who left is not kept, bets are cleared and rebuys credited; and the table
\* goes on with ready players only if nobody is broke.
LEMMA SettleShowdownClean ==
  ASSUME IInv, IInv', SettleShowdown PROVE CleanBetweenHands'
<1> DEFINE keep   == Seated(np) \ Left(players)
           seats  == Compact(players, keep)
           funded == [i \in Pos |-> Credit(seats[i])]
           n      == Cardinality(keep)
           Pausing(i) == [Unready(funded[i]) EXCEPT !.called = FALSE]
           Going(i)   == [Unready(funded[i]) EXCEPT !.ready = funded[i].ready]
<1>1. /\ players \in Table /\ keep \in SUBSET Pos
      /\ np' = n /\ Seated(np') \in SUBSET Pos
  BY SeatedType, SeatsOnTable DEF IInv, TypeOK, Table, SettleShowdown
<1>2. \/ n = 0
      \/ players' = [i \in Pos |-> Pausing(i)]
      \/ /\ players' = [i \in Pos |-> Going(i)]
         /\ \A i \in Seated(n) : funded[i].stack # 0
  BY DEF SettleShowdown
<1>3. ASSUME NEW i \in Pos PROVE seats[i] \in Player /\ ~seats[i].left
  <2>1. \A k \in keep : ~players[k].left
    BY <1>1 DEF Left
  <2> HIDE DEF keep
  <2>2. seats[i] = Vacant \/ \E k \in keep : seats[i] = players[k]
    BY CompactTakes
  <2> QED BY <1>1, <2>1, <2>2, VacantType DEF Table, Vacant
<1> HIDE DEF keep, seats
<1>4. ASSUME NEW i \in Pos
      PROVE  funded[i] \in Player /\ ~funded[i].left /\ funded[i].pendingBuyIn = 0
  <2>1. seats[i] \in Player /\ ~seats[i].left
    BY <1>3
  <2>2. seats[i].stack + seats[i].pendingBuyIn \in Nat
    BY <2>1 DEF Player
  <2> QED BY <2>1, <2>2 DEF Credit, Player
<1> HIDE DEF funded
<1>5. ASSUME NEW i \in Pos
      PROVE  Tidy(Pausing(i)) /\ (funded[i].stack # 0 => Tidy(Going(i)))
  <2>1. funded[i] \in Player /\ ~funded[i].left /\ funded[i].pendingBuyIn = 0
    BY <1>4
  <2> QED BY <2>1 DEF Unready, Tidy, Player
<1> HIDE DEF n, Pausing, Going
<1>6. CASE n = 0
  <2>1. Seated(np') = {}
    BY <1>1, <1>6 DEF Seated
  <2> QED BY <2>1, TidyThenClean
<1>7. CASE players' = [i \in Pos |-> Pausing(i)]
  BY <1>1, <1>5, <1>7, TidyThenClean
<1>8. CASE players' = [i \in Pos |-> Going(i)] /\ \A i \in Seated(n) : funded[i].stack # 0
  <2>1. \A i \in Seated(np') : Tidy(players'[i])
    BY <1>1, <1>5, <1>8
  <2> QED BY <2>1, TidyThenClean
<1> QED BY <1>2, <1>6, <1>7, <1>8

(***************************************************************************)
(* The theorem.                                                            *)
(***************************************************************************)

LEMMA StartClean == ASSUME Start PROVE CleanBetweenHands'
<1>1. stage' # NotReady
  BY UpdateStaysInHand DEF Start, PreFlop, Showdown
<1> QED BY <1>1, InHandThenClean

LEMMA PlayHandClean ==
  ASSUME IInv, IInv', CleanBetweenHands, PlayHand PROVE CleanBetweenHands'
<1>1. CASE Act
  BY <1>1, ActStaysInHand, InHandThenClean DEF Act
<1>2. CASE RunoutNext
  BY <1>2, RunoutNextStaysInHand, InHandThenClean
<1>3. CASE SettleShowdown
  BY <1>3, SettleShowdownClean
<1>4. CASE \E pn \in Seated(np) : LeaveHand(pn)
  BY <1>4, LeaveHandStaysInHand, InHandThenClean
<1>5. CASE \E pn \in Seated(np), amt \in Rebuys : Rebuy(pn, amt)
  <2>1. Rebuys \subseteq Nat
    BY ConfigAssumption
  <2> QED BY <1>5, <2>1, RebuyClean
<1> QED BY <1>1, <1>2, <1>3, <1>4, <1>5 DEF PlayHand

LEMMA BetweenHandsClean ==
  ASSUME IInv, IInv', CleanBetweenHands, BetweenHands PROVE CleanBetweenHands'
<1>1. CASE Start
  BY <1>1, StartClean
<1>2. CASE SettleSession
  BY <1>2, ResetClean DEF SettleSession
<1>3. CASE \E s \in 1 .. N, ready \in BOOLEAN : SeatPlayer(s, ready)
  BY <1>3, SeatPlayerClean
<1>4. CASE \E pn \in Seated(np), s \in 1 .. N : MoveSeat(pn, s)
  BY <1>4, MoveSeatClean
<1>5. CASE \E pn \in Seated(np) : ToggleReady(pn) \/ UndoRebuy(pn)
  BY <1>5, ToggleReadyClean, UndoRebuyClean
<1>6. CASE \E pn \in Seated(np) : LeaveTable(pn) \/ Spectate(pn) \/ Bust(pn)
  BY <1>6, DropClean DEF LeaveTable, Spectate, Bust
<1> QED BY <1>1, <1>2, <1>3, <1>4, <1>5, <1>6 DEF BetweenHands

LEMMA StepClean == IInv /\ IInv' /\ CleanBetweenHands /\ [Next]_vars => CleanBetweenHands'
<1> SUFFICES ASSUME IInv, IInv', CleanBetweenHands, [Next]_vars PROVE CleanBetweenHands'
  OBVIOUS
<1>1. CASE UNCHANGED vars
  BY <1>1 DEF CleanBetweenHands, vars, Seated
<1> QED BY <1>1, PlayHandClean, BetweenHandsClean DEF Next

\* Between hands nothing of the last hand survives, at a table of any size:
\* nobody is in, nothing is bet or pending, nobody who left is still seated, and
\* whoever is ready has chips.
THEOREM NothingSurvives == Spec => []CleanBetweenHands
<1>1. Init => CleanBetweenHands
  <2> SUFFICES ASSUME Init PROVE CleanBetweenHands
    OBVIOUS
  <2>1. Seated(np) = {}
    BY DEF Init, Seated
  <2> QED BY <2>1 DEF CleanBetweenHands
<1> QED BY <1>1, StepClean, Invariance, PTL DEF Spec

---------------------------------------------------------------------------------

(***************************************************************************)
(* PART 3.  Positions follow the seats.  Removing players (Compact) and    *)
(* sorting them (BySeat) both arrange what they keep by a key in which     *)
(* every rank is taken once; every other operation leaves seats alone,     *)
(* which for the payments rests on this: a vacant position holds no cards  *)
(* and wins nothing.                                                       *)
(***************************************************************************)

(***************************************************************************)
(* Seats.                                                                  *)
(***************************************************************************)

\* The first n positions are taken, in the order of their seats; the others are
\* vacant.
InOrder(ps, n) ==
  /\ \A i \in Pos : IF i < n THEN ps[i].seatID > 0 ELSE ps[i] = Vacant
  /\ \A i, j \in Pos : i < j /\ j < n => ps[i].seatID < ps[j].seatID

SeatsInv ==
  /\ InOrder(players, np)
  /\ dealerNum < np \/ (np = 0 /\ dealerNum = 0)

LEMMA SeatsInvImplies == TypeOK /\ SeatsInv => SeatsInOrder
<1> SUFFICES ASSUME TypeOK, SeatsInv PROVE SeatsInOrder
  OBVIOUS
<1>1. Seated(np) \in SUBSET Pos /\ np \in Nat
  BY SeatedType, NAssumption DEF TypeOK
<1>2. \A i \in Pos : i \in Int
  BY NAssumption DEF Pos
<1>3. \A i \in Pos : i >= np <=> players[i] = Vacant
  BY <1>1, <1>2 DEF SeatsInv, InOrder, Vacant
<1>4. \A i, j \in Seated(np) : i < j => players[i].seatID < players[j].seatID
  BY <1>1, <1>2 DEF SeatsInv, InOrder, Seated
<1> QED BY <1>3, <1>4 DEF SeatsInv, SeatsInOrder

\* The players of S, arranged by a key that grows with the seat.
Arranged(ps, S, f) ==
  [k \in Pos |-> IF \E i \in S : RankBy(S, f, i) = k
                 THEN ps[CHOOSE i \in S : RankBy(S, f, i) = k]
                 ELSE Vacant]

LEMMA ArrangedInOrder ==
  ASSUME NEW ps \in Table, NEW S \in SUBSET Pos, NEW f,
         \A i \in S : f[i] \in Int /\ ps[i].seatID > 0,
         \A i, j \in S : i # j => f[i] # f[j],
         \A i, j \in S : f[i] < f[j] => ps[i].seatID < ps[j].seatID
  PROVE  InOrder(Arranged(ps, S, f), Cardinality(S))
<1> DEFINE qs == Arranged(ps, S, f)
           n == Cardinality(S)
           at(k) == CHOOSE i \in S : RankBy(S, f, i) = k
<1>1. IsFiniteSet(S) /\ n \in 0 .. N
  BY PosFinite
<1>2. Distinct(S, f) /\ \A i \in S : f[i] \in Int
  BY DEF Distinct
<1>3. ASSUME NEW k \in Pos, k < n
      PROVE  at(k) \in S /\ RankBy(S, f, at(k)) = k /\ qs[k] = ps[at(k)]
  <2>1. k \in 0 .. n - 1
    BY <1>1, <1>3, NAssumption DEF Pos
  <2>2. \E i \in S : RankBy(S, f, i) = k
    <3> HIDE DEF qs, at
    <3>1. \A l \in 0 .. Cardinality(S) - 1 : \E i \in S : RankBy(S, f, i) = l
      BY <1>1, <1>2, RankOnto
    <3> QED BY <2>1, <3>1
  <2> QED BY <2>2 DEF Arranged
<1>4. ASSUME NEW k \in Pos, ~(k < n) PROVE qs[k] = Vacant
  <2>1. \A i \in S : RankBy(S, f, i) \in 0 .. n - 1
    BY <1>1, RankBounds
  <2>2. ~\E i \in S : RankBy(S, f, i) = k
    BY <1>1, <1>4, <2>1, NAssumption DEF Pos
  <2> QED BY <2>2 DEF Arranged
<1> HIDE DEF qs, n, at
<1>5. ASSUME NEW i \in Pos, NEW j \in Pos, i < j, j < n PROVE qs[i].seatID < qs[j].seatID
  <2>1. i < n
    BY <1>1, <1>5, NAssumption DEF Pos
  <2>2. /\ at(i) \in S /\ RankBy(S, f, at(i)) = i /\ qs[i] = ps[at(i)]
        /\ at(j) \in S /\ RankBy(S, f, at(j)) = j /\ qs[j] = ps[at(j)]
    BY <1>3, <1>5, <2>1
  <2>3. f[at(j)] < f[at(i)] => j < i
    BY <1>1, <2>2, RankBounds
  <2>4. ~(f[at(j)] < f[at(i)]) /\ at(i) # at(j)
    BY <1>5, <2>2, <2>3, NAssumption DEF Pos
  <2>5. f[at(i)] < f[at(j)]
    BY <2>2, <2>4
  <2> QED BY <2>2, <2>5
<1> QED BY <1>3, <1>4, <1>5 DEF InOrder, qs, n

\* Removing seats keeps the others in order.
LEMMA CompactInOrder ==
  ASSUME NEW ps \in Table, NEW n, InOrder(ps, n), NEW S \in SUBSET Pos, \A i \in S : i < n
  PROVE  InOrder(Compact(ps, S), Cardinality(S))
<1> DEFINE f == [i \in Pos |-> i]
<1>1. \A i \in S : Rank(S, i) = RankBy(S, f, i)
  <2> SUFFICES ASSUME NEW i \in S PROVE {j \in S : j < i} = {j \in S : f[j] < f[i]}
    BY DEF Rank, RankBy
  <2> QED OBVIOUS
<1>2. Compact(ps, S) = Arranged(ps, S, f)
  BY <1>1 DEF Compact, Arranged
<1>3. \A i \in S : f[i] \in Int /\ f[i] = i
  BY NAssumption DEF Pos
<1>4. \A i \in S : ps[i].seatID > 0
  BY DEF InOrder
<1>5. \A i, j \in S : f[i] < f[j] => ps[i].seatID < ps[j].seatID
  BY <1>3 DEF InOrder
<1> HIDE DEF f
<1> QED BY <1>2, <1>3, <1>4, <1>5, ArrangedInOrder

LEMMA SeatedBelow ==
  ASSUME NEW n \in 0 .. N
  PROVE  /\ Seated(n) \in SUBSET Pos /\ Cardinality(Seated(n)) = n /\ IsFiniteSet(Seated(n))
         /\ \A i \in Pos : i \in Seated(n) <=> i < n
<1>1. n \in Nat /\ 0 \in Int /\ n - 1 \in Int
  BY NAssumption
<1>2. /\ IsFiniteSet(0 .. n - 1)
      /\ Cardinality(0 .. n - 1) = IF 0 > n - 1 THEN 0 ELSE (n - 1) - 0 + 1
  BY <1>1, FS_Interval
<1>3. Cardinality(0 .. n - 1) = n
  BY <1>1, <1>2
<1>4. Seated(n) \in SUBSET Pos /\ \A i \in Pos : i \in Seated(n) <=> i < n
  BY NAssumption DEF Seated, Pos
<1> QED BY <1>2, <1>3, <1>4 DEF Seated

\* Sorting puts players of different seats in order.
LEMMA BySeatInOrder ==
  ASSUME NEW ps \in Table, NEW n \in 0 .. N,
         \A i \in Seated(n) : ps[i].seatID > 0,
         \A i, j \in Seated(n) : i # j => ps[i].seatID # ps[j].seatID
  PROVE  InOrder(BySeat(ps, n), n)
<1> DEFINE f == [i \in Pos |-> ps[i].seatID]
<1>1. Seated(n) \in SUBSET Pos /\ Cardinality(Seated(n)) = n
  BY SeatedBelow
<1>2. ASSUME NEW i \in Seated(n) PROVE SeatRank(ps, n, i) = RankBy(Seated(n), f, i)
  <2>1. {j \in Seated(n) : ps[j].seatID < ps[i].seatID} = {j \in Seated(n) : f[j] < f[i]}
    BY <1>1
  <2> QED BY <2>1 DEF SeatRank, RankBy
<1>3. BySeat(ps, n) = Arranged(ps, Seated(n), f)
  BY <1>2 DEF BySeat, Arranged
<1>4. \A i \in Seated(n) : f[i] \in Int /\ f[i] = ps[i].seatID
  BY <1>1 DEF Table, Player
<1> HIDE DEF f
<1>5. InOrder(Arranged(ps, Seated(n), f), Cardinality(Seated(n)))
  BY <1>1, <1>4, ArrangedInOrder
<1> QED BY <1>1, <1>3, <1>5

(***************************************************************************)
(* Steps that leave everybody at their seat.                               *)
(***************************************************************************)

\* From ps to qs everybody keeps the seat, and vacant positions stay vacant.
SameSeats(ps, qs) ==
  \A i \in Pos : qs[i].seatID = ps[i].seatID /\ (ps[i] = Vacant => qs[i] = Vacant)

LEMMA SameSeatsInOrder ==
  ASSUME NEW ps, NEW qs, NEW n, InOrder(ps, n), SameSeats(ps, qs)
  PROVE  InOrder(qs, n)
BY DEF InOrder, SameSeats

LEMMA SameSeatsTrans ==
  ASSUME NEW ps, NEW qs, NEW rs, SameSeats(ps, qs), SameSeats(qs, rs)
  PROVE  SameSeats(ps, rs)
BY DEF SameSeats

\* A change of one player who is not vacant and keeps the seat.
LEMMA OnePlayerSameSeats ==
  ASSUME NEW ps \in Table, NEW pn \in Pos, ps[pn] # Vacant, NEW q, q.seatID = ps[pn].seatID
  PROVE  SameSeats(ps, [ps EXCEPT ![pn] = q])
<1>1. [ps EXCEPT ![pn] = q] = [i \in Pos |-> IF i = pn THEN q ELSE ps[i]]
  BY DEF Table
<1> QED BY <1>1 DEF SameSeats

\* Whoever is not in the hand wins nothing.
LEMMA OutWinsNothing ==
  ASSUME NEW total, NEW inHand, NEW allIns, NEW chipless, NEW sc, NEW left, NEW d, NEW n,
         NEW p, p \notin inHand
  PROVE  Winnings(AllPots(total, inHand, allIns, chipless), sc, left, d, n, p) = 0
<1> DEFINE pots == AllPots(total, inHand, allIns, chipless)
           f == [k \in 0 .. N |-> Award(pots[k], sc, left, d, n, p)]
<1>1. ASSUME NEW k \in 0 .. (N + 1) - 1 PROVE f[k] = 0
  <2>1. k \in 0 .. N
    BY NAssumption
  <2>2. p \notin pots[k].eligible
    BY <2>1 DEF AllPots, LastPot, Layer, EmptyPot
  <2> HIDE DEF pots
  <2>3. Award(pots[k], sc, left, d, n, p) = 0
    BY <2>2 DEF Award, Winners
  <2> QED BY <2>1, <2>3
<1>2. Sum(N + 1, f) = 0
  <2> HIDE DEF f
  <2> QED BY <1>1, SumZeros, NAssumption
<1> QED BY <1>2 DEF Winnings

LEMMA PayShowdownSameSeats ==
  ASSUME NEW ps \in Table, NEW allIns, NEW sc, NEW d, NEW n
  PROVE  SameSeats(ps, PayShowdown(ps, allIns, sc, d, n))
<1> DEFINE gain(i) == Winnings(AllPots(Totals(ps), InHand(ps), allIns, AllIns(ps)), sc, Left(ps), d, n, i)
<1>1. PayShowdown(ps, allIns, sc, d, n) = [i \in Pos |-> [ps[i] EXCEPT !.stack = @ + gain(i)]]
  BY DEF PayShowdown
<1>2. ASSUME NEW i \in Pos, ps[i] = Vacant PROVE gain(i) = 0
  <2>1. i \notin InHand(ps)
    BY <1>2 DEF InHand, Vacant
  <2> QED BY <2>1, OutWinsNothing
<1> HIDE DEF gain
<1>3. ASSUME NEW i \in Pos
      PROVE  LET q == [ps[i] EXCEPT !.stack = @ + gain(i)]
             IN  q.seatID = ps[i].seatID /\ (ps[i] = Vacant => q = Vacant)
  <2>1. ps[i] \in Player
    BY DEF Table
  <2>2. CASE ps[i] = Vacant
    <3>1. [ps[i] EXCEPT !.stack = @ + gain(i)] = [Vacant EXCEPT !.stack = @ + 0]
      BY <1>2, <2>2
    <3> QED BY <2>2, <3>1 DEF Vacant
  <2>3. CASE ps[i] # Vacant
    BY <2>1, <2>3 DEF Player
  <2> QED BY <2>2, <2>3
<1> QED BY <1>1, <1>3 DEF SameSeats

LEMMA EndingsSameSeats ==
  ASSUME NEW ps \in Table
  PROVE  /\ SameSeats(ps, ps) /\ SameSeats(ps, FoldDeparted(ps))
         /\ SameSeats(ps, PayLastPlayer(ps)) /\ SameSeats(ps, ClearStreet(ps))
         /\ SameSeats(ps, Settled(ps))
<1>1. ASSUME NEW i \in Pos PROVE ps[i] \in Player
  BY DEF Table
<1>2. SameSeats(ps, FoldDeparted(ps))
  BY <1>1 DEF SameSeats, FoldDeparted, Vacant, Player
<1>3. SameSeats(ps, PayLastPlayer(ps))
  <2> DEFINE pot == Sum(N, Totals(ps))
  <2>1. PayLastPlayer(ps) = [i \in Pos |-> IF ps[i].in /\ ~ps[i].left
                                           THEN [ps[i] EXCEPT !.stack = @ + pot] ELSE ps[i]]
    BY DEF PayLastPlayer
  <2> HIDE DEF pot
  <2> QED BY <1>1, <2>1 DEF SameSeats, Vacant, Player
<1>4. SameSeats(ps, ClearStreet(ps))
  <2>1. [Vacant EXCEPT !.bet = 0, !.called = FALSE] = Vacant
    <3>1. Vacant \in Player /\ ~Vacant.called /\ Vacant.bet = 0
      BY VacantType DEF Vacant
    <3> QED BY <3>1 DEF Player
  <2>2. ASSUME NEW p \in Player PROVE [p EXCEPT !.bet = 0, !.called = FALSE].seatID = p.seatID
    BY DEF Player
  <2> QED BY <1>1, <2>1, <2>2 DEF SameSeats, ClearStreet
<1>5. SameSeats(ps, ReturnUncalled(ps))
  <2>1. ASSUME NEW p \in Player, NEW amt PROVE ReturnChips(p, amt).seatID = p.seatID
    BY DEF ReturnChips, Player
  <2> QED BY <1>1, <2>1 DEF SameSeats, ReturnUncalled, Vacant
<1>6. SameSeats(ps, ps)
  BY DEF SameSeats
<1> QED BY <1>2, <1>3, <1>4, <1>5, <1>6 DEF Settled

LEMMA UpdateSameSeats ==
  ASSUME NEW before, before \in Table, NEW at, UpdateRoundInfo(before, at)
  PROVE  SameSeats(before, players')
<1> DEFINE ps == FoldDeparted(before)
<1>1. ps \in Table /\ SameSeats(before, ps)
  BY FoldDepartedKeeps, EndingsSameSeats
<1>2. Concede(ps, at) \/ MoveAction(ps, at) \/ ResolveShowdown(ps, at) \/ RunOut(ps, at)
      \/ DealStreet(ps, at) \/ FailToDeal(ps, at)
  BY DEF UpdateRoundInfo
<1> HIDE DEF ps
<1>3. CASE ResolveShowdown(ps, at)
  <2>1. PICK qs \in {Settled(ps)} : players' = PayShowdown(qs, AllIns(ps), score', dealerNum, np)
    BY <1>3 DEF ResolveShowdown
  <2>2. qs \in Table /\ SameSeats(ps, qs)
    BY <1>1, <2>1, SettledKeeps, EndingsSameSeats
  <2>3. SameSeats(qs, players')
    BY <2>1, <2>2, PayShowdownSameSeats
  <2> QED BY <1>1, <2>2, <2>3, SameSeatsTrans
<1>4. CASE ~ResolveShowdown(ps, at)
  <2>1. SameSeats(ps, players')
    BY <1>1, <1>2, <1>4, EndingsSameSeats DEF Concede, MoveAction, RunOut, DealStreet, FailToDeal
  <2> QED BY <1>1, <2>1, SameSeatsTrans
<1> QED BY <1>3, <1>4

\* What such a step keeps.
LEMMA SameSeatsKeeps ==
  ASSUME SeatsInv, SameSeats(players, players'), np' = np,
         dealerNum' = dealerNum \/ dealerNum' < np
  PROVE  SeatsInv'
<1>1. InOrder(players', np)
  BY SameSeatsInOrder DEF SeatsInv
<1> QED BY <1>1 DEF SeatsInv, InOrder

\* Nobody sits behind the last player.
LEMMA SeatedNotVacant ==
  ASSUME TypeOK, SeatsInv
  PROVE  /\ \A i \in Pos : i < np <=> players[i] # Vacant
         /\ \A i \in Ready(players) : i < np
         /\ \A i \in InHand(players) : i < np
         /\ \A i \in Seated(np) : i \in Pos /\ i < np
<1>1. ASSUME NEW i \in Pos PROVE i < np <=> players[i] # Vacant
  BY DEF SeatsInv, InOrder, Vacant
<1>2. \A i \in Seated(np) : i \in Pos /\ i < np
  BY SeatedType, NAssumption DEF Seated, TypeOK
<1> QED BY <1>1, <1>2 DEF Ready, InHand, Vacant

(***************************************************************************)
(* The steps of a hand.                                                    *)
(***************************************************************************)

\* A bet is made by somebody at the table.
LEMMA WagerSameSeats ==
  ASSUME NEW ps \in Table, NEW pn \in Pos, ps[pn] # Vacant, NEW amt \in Nat
  PROVE  /\ Wager(ps, pn, amt) \in Table
         /\ SameSeats(ps, Wager(ps, pn, amt))
         /\ SameSeats(ps, [ps EXCEPT ![pn] = PutInChips(@, amt)])
         /\ [ps EXCEPT ![pn] = PutInChips(@, amt)] \in Table
<1> DEFINE q == PutInChips(ps[pn], amt)
           c == [q EXCEPT !.called = TRUE]
<1>1. q \in Player /\ q.seatID = ps[pn].seatID
  BY PutInChipsKeeps DEF Table, PutInChips, Player
<1> HIDE DEF q
<1>2. c \in Player /\ c.seatID = ps[pn].seatID
  BY <1>1 DEF Player
<1>3. Wager(ps, pn, amt) = [ps EXCEPT ![pn] = c]
  BY DEF Wager, Table, q
<1>4. [ps EXCEPT ![pn] = PutInChips(@, amt)] = [ps EXCEPT ![pn] = q]
  BY DEF Table, q
<1> HIDE DEF c
<1>5. SameSeats(ps, [ps EXCEPT ![pn] = c]) /\ SameSeats(ps, [ps EXCEPT ![pn] = q])
  BY <1>1, <1>2, OnePlayerSameSeats
<1>6. [ps EXCEPT ![pn] = c] \in Table /\ [ps EXCEPT ![pn] = q] \in Table
  BY <1>1, <1>2 DEF Table
<1> QED BY <1>3, <1>4, <1>5, <1>6

LEMMA CallSeats ==
  ASSUME IInv, SeatsInv, NEW pn \in Seated(np), NEW amt \in Nat,
         Call(pn, amt) \/ ShortRaise(pn, amt)
  PROVE  SeatsInv'
<1>1. players \in Table /\ pn \in Pos /\ players[pn] # Vacant
  BY SeatedNotVacant DEF IInv, TypeOK, Table
<1>2. UpdateRoundInfo(Wager(players, pn, amt), Now) /\ np' = np /\ dealerNum' = dealerNum
  BY DEF Call, ShortRaise
<1>3. SameSeats(players, Wager(players, pn, amt)) /\ Wager(players, pn, amt) \in Table
  BY <1>1, WagerSameSeats
<1>4. SameSeats(players, players')
  BY <1>2, <1>3, UpdateSameSeats, SameSeatsTrans
<1> QED BY <1>2, <1>4, SameSeatsKeeps

LEMMA RaiseSeats ==
  ASSUME IInv, SeatsInv, NEW pn \in Seated(np), NEW amt \in Nat, Raise(pn, amt)
  PROVE  SeatsInv'
<1> DEFINE reopened == [i \in Pos |-> [players[i] EXCEPT !.called = FALSE]]
           at == [Now EXCEPT !.minRaise = amt - Owed(pn)]
<1>1. players \in Table /\ pn \in Pos /\ players[pn] # Vacant /\ players[pn].in
  BY SeatedNotVacant DEF IInv, TypeOK, Table, Raise, OnTurn
<1>2. UpdateRoundInfo(Wager(reopened, pn, amt), at) /\ np' = np /\ dealerNum' = dealerNum
  BY DEF Raise
<1>3. reopened \in Table /\ SameSeats(players, reopened) /\ reopened[pn] # Vacant
  <2>1. ASSUME NEW i \in Pos
        PROVE  LET q == [players[i] EXCEPT !.called = FALSE]
               IN  /\ q \in Player /\ q.seatID = players[i].seatID /\ q.in = players[i].in
                   /\ players[i] = Vacant => q = Vacant
    <3>1. players[i] \in Player /\ ~Vacant.called
      BY <1>1 DEF Table, Vacant
    <3>2. ASSUME players[i] = Vacant PROVE [players[i] EXCEPT !.called = FALSE] = Vacant
      <4>1. players[i].called = FALSE
        BY <3>2 DEF Vacant
      <4> QED BY <3>1, <3>2, <4>1 DEF Player
    <3> QED BY <3>1, <3>2 DEF Player
  <2>2. reopened[pn].in /\ ~Vacant.in
    BY <1>1, <2>1 DEF Vacant
  <2> QED BY <2>1, <2>2 DEF SameSeats, Table
<1> HIDE DEF reopened, at
<1>4. SameSeats(players, Wager(reopened, pn, amt)) /\ Wager(reopened, pn, amt) \in Table
  BY <1>1, <1>3, WagerSameSeats, SameSeatsTrans
<1>5. SameSeats(players, players')
  BY <1>2, <1>4, UpdateSameSeats, SameSeatsTrans
<1> QED BY <1>2, <1>5, SameSeatsKeeps

LEMMA FoldSeats ==
  ASSUME IInv, SeatsInv, NEW pn \in Seated(np), Fold(pn) PROVE SeatsInv'
<1> DEFINE q == [players[pn] EXCEPT !.in = FALSE, !.ready = TRUE]
           qs == [players EXCEPT ![pn] = q]
<1>1. players \in Table /\ pn \in Pos /\ players[pn] # Vacant
  BY SeatedNotVacant DEF IInv, TypeOK, Table
<1>2. q \in Player /\ q.seatID = players[pn].seatID
  BY <1>1 DEF Table, Player
<1>3. UpdateRoundInfo([players EXCEPT ![pn].in = FALSE, ![pn].ready = TRUE], Now)
      /\ np' = np /\ dealerNum' = dealerNum
  BY DEF Fold
<1>4. [players EXCEPT ![pn].in = FALSE, ![pn].ready = TRUE] = qs
  BY <1>1 DEF Table, Player
<1>5. qs \in Table
  BY <1>1, <1>2 DEF Table
<1> HIDE DEF q
<1>6. SameSeats(players, qs)
  BY <1>1, <1>2, OnePlayerSameSeats
<1> HIDE DEF qs
<1>7. SameSeats(players, players')
  BY <1>3, <1>4, <1>5, <1>6, UpdateSameSeats, SameSeatsTrans
<1> QED BY <1>3, <1>7, SameSeatsKeeps

\* Leaving during a hand: a button passed on goes to somebody ready.
LEMMA LeaveHandSeats ==
  ASSUME IInv, SeatsInv, NEW pn \in Seated(np), LeaveHand(pn) PROVE SeatsInv'
<1> DEFINE g == [players[pn] EXCEPT !.left = TRUE]
           o == [g EXCEPT !.in = FALSE, !.ready = FALSE]
           gone == [players EXCEPT ![pn] = g]
           out  == [players EXCEPT ![pn] = o]
<1>1. players \in Table /\ pn \in Pos /\ players[pn] # Vacant /\ dealerNum \in Pos /\ np \in 0 .. N
  BY SeatedNotVacant DEF IInv, TypeOK, Table
<1>2. /\ g \in Player /\ g.seatID = players[pn].seatID
      /\ o \in Player /\ o.seatID = players[pn].seatID /\ ~o.ready
  BY <1>1 DEF Table, Player
<1>3. /\ [players EXCEPT ![pn].left = TRUE] = gone
      /\ [gone EXCEPT ![pn].in = FALSE, ![pn].ready = FALSE] = out
  BY <1>1 DEF Table, Player
<1>4. np' = np /\
      \/ UpdateRoundInfo(out, Now) /\ dealerNum' = dealerNum
      \/ players' = gone /\ dealerNum' = dealerNum
      \/ players' = out /\ (dealerNum' = dealerNum \/ dealerNum' = PassButton(out, pn))
  <2> HIDE DEF out, g, o
  <2> QED BY <1>3 DEF LeaveHand, gone
<1> HIDE DEF g, o
<1>5. SameSeats(players, gone) /\ SameSeats(players, out) /\ out \in Table
  BY <1>1, <1>2, OnePlayerSameSeats DEF Table
<1>6. PassButton(out, pn) = dealerNum \/ PassButton(out, pn) < np
  <2>1. Ready(out) \in SUBSET Ready(players)
    BY <1>1, <1>2 DEF Ready, Table
  <2>2. \A i \in Ready(out) : i < np
    BY <2>1, SeatedNotVacant DEF IInv
  <2>3. Ready(out) # {} => NextFrom(dealerNum, np, Ready(out)) \in Ready(out)
    BY <1>1, NextFromType, NAssumption DEF Ready, Pos
  <2> QED BY <2>2, <2>3 DEF PassButton, NextFrom
<1> HIDE DEF gone, out
<1>7. SameSeats(players, players')
  BY <1>4, <1>5, UpdateSameSeats, SameSeatsTrans
<1> QED BY <1>4, <1>6, <1>7, SameSeatsKeeps

LEMMA RunoutSeats == ASSUME IInv, SeatsInv, RunoutNext PROVE SeatsInv'
<1>1. players \in Table /\ np' = np /\ dealerNum' = dealerNum
      /\ (UpdateRoundInfo(players, Now) \/ players' = players)
  BY DEF IInv, TypeOK, Table, RunoutNext
<1>2. SameSeats(players, players')
  BY <1>1, UpdateSameSeats, EndingsSameSeats
<1> QED BY <1>1, <1>2, SameSeatsKeeps

\* The blinds are posted by somebody seated: heads-up by the button.
LEMMA StartSeats == ASSUME IInv, SeatsInv, Start PROVE SeatsInv'
<1> DEFINE dealtIn == [i \in Pos |-> [players[i] EXCEPT !.bet = 0, !.called = FALSE,
                                        !.in = @ \/ players[i].ready]]
           sb == SmallBlindNum
           bb == BigBlindNum
           small == [dealtIn EXCEPT ![sb] = PutInChips(@, SmallBlind)]
           at == [action |-> UnderTheGun, stage |-> PreFlop, betting |-> TRUE,
                  minRaise |-> BigBlind, board |-> 0]
<1>1. /\ players \in Table /\ TypeOK /\ dealerNum \in Pos /\ np \in 0 .. N
      /\ SmallBlind \in Nat /\ BigBlind \in Nat /\ Cardinality(Ready(players)) >= 2
  BY ConfigAssumption DEF IInv, TypeOK, Table, Start
<1>2. Ready(players) \in SUBSET Pos /\ Ready(players) # {}
  <2>1. Ready(players) \in SUBSET Pos /\ Cardinality(Ready(players)) \in Nat
    BY PosFinite, NAssumption DEF Ready
  <2> QED BY <1>1, <2>1, FS_EmptySet
<1>3. sb \in Pos /\ bb \in Pos /\ players[sb] # Vacant /\ players[bb] # Vacant
  <2>1. sb \in Pos /\ bb \in Pos
    BY <1>1, BlindsType
  <2>2. \A a \in Pos : NextFrom(After(a, np), np, Ready(players)) \in Ready(players)
    BY <1>1, <1>2, CursorType
  <2>3. np > 0 /\ dealerNum < np
    <3>1. np > 0
      BY <1>1, <1>2, SeatedNotVacant, NAssumption DEF Pos
    <3> QED BY <3>1 DEF SeatsInv
  <2>4. sb = dealerNum \/ sb \in Ready(players)
    BY <1>1, <2>2 DEF SmallBlindNum
  <2>5. bb \in Ready(players)
    BY <2>1, <2>2 DEF BigBlindNum
  <2>6. sb < np /\ bb < np
    BY <1>1, <2>3, <2>4, <2>5, SeatedNotVacant
  <2> HIDE DEF sb, bb
  <2> QED BY <1>1, <2>1, <2>6, SeatedNotVacant
<1>4. dealtIn \in Table /\ SameSeats(players, dealtIn)
  <2>1. ASSUME NEW i \in Pos
        PROVE  LET q == [players[i] EXCEPT !.bet = 0, !.called = FALSE, !.in = @ \/ players[i].ready]
               IN  /\ q \in Player /\ q.seatID = players[i].seatID
                   /\ players[i] = Vacant => q = Vacant
    <3>1. players[i] \in Player /\ (players[i].in \/ players[i].ready) \in BOOLEAN
      BY <1>1 DEF Table
    <3>2. ASSUME players[i] = Vacant
          PROVE  [players[i] EXCEPT !.bet = 0, !.called = FALSE, !.in = @ \/ players[i].ready] = Vacant
      <4>1. players[i].bet = 0 /\ players[i].called = FALSE
        BY <3>2 DEF Vacant
      <4>2. players[i].in = FALSE /\ players[i].ready = FALSE
        BY <3>2 DEF Vacant
      <4>3. players[i].in = (players[i].in \/ players[i].ready)
        BY <4>2
      <4> QED BY <3>1, <3>2, <4>1, <4>3 DEF Player
    <3> QED BY <3>1, <3>2 DEF Player
  <2> QED BY <2>1 DEF SameSeats, Table
<1>5. dealtIn[sb] # Vacant /\ dealtIn[bb] # Vacant
  <2>1. \A i \in Pos : players[i] # Vacant => dealtIn[i].seatID > 0
    BY <1>1, <1>4, SeatedNotVacant DEF SameSeats, SeatsInv, InOrder
  <2> HIDE DEF dealtIn, sb, bb
  <2> QED BY <1>3, <2>1 DEF Vacant
<1> HIDE DEF dealtIn, sb, bb
<1>6. small \in Table /\ SameSeats(players, small) /\ small[bb] # Vacant
  <2>1. small \in Table /\ SameSeats(dealtIn, small)
    BY <1>1, <1>3, <1>4, <1>5, WagerSameSeats
  <2>2. small[bb].seatID = dealtIn[bb].seatID /\ dealtIn[bb].seatID > 0
    BY <1>1, <1>3, <1>4, <2>1, SeatedNotVacant DEF SameSeats, SeatsInv, InOrder
  <2> HIDE DEF small
  <2> QED BY <1>4, <2>1, <2>2, SameSeatsTrans DEF Vacant
<1> HIDE DEF small
<1>7. DealIn = [small EXCEPT ![bb] = PutInChips(@, BigBlind)]
  BY DEF DealIn, small, dealtIn, sb, bb
<1>8. DealIn \in Table /\ SameSeats(players, DealIn)
  BY <1>1, <1>3, <1>6, <1>7, WagerSameSeats, SameSeatsTrans
<1>9. UpdateRoundInfo(DealIn, at) /\ np' = np /\ dealerNum' = dealerNum
  BY DEF Start
<1> HIDE DEF at
<1>10. SameSeats(players, players')
  BY <1>8, <1>9, UpdateSameSeats, SameSeatsTrans
<1> QED BY <1>9, <1>10, SameSeatsKeeps

\* A rebuy.
LEMMA RebuySeats ==
  ASSUME IInv, SeatsInv, NEW pn \in Seated(np), NEW amt \in Nat,
         Rebuy(pn, amt) \/ UndoRebuy(pn)
  PROVE  SeatsInv'
<1>1. players \in Table /\ pn \in Pos /\ players[pn] # Vacant
  BY SeatedNotVacant DEF IInv, TypeOK, Table
<1>2. np' = np /\ dealerNum' = dealerNum
  BY DEF Rebuy, UndoRebuy
<1>3. \E q : q.seatID = players[pn].seatID /\ players' = [players EXCEPT ![pn] = q]
  <2> DEFINE p == players[pn]
             later == [p EXCEPT !.pendingBuyIn = @ + amt, !.totalBuyIn = @ + amt]
             now   == [p EXCEPT !.stack = @ + amt, !.totalBuyIn = @ + amt]
             undone == [p EXCEPT !.stack = @ - BuyIn, !.totalBuyIn = @ - AtMost(BuyIn, @)]
  <2>1. later.seatID = p.seatID /\ now.seatID = p.seatID /\ undone.seatID = p.seatID
    BY <1>1 DEF Table, Player
  <2>2. \/ players' = [players EXCEPT ![pn] = later]
        \/ players' = [players EXCEPT ![pn] = now]
        \/ players' = [players EXCEPT ![pn] = undone]
    <3>1. CASE Rebuy(pn, amt)
      BY <1>1, <3>1 DEF Rebuy, Table, Player
    <3>2. CASE UndoRebuy(pn)
      BY <1>1, <3>2 DEF UndoRebuy, Table, Player
    <3> QED BY <3>1, <3>2
  <2> HIDE DEF later, now, undone
  <2> QED BY <2>1, <2>2
<1>4. SameSeats(players, players')
  BY <1>1, <1>3, OnePlayerSameSeats
<1> QED BY <1>2, <1>4, SameSeatsKeeps

(***************************************************************************)
(* Between hands.                                                          *)
(***************************************************************************)

\* Getting ready or not: a button passed on goes to somebody ready.
LEMMA ToggleReadySeats ==
  ASSUME IInv, SeatsInv, NEW pn \in Seated(np), ToggleReady(pn) PROVE SeatsInv'
<1> DEFINE q == [players[pn] EXCEPT !.ready = ~@, !.in = FALSE, !.left = FALSE]
<1>1. players \in Table /\ pn \in Pos /\ players[pn] # Vacant /\ dealerNum \in Pos /\ np \in 0 .. N
  BY SeatedNotVacant DEF IInv, TypeOK, Table
<1>2. players' = [players EXCEPT ![pn] = q]
  BY <1>1 DEF ToggleReady, Table, Player
<1>3. q.seatID = players[pn].seatID
  BY <1>1 DEF Table, Player
<1> HIDE DEF q
<1>4. SameSeats(players, players')
  BY <1>1, <1>2, <1>3, OnePlayerSameSeats
<1>5. \A i \in Ready(players') : i < np
  <2>1. InOrder(players', np)
    BY <1>4, SameSeatsInOrder DEF SeatsInv
  <2>2. ~Vacant.ready
    BY DEF Vacant
  <2> QED BY <2>1, <2>2 DEF InOrder, Ready
<1>6. Ready(players') # {} => NextFrom(dealerNum, np, Ready(players')) \in Ready(players')
  BY <1>1, NextFromType, NAssumption DEF Ready, Pos
<1>7. np' = np /\ dealerNum' = PassButton(players', pn)
  BY DEF ToggleReady
<1>8. dealerNum' = dealerNum \/ dealerNum' < np
  BY <1>5, <1>6, <1>7 DEF PassButton, NextFrom
<1> QED BY <1>4, <1>7, <1>8, SameSeatsKeeps

\* A newcomer takes a seat nobody has, and the table is sorted again.
LEMMA SeatPlayerSeats ==
  ASSUME IInv, SeatsInv, NEW s \in 1 .. N, NEW ready \in BOOLEAN, SeatPlayer(s, ready)
  PROVE  SeatsInv'
<1> DEFINE p == [Vacant EXCEPT !.seatID = s, !.ready = ready,
                               !.stack = BuyIn, !.totalBuyIn = BuyIn]
           ps == [players EXCEPT ![np] = p]
<1>1. /\ players \in Table /\ np \in 0 .. N /\ np < N /\ np' = np + 1 /\ np \in Pos
      /\ dealerNum' = dealerNum /\ dealerNum \in Pos /\ FreeSeat(s) /\ s \in Nat /\ s > 0
  <2>1. players \in Table /\ np \in 0 .. N /\ dealerNum \in Pos /\ s \in Nat /\ s > 0
    BY NAssumption DEF IInv, TypeOK, Table
  <2>2. np < N /\ np' = np + 1 /\ dealerNum' = dealerNum /\ FreeSeat(s)
    BY DEF SeatPlayer
  <2> QED BY <2>1, <2>2, NAssumption DEF Pos
<1>2. players' = BySeat(ps, np + 1)
  BY DEF SeatPlayer
<1>3. p \in Player /\ p.seatID = s
  BY <1>1, ConfigAssumption DEF Vacant, Player
<1> HIDE DEF p
<1>4. ps \in Table /\ \A i \in Pos : ps[i] = IF i = np THEN p ELSE players[i]
  BY <1>1, <1>3 DEF Table
<1>5. ASSUME NEW i \in Seated(np + 1)
      PROVE  /\ i \in Pos /\ (i # np => i \in Seated(np) /\ i < np)
             /\ ps[i].seatID = (IF i = np THEN s ELSE players[i].seatID)
  <2>1. i \in Pos /\ (i # np => i \in Seated(np) /\ i < np)
    BY <1>1, NAssumption DEF Seated, Pos
  <2> QED BY <1>3, <1>4, <2>1
<1> HIDE DEF ps
<1>6. \A i \in Seated(np + 1) : ps[i].seatID > 0
  BY <1>1, <1>5 DEF SeatsInv, InOrder
<1>7. ASSUME NEW i \in Seated(np + 1), NEW j \in Seated(np + 1), i # j
      PROVE  ps[i].seatID # ps[j].seatID
  <2>1. i \in Int /\ j \in Int
    BY <1>5, NAssumption DEF Pos
  <2>2. CASE i = np \/ j = np
    BY <1>1, <1>5, <1>7, <2>2 DEF FreeSeat
  <2>3. CASE i # np /\ j # np
    <3>1. i < j \/ j < i
      BY <1>7, <2>1
    <3>2. players[i].seatID \in Nat /\ players[j].seatID \in Nat
      BY <1>1, <1>5 DEF Table, Player
    <3>3. players[i].seatID < players[j].seatID \/ players[j].seatID < players[i].seatID
      BY <1>5, <2>3, <3>1 DEF SeatsInv, InOrder
    <3> QED BY <1>5, <2>3, <3>2, <3>3
  <2> QED BY <2>2, <2>3
<1>8. np + 1 \in 0 .. N
  BY <1>1, NAssumption
<1>9. InOrder(players', np + 1)
  BY <1>2, <1>4, <1>6, <1>7, <1>8, BySeatInOrder
<1>10. dealerNum < np + 1
  BY <1>1, NAssumption DEF SeatsInv, Pos
<1> QED BY <1>1, <1>9, <1>10 DEF SeatsInv

LEMMA MoveSeatSeats ==
  ASSUME IInv, SeatsInv, NEW pn \in Seated(np), NEW s \in 1 .. N, MoveSeat(pn, s)
  PROVE  SeatsInv'
<1> DEFINE q  == [players[pn] EXCEPT !.seatID = s]
           ps == [players EXCEPT ![pn].seatID = s]
<1>1. /\ players \in Table /\ np \in 0 .. N /\ np' = np /\ pn \in Pos
      /\ dealerNum' = dealerNum /\ dealerNum \in Pos /\ FreeSeat(s) /\ s \in Nat /\ s > 0
  BY SeatedNotVacant, NAssumption DEF IInv, TypeOK, Table, MoveSeat
<1>2. players' = BySeat(ps, np)
  BY DEF MoveSeat
<1>3. q \in Player /\ q.seatID = s
  BY <1>1 DEF Table, Player
<1>4. ps = [i \in Pos |-> IF i = pn THEN q ELSE players[i]]
  BY <1>1 DEF Table, Player
<1> HIDE DEF q, ps
<1>5. ps \in Table
  BY <1>1, <1>3, <1>4 DEF Table
<1>6. ASSUME NEW i \in Seated(np)
      PROVE  /\ i \in Pos /\ i < np
             /\ ps[i].seatID = (IF i = pn THEN s ELSE players[i].seatID)
  <2>1. i \in Pos /\ i < np
    BY SeatedNotVacant DEF IInv
  <2> QED BY <1>3, <1>4, <2>1
<1>7. \A i \in Seated(np) : ps[i].seatID > 0
  BY <1>1, <1>6 DEF SeatsInv, InOrder
<1>8. ASSUME NEW i \in Seated(np), NEW j \in Seated(np), i # j
      PROVE  ps[i].seatID # ps[j].seatID
  <2>1. i \in Int /\ j \in Int
    BY <1>6, NAssumption DEF Pos
  <2>2. CASE i = pn \/ j = pn
    BY <1>1, <1>6, <1>8, <2>2 DEF FreeSeat
  <2>3. CASE i # pn /\ j # pn
    <3>1. i < j \/ j < i
      BY <1>8, <2>1
    <3>2. players[i].seatID \in Nat /\ players[j].seatID \in Nat
      BY <1>1, <1>6 DEF Table, Player
    <3>3. players[i].seatID < players[j].seatID \/ players[j].seatID < players[i].seatID
      BY <1>6, <2>3, <3>1 DEF SeatsInv, InOrder
    <3> QED BY <1>6, <2>3, <3>2, <3>3
  <2> QED BY <2>2, <2>3
<1>9. InOrder(players', np)
  BY <1>1, <1>2, <1>5, <1>7, <1>8, BySeatInOrder
<1> QED BY <1>1, <1>9 DEF SeatsInv

LEMMA ResetSeats == ASSUME Reset PROVE SeatsInv'
<1>1. Vacant.seatID = 0 /\ \A i \in Pos : i \in Nat
  BY NAssumption DEF Vacant, Pos
<1>2. players' = [i \in Pos |-> Vacant] /\ np' = 0 /\ dealerNum' = 0
  BY DEF Reset
<1>3. InOrder(players', 0)
  BY <1>1, <1>2 DEF InOrder
<1> QED BY <1>2, <1>3 DEF SeatsInv

\* The rank of a kept position is a position of the smaller table.
LEMMA RankBelow ==
  ASSUME NEW S \in SUBSET Pos, NEW i \in S
  PROVE  Rank(S, i) < Cardinality(S)
<1> DEFINE f == [k \in Pos |-> k]
<1>1. \A k \in S : f[k] \in Int
  BY NAssumption DEF Pos
<1>2. {j \in S : j < i} = {j \in S : f[j] < f[i]}
  OBVIOUS
<1>3. Rank(S, i) = RankBy(S, f, i)
  BY <1>2 DEF Rank, RankBy
<1> HIDE DEF f
<1>4. IsFiniteSet(S) /\ Cardinality(S) \in Nat
  BY PosFinite, NAssumption
<1>5. RankBy(S, f, i) \in 0 .. Cardinality(S) - 1
  BY <1>1, <1>4, RankBounds
<1> QED BY <1>3, <1>4, <1>5

\* Whoever stays keeps the order; a button whose holder goes starts over.
LEMMA DropSeats ==
  ASSUME IInv, SeatsInv, NEW pn \in Seated(np), NEW d \in Pos, Drop(pn, d),
         SameSeats(Compact(players, Stay(pn)), players')
  PROVE  SeatsInv'
<1>1. /\ players \in Table /\ np \in 0 .. N /\ pn \in Pos /\ pn < np
      /\ np' = np - 1 /\ dealerNum' = Shift(Stay(pn), d)
  BY SeatedNotVacant DEF IInv, TypeOK, Table, Drop
<1>2. /\ Seated(np) \in SUBSET Pos /\ Cardinality(Seated(np)) = np /\ IsFiniteSet(Seated(np))
      /\ \A i \in Pos : i \in Seated(np) <=> i < np
  BY <1>1, SeatedBelow
<1>3. Stay(pn) \in SUBSET Pos /\ Cardinality(Stay(pn)) = np - 1 /\ \A i \in Stay(pn) : i < np
  BY <1>2, FS_RemoveElement DEF Stay
<1>4. InOrder(Compact(players, Stay(pn)), np - 1)
  BY <1>1, <1>3, CompactInOrder DEF SeatsInv
<1>5. InOrder(players', np - 1)
  BY <1>4, SameSeatsInOrder
<1>6. Shift(Stay(pn), d) = 0 \/ Shift(Stay(pn), d) < np - 1
  BY <1>3, RankBelow DEF Shift
<1>7. np - 1 > 0 \/ np - 1 = 0
  BY <1>1, NAssumption DEF Pos
<1>8. Shift(Stay(pn), d) \in Nat
  BY <1>3, ShiftType, NAssumption DEF Pos
<1> QED BY <1>1, <1>5, <1>6, <1>7, <1>8 DEF SeatsInv

LEMMA GoneSeats ==
  ASSUME IInv, SeatsInv, NEW pn \in Seated(np), LeaveTable(pn) \/ Spectate(pn) \/ Bust(pn)
  PROVE  SeatsInv'
<1> DEFINE d == IF players[pn].ready
                THEN PassButton([players EXCEPT ![pn].ready = FALSE], pn)
                ELSE dealerNum
           seats == Compact(players, Stay(pn))
<1>1. players \in Table /\ Stay(pn) \in SUBSET Pos /\ d \in Pos /\ dealerNum \in Pos
  BY PassButtonType, SeatedType DEF IInv, TypeOK, Table, Stay
<1>2. seats \in Table
  BY <1>1, CompactCleared
<1>3. SameSeats(seats, seats) /\ SameSeats(seats, Pause(seats))
  <2>1. ASSUME NEW p \in Player
        PROVE  Unready(p).seatID = p.seatID /\ (p = Vacant => Unready(p) = Vacant)
    <3>1. ~Vacant.ready /\ ~Vacant.in /\ Vacant.bet = 0 /\ Vacant.totalBet = 0
      BY DEF Vacant
    <3> QED BY <3>1 DEF Unready, Player
  <2> HIDE DEF seats
  <2> QED BY <1>2, <2>1 DEF SameSeats, Pause, Table
<1>4. CASE Reset
  BY <1>4, ResetSeats
<1>5. \/ Reset
      \/ players' = Pause(seats) /\ (Drop(pn, d) \/ Drop(pn, dealerNum))
      \/ players' = seats /\ Drop(pn, dealerNum)
  BY DEF LeaveTable, Spectate, Bust, DropAndPause
<1> HIDE DEF d
<1> QED BY <1>1, <1>3, <1>4, <1>5, DropSeats

\* resetForNextHand drops who left, and the button goes to somebody who stays.
LEMMA SettleShowdownSeats ==
  ASSUME IInv, SeatsInv, SettleShowdown PROVE SeatsInv'
<1> DEFINE keep   == Seated(np) \ Left(players)
           seats  == Compact(players, keep)
           funded == [i \in Pos |-> Credit(seats[i])]
           n      == Cardinality(keep)
           Pausing(p) == [Unready(p) EXCEPT !.called = FALSE]
           Going(p)   == [Unready(p) EXCEPT !.ready = p.ready]
<1>1. players \in Table /\ np \in 0 .. N /\ keep \in SUBSET Pos /\ \A i \in keep : i < np
  BY SeatedNotVacant DEF IInv, TypeOK, Table
<1>2. /\ np' = n
      /\ \/ n = 0 /\ players' = seats /\ dealerNum' = 0
         \/ /\ n > 0 /\ players' = [i \in Pos |-> Pausing(funded[i])]
            /\ dealerNum' = Rank(keep, NextButton)
         \/ /\ n > 0 /\ players' = [i \in Pos |-> Going(funded[i])]
            /\ dealerNum' = NextFrom(Rank(keep, NextButton), n, Ready(players'))
  BY DEF SettleShowdown
<1>3. n \in 0 .. N
  BY <1>1, PosFinite
<1>4. InOrder(seats, n)
  BY <1>1, CompactInOrder DEF SeatsInv
<1>5. seats \in Table
  BY <1>1, CompactCleared
<1>6. n > 0 => NextButton \in keep
  <2> SUFFICES ASSUME n > 0 PROVE NextButton \in keep
    OBVIOUS
  <2>1. keep # {}
    BY FS_EmptySet
  <2>2. dealerNum \in Pos
    BY DEF IInv, TypeOK
  <2> QED BY <1>1, <2>1, <2>2, CursorType DEF NextButton, IInv
<1>7. n > 0 => Rank(keep, NextButton) \in Pos /\ Rank(keep, NextButton) < n
  BY <1>1, <1>6, RankType, RankBelow
<1> HIDE DEF n, keep, seats
<1>8. SameSeats(seats, funded) /\ funded \in Table
  <2>1. ASSUME NEW p \in Player
        PROVE  /\ Credit(p) \in Player /\ Credit(p).seatID = p.seatID
               /\ p = Vacant => Credit(p) = Vacant
    <3>1. Vacant.stack = 0 /\ Vacant.pendingBuyIn = 0 /\ p.stack + p.pendingBuyIn \in Nat
      BY DEF Player, Vacant
    <3>2. p = Vacant => p.stack + p.pendingBuyIn = p.stack /\ p.pendingBuyIn = 0
      BY <3>1
    <3> QED BY <3>1, <3>2 DEF Credit, Player
  <2> QED BY <1>5, <2>1 DEF SameSeats, Table
<1> HIDE DEF funded
<1>9. ASSUME NEW p \in Player
      PROVE  /\ Pausing(p).seatID = p.seatID /\ (p = Vacant => Pausing(p) = Vacant)
             /\ Going(p).seatID = p.seatID /\ (p = Vacant => Going(p) = Vacant)
  <2>1. /\ Unready(p) \in Player /\ Unready(p).seatID = p.seatID
        /\ Unready(p).called = p.called
        /\ p = Vacant => Unready(p) = Vacant
    <3>1. ~Vacant.ready /\ ~Vacant.in /\ Vacant.bet = 0 /\ Vacant.totalBet = 0
      BY DEF Vacant
    <3> QED BY <3>1 DEF Unready, Player
  <2>2. ~Vacant.called /\ ~Vacant.ready /\ p.ready \in BOOLEAN /\ p.called \in BOOLEAN
    BY DEF Vacant, Player
  <2>3. ASSUME NEW q \in Player, q.called = FALSE PROVE [q EXCEPT !.called = FALSE] = q
    BY <2>3 DEF Player
  <2>4. ASSUME NEW q \in Player PROVE [q EXCEPT !.ready = q.ready] = q
    BY <2>4 DEF Player
  <2>5. p = Vacant => Pausing(p) = Vacant
    <3>1. p = Vacant => Unready(p).called = FALSE
      BY <2>1, <2>2
    <3> QED BY <2>1, <2>3, <3>1
  <2>6. p = Vacant => Going(p) = Vacant
    <3>1. p = Vacant => Unready(p).ready = p.ready
      BY <2>1
    <3> QED BY <2>1, <2>4, <3>1
  <2>7. Pausing(p).seatID = p.seatID /\ Going(p).seatID = p.seatID
    <3> DEFINE u == Unready(p)
    <3> HIDE DEF u
    <3>1. u \in Player /\ u.seatID = p.seatID
      BY <2>1 DEF u
    <3>2. [u EXCEPT !.called = FALSE].seatID = p.seatID /\ [u EXCEPT !.ready = p.ready].seatID = p.seatID
      BY <3>1 DEF Player
    <3> QED BY <3>2 DEF u
  <2> QED BY <2>5, <2>6, <2>7
<1> HIDE DEF Pausing, Going
<1>10. InOrder(players', n)
  <2>1. InOrder(funded, n)
    BY <1>4, <1>8, SameSeatsInOrder
  <2>2. CASE players' = seats
    BY <1>4, <2>2
  <2>3. CASE players' = [i \in Pos |-> Pausing(funded[i])]
    <3>1. SameSeats(funded, players')
      BY <1>8, <1>9, <2>3 DEF SameSeats, Table
    <3> QED BY <2>1, <3>1, SameSeatsInOrder
  <2>4. CASE players' = [i \in Pos |-> Going(funded[i])]
    <3>1. SameSeats(funded, players')
      BY <1>8, <1>9, <2>4 DEF SameSeats, Table
    <3> QED BY <2>1, <3>1, SameSeatsInOrder
  <2> QED BY <1>2, <2>2, <2>3, <2>4
<1>11. dealerNum' < n \/ (n = 0 /\ dealerNum' = 0)
  <2>1. Ready(players') \in SUBSET Pos /\ \A i \in Ready(players') : i < n
    BY <1>10 DEF Ready, InOrder, Vacant
  <2>2. ASSUME n > 0, NEW r \in Pos, r < n PROVE NextFrom(r, n, Ready(players')) < n
    <3>1. r \in 0 .. N
      BY NAssumption DEF Pos
    <3>2. Ready(players') # {} => NextFrom(r, n, Ready(players')) \in Ready(players')
      BY <1>3, <2>1, <3>1, NextFromType
    <3> QED BY <2>1, <2>2, <3>2 DEF NextFrom
  <2> QED BY <1>2, <1>7, <2>2
<1> QED BY <1>2, <1>10, <1>11 DEF SeatsInv

LEMMA StepSeats == IInv /\ SeatsInv /\ [Next]_vars => SeatsInv'
<1> SUFFICES ASSUME IInv, SeatsInv, [Next]_vars PROVE SeatsInv'
  OBVIOUS
<1>1. Amounts \subseteq Nat /\ Rebuys \subseteq Nat
  BY AmountsNat DEF IInv
<1>2. CASE UNCHANGED vars
  BY <1>2 DEF SeatsInv, InOrder, vars
<1>3. CASE PlayHand
  <2>1. CASE Act
    BY <1>1, <2>1, CallSeats, RaiseSeats, FoldSeats DEF Act
  <2>2. CASE \E pn \in Seated(np), amt \in Rebuys : Rebuy(pn, amt)
    BY <1>1, <2>2, RebuySeats
  <2> QED BY <1>3, <2>1, <2>2, RunoutSeats, SettleShowdownSeats, LeaveHandSeats DEF PlayHand
<1>4. CASE BetweenHands
  <2>1. CASE SettleSession
    BY <2>1, ResetSeats DEF SettleSession
  <2>2. CASE \E pn \in Seated(np) : ToggleReady(pn) \/ UndoRebuy(pn)
    <3>1. 0 \in Nat
      OBVIOUS
    <3> QED BY <2>2, <3>1, ToggleReadySeats, RebuySeats
  <2> QED BY <1>4, <2>1, <2>2, StartSeats, SeatPlayerSeats, MoveSeatSeats, GoneSeats DEF BetweenHands
<1> QED BY <1>2, <1>3, <1>4 DEF Next

LEMMA InitSeats == Init => SeatsInv
<1> SUFFICES ASSUME Init PROVE SeatsInv
  OBVIOUS
<1>1. Vacant.seatID = 0 /\ \A i \in Pos : i \in Nat
  BY NAssumption DEF Vacant, Pos
<1> QED BY <1>1 DEF Init, SeatsInv, InOrder

\* Positions follow the seats around the table, one player a seat, and the
\* button is at an occupied position, whoever comes, moves, leaves or is dropped.
THEOREM SeatsStayInOrder == Spec => []SeatsInOrder
<1>1. Spec => []SeatsInv
  BY InitSeats, StepSeats, Invariance, PTL DEF Spec
<1>2. IInv /\ SeatsInv => SeatsInOrder
  BY SeatsInvImplies DEF IInv
<1> QED BY <1>1, <1>2, Invariance, PTL

(***************************************************************************)
(* PART 4.  The pots: cut from the bets in layers, they hold what was bet,  *)
(* what they pay out is no more than what they hold, and those a player is *)
(* eligible for hold what the player contests.                             *)
(***************************************************************************)

\* Two seated players are at different distances from the button.
LEMMA FromButtonDiffers ==
  ASSUME NEW n \in Nat, NEW d \in Nat, d < n, NEW p \in Nat, p < n, NEW q \in Nat, q < n, p # q
  PROVE  /\ FromButton(p, d, n) \in Int /\ FromButton(q, d, n) \in Int
         /\ FromButton(p, d, n) # FromButton(q, d, n)
<1> DEFINE a == p + n - d - 1
           b == q + n - d - 1
<1>1. /\ n > 0 /\ a \in Nat /\ b \in Nat /\ a < 2 * n /\ b < 2 * n
      /\ a - b = p - q
  OBVIOUS
<1>2. FromButton(p, d, n) = a % n /\ FromButton(q, d, n) = b % n
  BY DEF FromButton
<1> HIDE DEF a, b
<1>3. /\ a % n = IF a < n THEN a ELSE a - n
      /\ b % n = IF b < n THEN b ELSE b - n
  BY <1>1, ModRounds
<1> QED BY <1>1, <1>2, <1>3

\* A pot pays out no more than it holds, whoever wins it and whoever has left.
LEMMA AwardsWithin ==
  ASSUME NEW pot \in PotType, NEW sc, NEW left, NEW n \in Nat, NEW d \in Nat, d < n,
         \A p \in pot.eligible : p < n
  PROVE  Sum(N, [p \in Pos |-> Award(pot, sc, left, d, n, p)]) <= pot.amt
<1> DEFINE a     == [p \in Pos |-> Award(pot, sc, left, d, n, p)]
           W     == Winners(pot, sc)
           legit == W \ left
           c     == Cardinality(W)
           share == pot.amt \div c
           odd   == pot.amt % c
           f     == [p \in legit |-> FromButton(p, d, n)]
           early == {p \in legit : RankBy(legit, f, p) < odd}
           s     == [p \in Pos |-> IF p \in legit THEN share ELSE 0]
           e     == [p \in Pos |-> IF p \in early THEN 1 ELSE 0]
<1>1. W \in SUBSET Pos /\ legit \in SUBSET Pos /\ \A p \in W : p \in Nat /\ p < n
  BY NAssumption DEF Winners, PotType, Pos
<1>2. /\ IsFiniteSet(W) /\ c \in Nat /\ IsFiniteSet(legit) /\ Cardinality(legit) \in Nat
      /\ Cardinality(legit) <= c
  <2>1. IsFiniteSet(W) /\ IsFiniteSet(legit)
    BY <1>1, PosFinite
  <2>2. legit \subseteq W
    OBVIOUS
  <2> HIDE DEF legit, W
  <2> QED BY <2>1, <2>2, FS_Subset, FS_CardinalityType
<1>3. pot.amt \in Nat
  BY DEF PotType
<1>4. CASE legit = {}
  <2>1. \A p \in Pos : a[p] = 0
    BY <1>4 DEF Award
  <2>2. \A k \in 0 .. N - 1 : a[k] = 0
    BY <2>1 DEF Pos
  <2> HIDE DEF a
  <2>3. Sum(N, a) = 0
    BY <2>2, SumZeros, NAssumption
  <2> QED BY <1>3, <2>3 DEF a
<1>5. CASE legit # {}
  <2>1. c > 0
    <3>1. Cardinality(legit) # 0
      BY <1>2, <1>5, FS_EmptySet
    <3> HIDE DEF c, legit
    <3> QED BY <1>2, <3>1
  <2>2. share \in Nat /\ odd \in Nat /\ share * c + odd = pot.amt
    <3> HIDE DEF c
    <3> QED BY <1>2, <1>3, <2>1, Shares
  <2>3. (\A p \in legit : f[p] \in Int) /\ Distinct(legit, f)
    <3>1. ASSUME NEW p \in legit, NEW q \in legit, p # q
          PROVE  FromButton(p, d, n) \in Int /\ FromButton(p, d, n) # FromButton(q, d, n)
      <4>1. p \in Nat /\ p < n /\ q \in Nat /\ q < n
        BY <1>1
      <4> QED BY <3>1, <4>1, FromButtonDiffers
    <3>2. ASSUME NEW p \in legit PROVE FromButton(p, d, n) \in Int
      <4>1. p \in Nat /\ p < n
        BY <1>1
      <4> QED BY <4>1 DEF FromButton
    <3> HIDE DEF legit
    <3> QED BY <3>1, <3>2 DEF Distinct
  <2>4. IsFiniteSet(early) /\ Cardinality(early) <= odd /\ early \subseteq legit
    <3>1. early \subseteq legit
      OBVIOUS
    <3> HIDE DEF legit, f, odd
    <3> QED BY <1>2, <2>2, <2>3, <3>1, RankCount
  <2>5. ASSUME NEW p \in Pos PROVE a[p] = s[p] + e[p] /\ s[p] \in Int /\ e[p] \in Int
    <3>1. CASE p \in legit
      <4>1. {q \in legit : FromButton(q, d, n) < FromButton(p, d, n)} = {q \in legit : f[q] < f[p]}
        BY <3>1
      <4>2. Award(pot, sc, left, d, n, p) = share + (IF RankBy(legit, f, p) < odd THEN 1 ELSE 0)
        BY <3>1, <4>1 DEF Award, RankBy
      <4> HIDE DEF f, share, odd
      <4> QED BY <2>2, <3>1, <4>2
    <3>2. CASE p \notin legit
      <4>1. Award(pot, sc, left, d, n, p) = 0
        BY <3>2 DEF Award
      <4> HIDE DEF f, share, odd
      <4> QED BY <3>2, <4>1
    <3> QED BY <3>1, <3>2
  <2>6. /\ \A k \in 0 .. N - 1 : s[k] = IF k \in legit THEN share ELSE 0
        /\ \A k \in 0 .. N - 1 : e[k] = IF k \in early THEN 1 ELSE 0
        /\ \A k \in 0 .. N - 1 : a[k] = s[k] + e[k] /\ s[k] \in Int /\ e[k] \in Int
    <3>1. 0 .. N - 1 = Pos
      BY DEF Pos
    <3> HIDE DEF legit, early, share, a
    <3>2. /\ \A k \in Pos : s[k] = IF k \in legit THEN share ELSE 0
          /\ \A k \in Pos : e[k] = IF k \in early THEN 1 ELSE 0
      OBVIOUS
    <3> HIDE DEF s, e
    <3> QED BY <2>5, <3>1, <3>2
  <2>7. legit \in SUBSET (0 .. N - 1) /\ early \in SUBSET (0 .. N - 1)
    BY <1>1, <2>4 DEF Pos
  <2> HIDE DEF a, legit, early, share, odd, s, e, c
  <2>8. Sum(N, a) = Sum(N, s) + Sum(N, e)
    BY <2>6, SumAdd, NAssumption
  <2>9. Sum(N, s) = share * Cardinality(legit)
    BY <2>2, <2>6, <2>7, SumConst, NAssumption
  <2>10. Sum(N, e) = 1 * Cardinality(early) /\ Cardinality(early) \in Nat
    BY <2>6, <2>7, SumConst, NAssumption
  <2>11. share * Cardinality(legit) <= share * c
    <3>1. \A x, y, z \in Nat : y <= z => x * y <= x * z
      OBVIOUS
    <3> QED BY <1>2, <2>2, <3>1
  <2>12. Sum(N, e) <= odd
    BY <2>2, <2>4, <2>10
  <2>13. share * Cardinality(legit) \in Int /\ share * c \in Int
    BY <1>2, <2>2
  <2>14. Sum(N, a) <= share * c + odd
    BY <2>2, <2>8, <2>9, <2>10, <2>11, <2>12, <2>13
  <2> QED BY <2>2, <2>14 DEF a
<1> QED BY <1>4, <1>5

\* A layer starts at the highest all-in below it, the last pot at the highest.
LEMMA LayerBounds ==
  ASSUME NEW total \in [Pos -> Nat], NEW allIns \in SUBSET Pos
  PROVE  /\ \A i \in Pos : /\ Floor(total, allIns, i) \in Nat
                           /\ Floor(total, allIns, i) <= total[i]
                           /\ \A j \in allIns : total[j] < total[i]
                                                  => total[j] <= Floor(total, allIns, i)
         /\ Roof(total, allIns) \in Nat
         /\ \A j \in allIns : total[j] <= Roof(total, allIns)
<1>0. 0 .. N - 1 = Pos
  BY DEF Pos
<1>1. ASSUME NEW i \in Pos
      PROVE  /\ Floor(total, allIns, i) \in Nat
             /\ Floor(total, allIns, i) <= total[i]
             /\ \A j \in allIns : total[j] < total[i] => total[j] <= Floor(total, allIns, i)
  <2> DEFINE f == [j \in Pos |-> IF j \in allIns /\ total[j] < total[i] THEN total[j] ELSE 0]
  <2>1. \A j \in Pos : /\ f[j] \in Nat /\ f[j] <= total[i]
                       /\ (j \in allIns /\ total[j] < total[i] => f[j] = total[j])
    OBVIOUS
  <2>2. Floor(total, allIns, i) = Highest(N, f)
    BY DEF Floor
  <2> HIDE DEF f
  <2>3. /\ Highest(N, f) \in Nat
        /\ \A j \in Pos : f[j] <= Highest(N, f)
        /\ Highest(N, f) = 0 \/ \E j \in Pos : Highest(N, f) = f[j]
    BY <1>0, <2>1, HighestBounds, NAssumption
  <2>4. Highest(N, f) <= total[i]
    <3>1. total[i] \in Nat
      OBVIOUS
    <3> QED BY <2>1, <2>3, <3>1
  <2>5. ASSUME NEW j \in allIns, total[j] < total[i] PROVE total[j] <= Highest(N, f)
    BY <2>1, <2>3, <2>5
  <2> QED BY <2>2, <2>3, <2>4, <2>5
<1>2. Roof(total, allIns) \in Nat /\ \A j \in allIns : total[j] <= Roof(total, allIns)
  <2> DEFINE f == [j \in Pos |-> IF j \in allIns THEN total[j] ELSE 0]
  <2>1. \A j \in Pos : f[j] \in Nat /\ (j \in allIns => f[j] = total[j])
    OBVIOUS
  <2>2. Roof(total, allIns) = Highest(N, f)
    BY DEF Roof
  <2> HIDE DEF f
  <2>3. /\ Highest(N, f) \in Nat
        /\ \A j \in Pos : f[j] <= Highest(N, f)
    BY <1>0, <2>1, HighestBounds, NAssumption
  <2>4. ASSUME NEW j \in allIns PROVE total[j] <= Highest(N, f)
    BY <2>1, <2>3
  <2> QED BY <2>2, <2>3, <2>4
<1> QED BY <1>1, <1>2

\* The chips of a slice, counted one by one.
LEMMA SliceCounts ==
  ASSUME NEW x \in Nat, NEW lo \in Nat, NEW hi \in Nat, lo <= hi, NEW f,
         \A c \in 0 .. x - 1 : f[c] = IF lo <= c /\ c < hi THEN 1 ELSE 0
  PROVE  Sum(x, f) = Slice(x, lo, hi)
<1> DEFINE S == {m \in Nat : m <= x => Sum(m, f) = Slice(m, lo, hi)}
<1>1. 0 \in S
  BY SumZero DEF Slice, AtMost
<1>2. ASSUME NEW m \in S PROVE m + 1 \in S
  <2> SUFFICES ASSUME m + 1 <= x PROVE Sum(m + 1, f) = Slice(m + 1, lo, hi)
    OBVIOUS
  <2>1. m \in Nat /\ m \in 0 .. x - 1 /\ \A c \in 0 .. m : f[c] \in Int
    OBVIOUS
  <2>2. Sum(m + 1, f) = Sum(m, f) + f[m]
    BY <2>1, SumStep
  <2>3. f[m] = IF lo <= m /\ m < hi THEN 1 ELSE 0
    BY <2>1
  <2>4. Slice(m + 1, lo, hi) = Slice(m, lo, hi) + (IF lo <= m /\ m < hi THEN 1 ELSE 0)
    BY <2>1 DEF Slice, AtMost
  <2>5. Sum(m, f) = Slice(m, lo, hi)
    BY <2>1
  <2> QED BY <2>2, <2>3, <2>4, <2>5
<1> HIDE DEF S
<1>3. S = Nat
  <2>1. S \in SUBSET Nat
    BY DEF S
  <2> QED BY <1>1, <1>2, <2>1, NatInd
<1> QED BY <1>3 DEF S

\* The levels at which layers start and end are those of all-ins.
LEMMA LevelsReached ==
  ASSUME NEW total \in [Pos -> Nat], NEW allIns \in SUBSET Pos
  PROVE  /\ \A i \in Pos : \/ Floor(total, allIns, i) = 0
                           \/ \E j \in allIns : /\ total[j] < total[i]
                                                /\ Floor(total, allIns, i) = total[j]
         /\ Roof(total, allIns) = 0 \/ \E j \in allIns : Roof(total, allIns) = total[j]
<1>0. 0 .. N - 1 = Pos
  BY DEF Pos
<1>1. ASSUME NEW i \in Pos, Floor(total, allIns, i) # 0
      PROVE  \E j \in allIns : total[j] < total[i] /\ Floor(total, allIns, i) = total[j]
  <2> DEFINE f == [j \in Pos |-> IF j \in allIns /\ total[j] < total[i] THEN total[j] ELSE 0]
  <2>1. /\ \A j \in Pos : f[j] \in Nat
        /\ \A j \in Pos : f[j] # 0 => j \in allIns /\ total[j] < total[i] /\ f[j] = total[j]
    OBVIOUS
  <2>2. Floor(total, allIns, i) = Highest(N, f)
    BY DEF Floor
  <2> HIDE DEF f
  <2>3. PICK j \in Pos : Highest(N, f) = f[j]
    BY <1>0, <1>1, <2>1, <2>2, HighestBounds, NAssumption
  <2> QED BY <1>1, <2>1, <2>2, <2>3
<1>2. ASSUME Roof(total, allIns) # 0 PROVE \E j \in allIns : Roof(total, allIns) = total[j]
  <2> DEFINE f == [j \in Pos |-> IF j \in allIns THEN total[j] ELSE 0]
  <2>1. /\ \A j \in Pos : f[j] \in Nat
        /\ \A j \in Pos : f[j] # 0 => j \in allIns /\ f[j] = total[j]
    OBVIOUS
  <2>2. Roof(total, allIns) = Highest(N, f)
    BY DEF Roof
  <2> HIDE DEF f
  <2>3. PICK j \in Pos : Highest(N, f) = f[j]
    BY <1>0, <1>2, <2>1, <2>2, HighestBounds, NAssumption
  <2> QED BY <1>2, <2>1, <2>2, <2>3
<1> QED BY <1>1, <1>2

\* Every chip below an all-in lies in a layer that ends no higher.
LEMMA ChipInLayer ==
  ASSUME NEW total \in [Pos -> Nat], NEW allIns \in SUBSET Pos,
         NEW top \in allIns, NEW c \in Nat, c < total[top]
  PROVE  \E k \in Pos : /\ OpensLayer(total, allIns, k) /\ total[k] <= total[top]
                        /\ Floor(total, allIns, k) <= c /\ c < total[k]
<1> DEFINE above == {j \in allIns : c < total[j]}
           C == {total[j] : j \in above}
<1>1. C \in SUBSET Nat /\ C # {}
  OBVIOUS
<1>2. PICK m \in C : \A x \in C : m <= x
  <2> HIDE DEF C
  <2> QED BY <1>1, LeastElement
<1> DEFINE D == {j \in allIns : total[j] = m}
<1>3. D \in SUBSET Nat /\ D # {}
  <2>1. allIns \in SUBSET Nat
    BY DEF Pos
  <2>2. \E j \in allIns : total[j] = m
    BY <1>2
  <2> QED BY <2>1, <2>2
<1>4. PICK k \in D : \A j \in D : k <= j
  <2> HIDE DEF D
  <2> QED BY <1>3, LeastElement
<1>5. /\ k \in allIns /\ k \in Pos /\ total[k] = m /\ total[k] \in Nat /\ total[top] \in Nat
      /\ c < total[k] /\ total[k] <= total[top]
  BY <1>2, <1>4
<1>6. \A j \in allIns : total[j] < total[k] => total[j] <= c
  BY <1>2, <1>5
<1>7. OpensLayer(total, allIns, k)
  BY <1>4, <1>5 DEF OpensLayer
<1>8. Floor(total, allIns, k) <= c
  BY <1>5, <1>6, LevelsReached
<1> QED BY <1>5, <1>7, <1>8

\* Where a layer may end.
Level(h, total, allIns) == h \in Nat /\ (h = 0 \/ \E top \in allIns : h = total[top])

\* Layers do not overlap and leave no gap: below an all-in of h chips, or below
\* the roof, the layers that end there take each of a player's chips once.
LEMMA LayersTile ==
  ASSUME NEW total \in [Pos -> Nat], NEW allIns \in SUBSET Pos, NEW x \in Nat,
         NEW h, Level(h, total, allIns),
         NEW g, \A i \in 0 .. N - 1 :
                  g[i] = IF OpensLayer(total, allIns, i) /\ total[i] <= h
                         THEN Slice(x, Floor(total, allIns, i), total[i]) ELSE 0
  PROVE  Sum(N, g) = AtMost(x, h)
<1> DEFINE lo(i)   == Floor(total, allIns, i)
           opens(i) == OpensLayer(total, allIns, i) /\ total[i] <= h
           Takes(i, c) == opens(i) /\ lo(i) <= c /\ c < total[i]
           F == [i \in 0 .. N - 1 |-> [c \in 0 .. x - 1 |-> IF Takes(i, c) THEN 1 ELSE 0]]
           G == [c \in 0 .. x - 1 |-> [i \in 0 .. N - 1 |-> IF Takes(i, c) THEN 1 ELSE 0]]
           col == [c \in 0 .. x - 1 |-> Sum(N, G[c])]
           u   == [c \in 0 .. x - 1 |-> IF 0 <= c /\ c < h THEN 1 ELSE 0]
<1>0. 0 .. N - 1 = Pos /\ h \in Nat
  BY DEF Pos, Level
<1>1. \A i \in Pos : /\ lo(i) \in Nat /\ lo(i) <= total[i] /\ total[i] \in Nat
                     /\ \A j \in allIns : total[j] < total[i] => total[j] <= lo(i)
  BY LayerBounds
<1>2. \A i \in Pos : opens(i) => /\ i \in allIns /\ total[i] <= h
                                 /\ \A j \in allIns : total[j] = total[i] => i <= j
  BY DEF OpensLayer
<1>3. ASSUME NEW c \in Nat, c < h PROVE \E k \in Pos : Takes(k, c)
  <2>1. PICK top \in allIns : h = total[top]
    BY <1>3 DEF Level
  <2> QED BY <1>3, <2>1, ChipInLayer
<1> HIDE DEF lo, opens
\* Two layers that both hold chip c are the same.
<1>4. ASSUME NEW i \in Pos, NEW j \in Pos, NEW c \in Nat, Takes(i, c), Takes(j, c) PROVE i = j
  <2>1. i \in allIns /\ j \in allIns /\ i \in Int /\ j \in Int
    BY <1>2, <1>4 DEF Pos
  <2>2. total[i] = total[j]
    BY <1>1, <1>4, <2>1
  <2> QED BY <1>2, <1>4, <2>1, <2>2
<1>5. ASSUME NEW i \in Pos, NEW c \in Nat, Takes(i, c) PROVE c < h
  BY <1>0, <1>1, <1>2, <1>5
<1>6. \A i \in 0 .. N - 1, c \in 0 .. x - 1 : F[i][c] \in Int /\ G[c][i] = F[i][c]
  OBVIOUS
<1>7. ASSUME NEW i \in 0 .. N - 1 PROVE g[i] = Sum(x, F[i])
  <2>1. CASE opens(i)
    <3> DEFINE f == F[i]
               a == lo(i)
               b == total[i]
    <3>1. \A c \in 0 .. x - 1 : f[c] = IF a <= c /\ c < b THEN 1 ELSE 0
      BY <2>1
    <3>2. a \in Nat /\ b \in Nat /\ a <= b
      BY <1>0, <1>1
    <3> HIDE DEF f, a, b
    <3>3. Sum(x, f) = Slice(x, a, b)
      BY <3>1, <3>2, SliceCounts
    <3> QED BY <2>1, <3>3 DEF f, a, b, opens, lo
  <2>2. CASE ~opens(i)
    <3>1. \A c \in 0 .. x - 1 : F[i][c] = 0
      BY <2>2
    <3> HIDE DEF F
    <3>2. Sum(x, F[i]) = 0
      BY <3>1, SumZeros
    <3> QED BY <2>2, <3>2 DEF opens
  <2> QED BY <2>1, <2>2
<1>8. \A c \in 0 .. x - 1 : col[c] = Sum(N, G[c])
  OBVIOUS
<1>9. ASSUME NEW c \in 0 .. x - 1 PROVE u[c] \in Int /\ col[c] = u[c]
  <2>1. c \in Nat /\ \A i \in 0 .. N - 1 : G[c][i] = IF Takes(i, c) THEN 1 ELSE 0
    OBVIOUS
  <2>2. col[c] = Sum(N, G[c]) /\ u[c] = IF c < h THEN 1 ELSE 0
    OBVIOUS
  <2> HIDE DEF G, col, u
  <2>3. CASE c < h
    <3>1. PICK k \in Pos : Takes(k, c)
      BY <1>3, <2>1, <2>3
    <3> DEFINE T == {k}
               f == G[c]
    <3>2. T \in SUBSET (0 .. N - 1) /\ 1 \in Nat /\ N \in Nat
      BY <1>0, NAssumption
    <3>3. \A i \in 0 .. N - 1 : f[i] = IF i \in T THEN 1 ELSE 0
      <4> HIDE DEF Takes
      <4> QED BY <1>0, <1>4, <2>1, <3>1
    <3>5. Cardinality(T) = 1
      BY FS_Singleton
    <3> HIDE DEF T, f
    <3>4. Sum(N, f) = 1 * Cardinality(T)
      BY <3>2, <3>3, SumConst
    <3> QED BY <2>2, <2>3, <3>4, <3>5 DEF f
  <2>4. CASE ~(c < h)
    <3>1. \A i \in 0 .. N - 1 : G[c][i] = 0
      <4> HIDE DEF Takes
      <4> QED BY <1>0, <1>5, <2>1, <2>4
    <3>2. Sum(N, G[c]) = 0
      BY <3>1, SumZeros, NAssumption
    <3> QED BY <2>2, <2>4, <3>2
  <2> QED BY <2>3, <2>4
<1>10. Sum(x, u) = Slice(x, 0, h)
  <2>1. \A c \in 0 .. x - 1 : u[c] = IF 0 <= c /\ c < h THEN 1 ELSE 0
    OBVIOUS
  <2> HIDE DEF u
  <2> QED BY <1>0, <2>1, SliceCounts
<1> HIDE DEF F, G, col, u, Takes
<1>11. Sum(N, g) = Sum(x, col)
  <2>1. \A i \in 0 .. N - 1 : g[i] = Sum(x, F[i])
    BY <1>7
  <2>2. N \in Nat
    BY NAssumption
  <2>3. SumTable(F, G, g, col, N, x)
    BY <1>6, <1>8, <2>1 DEF SumTable
  <2> QED BY <2>2, <2>3, SumSwap
<1>12. Sum(x, col) = Sum(x, u)
  BY <1>9, SumSame
<1>13. Slice(x, 0, h) = AtMost(x, h)
  BY <1>0 DEF Slice, AtMost
<1> QED BY <1>10, <1>11, <1>12, <1>13

\* What players have bet up to the level h.
UpTo(total, h) == [j \in Pos |-> AtMost(total[j], h)]

\* e is what the layers that end no higher than h hold, by the all-in that caps them.
LayersUpTo(h, total, inHand, allIns, e) ==
  \A i \in Pos : e[i] = IF OpensLayer(total, allIns, i) /\ total[i] <= h
                        THEN Layer(total, inHand, allIns, i).amt ELSE 0

\* So together they hold, of every player's bets, what lies below their end.
LEMMA LayersHold ==
  ASSUME NEW total \in [Pos -> Nat], NEW inHand \in SUBSET Pos, NEW allIns \in SUBSET Pos,
         NEW h, Level(h, total, allIns),
         NEW e, LayersUpTo(h, total, inHand, allIns, e)
  PROVE  /\ \A i \in Pos : e[i] \in Int
         /\ Sum(N, e) = Sum(N, UpTo(total, h))
<1> DEFINE lo(i)   == Floor(total, allIns, i)
           opens(i) == OpensLayer(total, allIns, i) /\ total[i] <= h
           part(i, j) == IF opens(i) THEN Slice(total[j], lo(i), total[i]) ELSE 0
           F    == [i \in 0 .. N - 1 |-> [j \in Pos |-> part(i, j)]]
           G    == [j \in 0 .. N - 1 |-> [i \in Pos |-> part(i, j)]]
           col  == UpTo(total, h)
<1>0. 0 .. N - 1 = Pos /\ N \in Nat /\ h \in Nat
  BY NAssumption DEF Pos, Level
<1>1. \A i \in Pos : lo(i) \in Nat /\ lo(i) <= total[i] /\ total[i] \in Nat
  BY LayerBounds
<1>2. ASSUME NEW i \in Pos PROVE e[i] = Sum(N, F[i])
  <2>1. CASE opens(i)
    <3>1. F[i] = [j \in Pos |-> Slice(total[j], lo(i), total[i])]
      BY <1>0, <2>1
    <3> HIDE DEF F
    <3> QED BY <2>1, <3>1 DEF Layer, LayersUpTo
  <2>2. CASE ~opens(i)
    <3>1. \A j \in 0 .. N - 1 : F[i][j] = 0
      BY <1>0, <2>2
    <3>2. e[i] = 0
      BY <2>2 DEF LayersUpTo
    <3> HIDE DEF F
    <3>3. Sum(N, F[i]) = 0
      BY <1>0, <3>1, SumZeros
    <3> QED BY <3>2, <3>3
  <2> QED BY <2>1, <2>2
<1>3. \A i, j \in Pos : F[i][j] = part(i, j) /\ G[j][i] = part(i, j)
  BY <1>0
<1>4. \A i \in Pos, j \in Pos : part(i, j) \in Int
  <2> HIDE DEF lo, opens
  <2> QED BY <1>0, <1>1 DEF Slice, AtMost
<1>5. \A j \in Pos : col[j] = AtMost(total[j], h)
  BY DEF UpTo
<1> HIDE DEF F, G, col
<1>6. \A j \in Pos : col[j] = Sum(N, G[j])
  <2> TAKE j \in Pos
  <2> DEFINE g == G[j]
             x == total[j]
  <2>1. /\ x \in Nat
        /\ \A i \in 0 .. N - 1 : g[i] = IF OpensLayer(total, allIns, i) /\ total[i] <= h
                                        THEN Slice(x, Floor(total, allIns, i), total[i]) ELSE 0
    BY <1>0, <1>3
  <2> HIDE DEF g, x
  <2>2. Sum(N, g) = AtMost(x, h)
    BY <2>1, LayersTile
  <2> QED BY <1>5, <2>2 DEF g, x
<1> HIDE DEF part
<1>7. SumTable(F, G, e, col, N, N)
  <2>1. \A i, j \in Pos : F[i][j] \in Int /\ G[j][i] = F[i][j]
    BY <1>3, <1>4
  <2> QED BY <1>0, <1>2, <1>6, <2>1 DEF SumTable
<1>8. Sum(N, e) = Sum(N, col)
  BY <1>0, <1>7, SumSwap
<1>9. \A i \in Pos : e[i] \in Int
  <2> TAKE i \in Pos
  <2> DEFINE f == F[i]
  <2>1. \A j \in 0 .. N - 1 : f[j] \in Int
    BY <1>0, <1>3, <1>4
  <2> HIDE DEF f
  <2>2. Sum(N, f) \in Int
    BY <1>0, <2>1, SumInt
  <2> QED BY <1>2, <2>2 DEF f
<1> QED BY <1>8, <1>9 DEF col

\* All pots together hold what was bet.
LEMMA PotsHoldBets ==
  ASSUME NEW total \in [Pos -> Nat], NEW inHand \in SUBSET Pos,
         NEW allIns \in SUBSET Pos, NEW chipless
  PROVE  LET pots == AllPots(total, inHand, allIns, chipless)
         IN  Sum(N + 1, [i \in 0 .. N |-> pots[i].amt]) = Sum(N, total)
<1> DEFINE pots == AllPots(total, inHand, allIns, chipless)
           amts == [i \in 0 .. N |-> pots[i].amt]
           roof == Roof(total, allIns)
           col  == UpTo(total, roof)
           last == [j \in Pos |-> total[j] - AtMost(total[j], roof)]
<1>0. 0 .. N - 1 = Pos /\ N \in Nat /\ \A i \in Pos : i \in 0 .. N /\ i # N
  BY NAssumption DEF Pos
<1>1. /\ roof \in Nat /\ \A j \in allIns : total[j] <= roof
      /\ Level(roof, total, allIns)
  BY LayerBounds, LevelsReached DEF Level
<1>2. ASSUME NEW i \in Pos
      PROVE  amts[i] = IF OpensLayer(total, allIns, i) /\ total[i] <= roof
                       THEN Layer(total, inHand, allIns, i).amt ELSE 0
  <2>1. OpensLayer(total, allIns, i) => total[i] <= roof
    BY <1>1 DEF OpensLayer
  <2>2. amts[i] = IF OpensLayer(total, allIns, i) THEN Layer(total, inHand, allIns, i).amt
                  ELSE EmptyPot.amt
    BY <1>0 DEF AllPots
  <2>3. EmptyPot.amt = 0
    BY DEF EmptyPot
  <2> HIDE DEF amts, roof
  <2> QED BY <2>1, <2>2, <2>3
<1>3. amts[N] = Sum(N, last)
  BY <1>0 DEF AllPots, LastPot
<1>4. \A j \in Pos : /\ col[j] = AtMost(total[j], roof) /\ total[j] \in Nat
                     /\ last[j] = total[j] - AtMost(total[j], roof)
  BY DEF UpTo
<1> HIDE DEF amts
<1>5. (\A i \in Pos : amts[i] \in Int) /\ Sum(N, amts) = Sum(N, col)
  <2>1. LayersUpTo(roof, total, inHand, allIns, amts)
    BY <1>2 DEF LayersUpTo
  <2> HIDE DEF roof
  <2> QED BY <1>1, <2>1, LayersHold
<1> HIDE DEF roof, col, last
<1>6. \A j \in Pos : /\ col[j] \in Int /\ last[j] \in Int /\ total[j] \in Int
                     /\ total[j] = col[j] + last[j]
  BY <1>1, <1>4 DEF AtMost
<1>7. Sum(N, total) = Sum(N, col) + Sum(N, last)
  BY <1>0, <1>6, SumAdd
<1>8. Sum(N + 1, amts) = Sum(N, amts) + amts[N]
  <2>1. amts[N] \in Int
    BY <1>0, <1>3, <1>6, SumInt
  <2>2. \A i \in 0 .. N : i = N \/ i \in Pos
    BY NAssumption DEF Pos
  <2>3. \A i \in 0 .. N : amts[i] \in Int
    BY <1>5, <2>1, <2>2
  <2> QED BY <1>0, <2>3, SumStep
<1> QED BY <1>3, <1>5, <1>7, <1>8 DEF amts

\* The showdown pays out no more than what was bet.
LEMMA WinningsWithin ==
  ASSUME NEW total \in [Pos -> Nat], NEW inHand \in SUBSET Pos,
         NEW allIns \in SUBSET Pos, NEW chipless \in SUBSET Pos,
         NEW sc, NEW left, NEW n \in Nat, NEW d \in Nat, d < n, \A p \in inHand : p < n
  PROVE  LET pots == AllPots(total, inHand, allIns, chipless)
         IN  Sum(N, [p \in Pos |-> Winnings(pots, sc, left, d, n, p)]) <= Sum(N, total)
<1> DEFINE pots == AllPots(total, inHand, allIns, chipless)
           amts == [i \in 0 .. N |-> pots[i].amt]
           won  == [p \in Pos |-> Winnings(pots, sc, left, d, n, p)]
           F == [p \in 0 .. N - 1 |-> [i \in 0 .. N |-> Award(pots[i], sc, left, d, n, p)]]
           G == [i \in 0 .. N |-> [p \in Pos |-> Award(pots[i], sc, left, d, n, p)]]
           col == [i \in 0 .. N |-> Sum(N, G[i])]
<1>0. 0 .. N - 1 = Pos /\ N \in Nat /\ N + 1 \in Nat /\ 0 .. (N + 1) - 1 = 0 .. N
  BY NAssumption DEF Pos
<1>1. pots \in [0 .. N -> PotType]
  BY AllPotsType
<1>2. ASSUME NEW i \in 0 .. N PROVE \A p \in pots[i].eligible : p < n
  BY DEF AllPots, LastPot, Layer, EmptyPot
<1> HIDE DEF pots
<1>3. \A i \in 0 .. N, p \in Pos : Award(pots[i], sc, left, d, n, p) \in Int
  BY <1>1, AwardType
<1>4. ASSUME NEW i \in 0 .. N PROVE col[i] \in Int /\ amts[i] \in Int /\ col[i] <= amts[i]
  <2>1. pots[i] \in PotType
    BY <1>1
  <2>2. Sum(N, [p \in Pos |-> Award(pots[i], sc, left, d, n, p)]) <= pots[i].amt
    BY <1>2, <2>1, AwardsWithin
  <2>3. G[i] = [p \in Pos |-> Award(pots[i], sc, left, d, n, p)]
    OBVIOUS
  <2>4. \A p \in 0 .. N - 1 : G[i][p] \in Int
    BY <1>0, <1>3
  <2>5. col[i] = Sum(N, G[i]) /\ amts[i] = pots[i].amt
    OBVIOUS
  <2> HIDE DEF G, col, amts
  <2>6. Sum(N, G[i]) \in Int
    BY <1>0, <2>4, SumInt
  <2> QED BY <2>1, <2>2, <2>3, <2>5, <2>6 DEF PotType
<1>5. SumTable(F, G, won, col, N, N + 1)
  <2>1. \A p \in Pos, i \in 0 .. N : F[p][i] \in Int /\ G[i][p] = F[p][i]
    BY <1>0, <1>3
  <2>2. \A p \in Pos : won[p] = Sum(N + 1, F[p])
    BY <1>0 DEF Winnings
  <2>3. \A i \in 0 .. N : col[i] = Sum(N, G[i])
    OBVIOUS
  <2> HIDE DEF F, G, won, col
  <2> QED BY <1>0, <2>1, <2>2, <2>3 DEF SumTable
<1> HIDE DEF F, G, won, col, amts
<1>6. Sum(N, won) = Sum(N + 1, col)
  BY <1>0, <1>5, SumSwap
<1>7. Sum(N + 1, col) <= Sum(N + 1, amts)
  BY <1>0, <1>4, SumMono
<1>8. Sum(N + 1, amts) = Sum(N, total)
  BY PotsHoldBets DEF amts, pots
<1>9. Sum(N + 1, col) \in Int /\ Sum(N + 1, amts) \in Int /\ Sum(N, total) \in Int
  <2>1. \A j \in Pos : total[j] \in Int
    OBVIOUS
  <2> QED BY <1>0, <1>4, <2>1, SumInt
<1> QED BY <1>6, <1>7, <1>8, <1>9 DEF won, pots

\* The pots a player is eligible for hold what that player contests: of every
\* player's bets as much as the player's own.
LEMMA EligibleHold ==
  ASSUME NEW total \in [Pos -> Nat], NEW inHand \in SUBSET Pos, NEW allIns \in SUBSET Pos,
         NEW chipless \in SUBSET allIns, NEW i \in inHand,
         i \notin chipless => \A j \in Pos : total[j] <= total[i],
         NEW e, \A k \in 0 .. N :
                  LET pot == AllPots(total, inHand, allIns, chipless)[k]
                  IN  e[k] = IF i \in pot.eligible THEN pot.amt ELSE 0
  PROVE  Sum(N + 1, e) = Sum(N, UpTo(total, total[i]))
<1> DEFINE roof == Roof(total, allIns)
           h    == IF i \in chipless THEN total[i] ELSE roof
           opens(k) == OpensLayer(total, allIns, k)
           col  == UpTo(total, h)
           goal == UpTo(total, total[i])
           last == [j \in Pos |-> total[j] - AtMost(total[j], roof)]
<1>0. /\ 0 .. N - 1 = Pos /\ N \in Nat /\ \A k \in Pos : k \in 0 .. N /\ k # N
      /\ i \in Pos /\ N \in 0 .. N /\ N \notin Pos
  BY NAssumption DEF Pos
<1>1. /\ roof \in Nat /\ \A j \in allIns : total[j] <= roof
      /\ roof = 0 \/ \E j \in allIns : roof = total[j]
  BY LayerBounds, LevelsReached
<1>2. total[i] \in Nat /\ \A j \in Pos : total[j] \in Nat
  BY <1>0
<1>3. h \in Nat /\ Level(h, total, allIns)
  BY <1>1, <1>2 DEF Level
<1>4. ASSUME NEW k \in Pos
      PROVE  e[k] = IF OpensLayer(total, allIns, k) /\ total[k] <= h
                    THEN Layer(total, inHand, allIns, k).amt ELSE 0
  <2> DEFINE pot == AllPots(total, inHand, allIns, chipless)[k]
  <2>1. e[k] = IF i \in pot.eligible THEN pot.amt ELSE 0
    BY <1>0
  <2>2. pot = IF opens(k) THEN Layer(total, inHand, allIns, k) ELSE EmptyPot
    BY <1>0 DEF AllPots
  <2> HIDE DEF pot
  <2>3. CASE opens(k)
    <3>1. i \in pot.eligible <=> total[i] >= total[k]
      BY <2>2, <2>3 DEF Layer
    <3>2. total[i] >= total[k] <=> total[k] <= h
      <4>1. k \in allIns /\ total[k] <= roof /\ total[k] \in Nat
        BY <1>1, <2>3 DEF OpensLayer
      <4> QED BY <1>1, <1>2, <4>1
    <3> QED BY <2>1, <2>2, <2>3, <3>1, <3>2
  <2>4. CASE ~opens(k)
    BY <2>1, <2>2, <2>4 DEF EmptyPot
  <2> QED BY <2>3, <2>4
<1>5. e[N] = IF i \in chipless THEN 0 ELSE Sum(N, last)
  <2> DEFINE pot == AllPots(total, inHand, allIns, chipless)[N]
  <2>1. e[N] = IF i \in pot.eligible THEN pot.amt ELSE 0
    BY <1>0
  <2>2. pot.amt = Sum(N, last) /\ pot.eligible = inHand \ chipless
    BY <1>0 DEF AllPots, LastPot
  <2> HIDE DEF pot
  <2> QED BY <2>1, <2>2
<1>6. /\ \A j \in Pos : col[j] = AtMost(total[j], h) /\ goal[j] = AtMost(total[j], total[i])
      /\ \A j \in Pos : last[j] = total[j] - AtMost(total[j], roof)
  BY DEF UpTo
<1>7. (\A k \in Pos : e[k] \in Int) /\ Sum(N, e) = Sum(N, col)
  <2>1. LayersUpTo(h, total, inHand, allIns, e)
    BY <1>4 DEF LayersUpTo
  <2> HIDE DEF h
  <2>2. /\ \A k \in Pos : e[k] \in Int
        /\ Sum(N, e) = Sum(N, UpTo(total, h))
    BY <1>3, <2>1, LayersHold
  <2> QED BY <2>2
<1>10. i \notin chipless => h = roof
  OBVIOUS
<1>11. i \in chipless => h = total[i]
  OBVIOUS
<1> HIDE DEF roof, h, opens, col, goal, last
<1>8. \A j \in Pos : col[j] \in Int /\ last[j] \in Int /\ goal[j] \in Int
  BY <1>1, <1>2, <1>3, <1>6 DEF AtMost
<1>9. Sum(N + 1, e) = Sum(N, e) + e[N]
  <2>1. Sum(N, last) \in Int
    BY <1>0, <1>8, SumInt
  <2>2. \A k \in 0 .. N : k = N \/ k \in Pos
    BY NAssumption DEF Pos
  <2>3. \A k \in 0 .. N : e[k] \in Int
    BY <1>5, <1>7, <2>1, <2>2
  <2> QED BY <1>0, <2>3, SumStep
<1>12. Sum(N, col) \in Int
  BY <1>0, <1>8, SumInt
<1>13. CASE i \in chipless
  <2>1. \A j \in Pos : col[j] = goal[j]
    BY <1>6, <1>11, <1>13
  <2>2. Sum(N, col) = Sum(N, goal)
    BY <1>0, <1>8, <2>1, SumSame
  <2> QED BY <1>5, <1>7, <1>9, <1>12, <1>13, <2>2 DEF goal
<1>14. CASE i \notin chipless
  <2>1. \A j \in Pos : goal[j] = col[j] + last[j]
    BY <1>1, <1>2, <1>6, <1>10, <1>14 DEF AtMost
  <2>2. Sum(N, goal) = Sum(N, col) + Sum(N, last)
    BY <1>0, <1>8, <2>1, SumAdd
  <2> QED BY <1>5, <1>7, <1>9, <1>14, <2>2 DEF goal
<1> QED BY <1>13, <1>14

\* A pot gives a player no more than it holds, and only if the player is
\* eligible; the best hand by itself gets it all.
LEMMA AwardOfPot ==
  ASSUME NEW pot \in PotType, NEW sc \in [Pos -> Nat], NEW left, NEW d, NEW n, NEW p
  PROVE  LET hold == IF p \in pot.eligible THEN pot.amt ELSE 0
         IN  /\ Award(pot, sc, left, d, n, p) <= hold
             /\ p \notin left /\ (\A q \in pot.eligible \ {p} : sc[p] < sc[q])
                  => Award(pot, sc, left, d, n, p) = hold
<1> DEFINE hold == IF p \in pot.eligible THEN pot.amt ELSE 0
           W == Winners(pot, sc)
           c == Cardinality(W)
           before == {q \in W \ left : FromButton(q, d, n) < FromButton(p, d, n)}
           b == Cardinality(before)
           amt == pot.amt
           award == Award(pot, sc, left, d, n, p)
<1>1. amt \in Nat /\ pot.eligible \in SUBSET Pos /\ W \in SUBSET pot.eligible
  BY DEF PotType, Winners
<1>2. award = IF p \in W \ left THEN (amt \div c) + (IF b < amt % c THEN 1 ELSE 0) ELSE 0
  BY DEF Award
<1>3. IsFiniteSet(W) /\ c \in Nat /\ b \in Nat
  <2>1. W \in SUBSET Pos
    BY <1>1
  <2>2. before \in SUBSET Pos
    BY <2>1
  <2> HIDE DEF W, before
  <2> QED BY <2>1, <2>2, PosFinite, FS_CardinalityType
<1>4. award <= hold
  <2>1. CASE p \notin W \ left
    BY <1>1, <1>2, <2>1
  <2>2. CASE p \in W \ left
    <3>1. c > 0
      <4>1. c # 0
        <5> HIDE DEF W
        <5> QED BY <1>3, <2>2, FS_EmptySet
      <4> QED BY <1>3, <4>1
    <3> HIDE DEF W, c, before, b, amt, award
    <3> DEFINE share == amt \div c
               odd == amt % c
    <3>2. share \in Nat /\ odd \in Nat /\ share * c + odd = amt
      BY <1>1, <1>3, <3>1, Shares
    <3> HIDE DEF share, odd
    <3>3. share * 1 <= share * c /\ share * 1 = share /\ share * c \in Int
      <4>1. \A x, y, z \in Nat : y <= z => x * y <= x * z
        OBVIOUS
      <4> QED BY <1>3, <3>1, <3>2, <4>1
    <3>4. award = share + (IF b < odd THEN 1 ELSE 0)
      BY <1>2, <2>2 DEF share, odd
    <3>5. award <= amt
      BY <1>3, <3>2, <3>3, <3>4
    <3>6. p \in pot.eligible
      BY <1>1, <2>2
    <3> QED BY <3>5, <3>6 DEF amt
  <2> QED BY <2>1, <2>2
<1>5. ASSUME p \notin left, \A q \in pot.eligible \ {p} : sc[p] < sc[q] PROVE award = hold
  <2>1. CASE p \notin pot.eligible
    BY <1>1, <1>2, <2>1
  <2>2. CASE p \in pot.eligible /\ amt = 0
    <3>1. W = {}
      BY <2>2 DEF Winners
    <3> QED BY <1>2, <2>2, <3>1
  <2>3. CASE p \in pot.eligible /\ amt # 0
    <3>1. W = {p}
      <4>1. \A q \in pot.eligible : sc[q] \in Nat /\ (q # p => sc[p] < sc[q])
        BY <1>1, <1>5
      <4>2. \A q : q \in W <=> q \in pot.eligible /\ \A r \in pot.eligible : sc[q] <= sc[r]
        BY <2>3 DEF Winners
      <4> HIDE DEF W
      <4>3. ASSUME NEW q \in W PROVE q = p
        <5>1. sc[q] <= sc[p]
          BY <2>3, <4>2
        <5> QED BY <2>3, <4>1, <4>2, <5>1
      <4>4. p \in W
        BY <2>3, <4>1, <4>2
      <4> QED BY <4>3, <4>4
    <3>2. c = 1
      BY <3>1, FS_Singleton
    <3>3. p \in W \ left
      BY <1>5, <3>1
    <3> HIDE DEF W, c, b, before, amt, award
    <3>4. amt \div 1 = amt /\ amt % 1 = 0
      BY <1>1
    <3>5. award = amt
      BY <1>1, <1>2, <1>3, <3>2, <3>3, <3>4
    <3> QED BY <2>3, <3>5 DEF amt
  <2> QED BY <2>1, <2>2, <2>3
<1> QED BY <1>4, <1>5

\* A player collects no more than what the player contests, and all of it with
\* the best hand: i is chipless, or has bet as much as anybody.
LEMMA BestCollects ==
  ASSUME NEW total \in [Pos -> Nat], NEW inHand \in SUBSET Pos, NEW allIns \in SUBSET Pos,
         NEW chipless \in SUBSET allIns, NEW i \in inHand,
         i \notin chipless => \A j \in Pos : total[j] <= total[i],
         NEW sc \in [Pos -> Nat], NEW left, NEW d, NEW n
  PROVE  LET w == Winnings(AllPots(total, inHand, allIns, chipless), sc, left, d, n, i)
             contested == Sum(N, UpTo(total, total[i]))
         IN  /\ w <= contested
             /\ i \notin left /\ (\A j \in inHand \ {i} : sc[i] < sc[j]) => w = contested
<1> DEFINE pots == AllPots(total, inHand, allIns, chipless)
           f == [k \in 0 .. N |-> Award(pots[k], sc, left, d, n, i)]
           e == [k \in 0 .. N |-> IF i \in pots[k].eligible THEN pots[k].amt ELSE 0]
           w == Winnings(pots, sc, left, d, n, i)
           contested == Sum(N, UpTo(total, total[i]))
           best == i \notin left /\ \A j \in inHand \ {i} : sc[i] < sc[j]
<1>0. N + 1 \in Nat /\ 0 .. (N + 1) - 1 = 0 .. N
  BY NAssumption
<1>1. pots \in [0 .. N -> PotType]
  BY AllPotsType
<1>2. \A k \in 0 .. N : pots[k].eligible \subseteq inHand
  BY DEF AllPots, LastPot, Layer, EmptyPot
<1>3. Sum(N + 1, e) = contested
  <2>1. \A k \in 0 .. N :
          LET pot == AllPots(total, inHand, allIns, chipless)[k]
          IN  e[k] = IF i \in pot.eligible THEN pot.amt ELSE 0
    OBVIOUS
  <2> HIDE DEF e
  <2> QED BY <2>1, EligibleHold
<1>4. w = Sum(N + 1, f)
  BY DEF Winnings
<1> HIDE DEF pots
<1>5. ASSUME NEW k \in 0 .. N
      PROVE  f[k] \in Int /\ e[k] \in Int /\ f[k] <= e[k] /\ (best => f[k] = e[k])
  <2> DEFINE pot == pots[k]
             hold == IF i \in pot.eligible THEN pot.amt ELSE 0
             award == Award(pot, sc, left, d, n, i)
  <2>1. pot \in PotType /\ pot.eligible \subseteq inHand
    BY <1>1, <1>2
  <2>2. f[k] = award /\ e[k] = hold
    OBVIOUS
  <2> HIDE DEF pot
  <2>3. /\ award \in Int /\ award <= hold /\ hold \in Int
        /\ i \notin left /\ (\A q \in pot.eligible \ {i} : sc[i] < sc[q]) => award = hold
    BY <2>1, AwardType, AwardOfPot DEF PotType
  <2> HIDE DEF award, hold
  <2> QED BY <2>1, <2>2, <2>3
<1> HIDE DEF f, e, w, contested
<1>6. w <= contested
  BY <1>0, <1>3, <1>4, <1>5, SumMono
<1>7. ASSUME best PROVE w = contested
  BY <1>0, <1>3, <1>4, <1>5, <1>7, SumSame
<1> QED BY <1>6, <1>7 DEF w, contested, pots

(***************************************************************************)
(* PART 5.  A running hand.  The invariant TurnInv says how the bets of a   *)
(* street are matched; each operation keeps it, through updateRoundInfo.   *)
(***************************************************************************)

(***************************************************************************)
(* Reading a table.                                                        *)
(***************************************************************************)

LEMMA Fields ==
  ASSUME NEW ps \in Table, NEW i \in Pos
  PROVE  /\ ps[i] \in Player
         /\ ps[i].stack \in Nat /\ ps[i].bet \in Nat /\ ps[i].totalBet \in Nat
         /\ ps[i].in \in BOOLEAN /\ ps[i].called \in BOOLEAN
         /\ ps[i].left \in BOOLEAN /\ ps[i].ready \in BOOLEAN
BY DEF Table, Player

\* Highest, for a function over the positions.
LEMMA HighestPos ==
  ASSUME NEW f \in [Pos -> Nat]
  PROVE  /\ Highest(N, f) \in Nat
         /\ \A i \in Pos : f[i] <= Highest(N, f)
         /\ Highest(N, f) = 0 \/ \E i \in Pos : Highest(N, f) = f[i]
<1>1. \A k \in 0 .. N - 1 : f[k] \in Nat
  BY DEF Pos
<1> QED BY <1>1, HighestBounds, NAssumption DEF Pos

\* The price of a street is the highest bet.
LEMMA ToCallBounds ==
  ASSUME NEW ps \in Table
  PROVE  /\ ToCall(ps) \in Nat
         /\ \A i \in Pos : ps[i].bet <= ToCall(ps)
         /\ ToCall(ps) = 0 \/ \E i \in Pos : ToCall(ps) = ps[i].bet
<1> DEFINE f == [i \in Pos |-> ps[i].bet]
<1>1. f \in [Pos -> Nat]
  BY Fields
<1>2. \A i \in Pos : f[i] = ps[i].bet
  OBVIOUS
<1>3. ToCall(ps) = Highest(N, f)
  BY DEF ToCall
<1> HIDE DEF f
<1> QED BY <1>1, <1>2, <1>3, HighestPos

\* The most that another player has put in.
LEMMA SecondBounds ==
  ASSUME NEW ps \in Table, NEW i \in Pos
  PROVE  /\ SecondTotal(ps, i) \in Nat
         /\ \A j \in Pos \ {i} : ps[j].totalBet <= SecondTotal(ps, i)
         /\ SecondTotal(ps, i) = 0 \/ \E j \in Pos \ {i} : SecondTotal(ps, i) = ps[j].totalBet
<1> DEFINE f == [j \in Pos |-> IF j = i THEN 0 ELSE ps[j].totalBet]
<1>1. f \in [Pos -> Nat]
  BY Fields
<1>2. f[i] = 0 /\ \A j \in Pos \ {i} : f[j] = ps[j].totalBet
  OBVIOUS
<1>3. SecondTotal(ps, i) = Highest(N, f)
  BY DEF SecondTotal
<1> HIDE DEF f
<1>4. /\ Highest(N, f) \in Nat
      /\ \A j \in Pos : f[j] <= Highest(N, f)
      /\ Highest(N, f) = 0 \/ \E j \in Pos : Highest(N, f) = f[j]
  BY <1>1, HighestPos
<1> QED BY <1>2, <1>3, <1>4

\* Somebody else has put in as much.
Matched(ps, i) == \E j \in Pos \ {i} : ps[j].totalBet >= ps[i].totalBet

\* The table has two positions at least.
LEMMA AnotherPosition == ASSUME NEW i \in Pos PROVE \E j \in Pos : j # i
<1>1. 0 \in Pos /\ 1 \in Pos
  BY NAssumption DEF Pos
<1> QED BY <1>1

LEMMA MatchedSecond ==
  ASSUME NEW ps \in Table, NEW i \in Pos
  PROVE  Matched(ps, i) <=> ps[i].totalBet <= SecondTotal(ps, i)
<1>1. ps[i].totalBet \in Nat /\ \A j \in Pos : ps[j].totalBet \in Nat
  BY Fields
<1>2. PICK j \in Pos : j # i
  BY AnotherPosition
<1>3. Matched(ps, i) => ps[i].totalBet <= SecondTotal(ps, i)
  BY <1>1, SecondBounds DEF Matched
<1>4. ASSUME ps[i].totalBet <= SecondTotal(ps, i) PROVE Matched(ps, i)
  BY <1>1, <1>2, <1>4, SecondBounds DEF Matched
<1> QED BY <1>3, <1>4

\* Fewer than two elements: any two are the same.
LEMMA FewIsOne ==
  ASSUME NEW S \in SUBSET Pos
  PROVE  Cardinality(S) < 2 <=> \A x, y \in S : x = y
<1>1. IsFiniteSet(S) /\ Cardinality(S) \in Nat
  BY PosFinite, NAssumption
<1>2. ASSUME NEW x \in S, NEW y \in S, x # y PROVE ~(Cardinality(S) < 2)
  <2>1. IsFiniteSet({x}) /\ Cardinality({x}) = 1
    BY FS_Singleton
  <2>2. Cardinality({x} \cup {y}) = 2
    BY <1>2, <2>1, FS_AddElement
  <2>3. Cardinality({x} \cup {y}) <= Cardinality(S)
    BY <1>1, FS_Subset
  <2> QED BY <1>1, <2>2, <2>3
<1>3. ASSUME \A x, y \in S : x = y PROVE Cardinality(S) < 2
  <2>1. CASE S = {}
    BY <2>1, FS_EmptySet
  <2>2. CASE S # {}
    <3>1. PICK x \in S : S = {x}
      BY <1>3, <2>2
    <3> QED BY <3>1, FS_Singleton
  <2> QED BY <2>1, <2>2
<1> QED BY <1>2, <1>3

(***************************************************************************)
(* The inductive invariant.                                                *)
(***************************************************************************)

\* A betting round in the middle of a street.  b is what the earlier streets
\* took from everybody who can still act: a bet stands on top of it, nobody has
\* more than b without a bet, and whoever goes, somebody has b.
StreetBase(ps, b) ==
  /\ \A i \in Pos : ps[i].totalBet <= b + ps[i].bet
  /\ \A i \in Pos : ps[i].bet > 0 \/ i \in CanAct(ps) => ps[i].totalBet = b + ps[i].bet
  /\ \A i \in Pos : \E j \in Pos \ {i} : ps[j].totalBet >= b

\* An all-in is the player's own act, or a blind, or matched.
Answered(ps, d) ==
  \A i \in AllIns(ps) : ps[i].called \/ d[i] <= BigBlind \/ Matched(ps, i)

BettingOn(ps, d) == Answered(ps, d) /\ \E b \in Nat : StreetBase(ps, b)

\* Whoever has less in than another has nothing left to put in.
Closed(ps, d) ==
  \A i \in InHand(ps) : ps[i].totalBet = d[i] \/ \A j \in Pos : ps[i].totalBet >= ps[j].totalBet

\* A hand in which nobody can bet any more: every bet is matched, only two have
\* chips (one of them a refund), and only a refunded blind is not called.
BettingOver(ps, d) ==
  /\ \A i \in InHand(ps) : Matched(ps, i)
  /\ Closed(ps, d)
  /\ \E i, j \in Pos : CanAct(ps) \subseteq {i, j}
  /\ \A i \in Waiting(ps) : d[i] <= BigBlind /\ ~ps[i].called /\ ps[i].stack > 0

\* The board shows the stage.
BoardShows(st, b) ==
  /\ st = PreFlop => b = 0
  /\ st = Flop => b = 3
  /\ st = Turn => b = 4
  /\ st = River => b = 5

TurnInv ==
  /\ ActorCanAct
  /\ \A i \in InHand(players) : i < np /\ players[i].ready
  /\ betting => BettingOn(players, dealt)
  /\ InPlay /\ ~betting => BettingOver(players, dealt)
  /\ BoardShows(stage, board)

\* In a betting round the highest total is a call above the base.
LEMMA BaseAndCall ==
  ASSUME NEW ps \in Table, NEW b \in Nat, StreetBase(ps, b)
  PROVE  \A i \in Pos : /\ ps[i].totalBet <= b + ToCall(ps)
                        /\ i \in CanAct(ps) /\ ps[i].bet >= ToCall(ps)
                             => ps[i].totalBet = b + ToCall(ps)
<1> SUFFICES ASSUME NEW i \in Pos
             PROVE  /\ ps[i].totalBet <= b + ToCall(ps)
                    /\ i \in CanAct(ps) /\ ps[i].bet >= ToCall(ps)
                         => ps[i].totalBet = b + ToCall(ps)
  OBVIOUS
<1>1. /\ ps[i].bet \in Nat /\ ps[i].totalBet \in Nat /\ ps[i].bet <= ToCall(ps)
      /\ ToCall(ps) \in Nat
  BY Fields, ToCallBounds
<1>2. /\ ps[i].totalBet <= b + ps[i].bet
      /\ i \in CanAct(ps) => ps[i].totalBet = b + ps[i].bet
  BY DEF StreetBase
<1> QED BY <1>1, <1>2

LEMMA TurnInvImplies == IInv /\ TurnInv => TurnIsRight
<1> SUFFICES ASSUME IInv, TurnInv PROVE TurnIsRight
  OBVIOUS
<1>1. players \in Table /\ actionNum \in Pos
  BY DEF IInv, TypeOK, Table
<1>2. ActorCanAct
  BY DEF TurnInv
<1>3. CallAmountAgrees
  <2> SUFFICES ASSUME betting
               PROVE  Highest(N, Totals(players)) - players[actionNum].totalBet = Owed(actionNum)
    BY DEF CallAmountAgrees
  <2> DEFINE a == actionNum
             T == Totals(players)
             h == Highest(N, T)
  <2>1. PICK b \in Nat : StreetBase(players, b)
    BY DEF TurnInv, BettingOn
  <2>2. a \in CanAct(players)
    BY <1>1, <1>2 DEF ActorCanAct, CanAct, InHand, AllIns, AllIn
  <2>3. players[a].totalBet = b + players[a].bet
    BY <1>1, <2>1, <2>2 DEF StreetBase
  <2>4. /\ T \in [Pos -> Nat] /\ h \in Nat /\ \A i \in Pos : T[i] <= h
        /\ h = 0 \/ \E i \in Pos : h = T[i]
    BY <1>1, ReadingTypes, HighestPos
  <2>5. \A i \in Pos : T[i] = players[i].totalBet
    BY DEF Totals
  <2> HIDE DEF a, T, h
  <2>6. \A i \in Pos : /\ players[i].bet \in Nat /\ players[i].totalBet \in Nat
                       /\ players[i].totalBet <= b + ToCall(players)
    BY <1>1, <2>1, Fields, BaseAndCall
  <2>7. h <= b + ToCall(players)
    <3>1. ToCall(players) \in Nat
      BY <1>1, ToCallBounds
    <3> QED BY <2>4, <2>5, <2>6, <3>1
  <2>8. h >= b + ToCall(players)
    <3>1. CASE ToCall(players) = 0
      <4>1. h >= players[a].totalBet
        BY <1>1, <2>4, <2>5 DEF a
      <4> QED BY <1>1, <2>3, <2>4, <2>6, <3>1, <4>1 DEF a
    <3>2. CASE ToCall(players) # 0
      <4>1. PICK i \in Pos : ToCall(players) = players[i].bet
        BY <1>1, <3>2, ToCallBounds
      <4>2. players[i].totalBet = b + players[i].bet
        BY <2>1, <2>6, <3>2, <4>1 DEF StreetBase
      <4> QED BY <2>4, <2>5, <2>6, <4>1, <4>2
    <3> QED BY <3>1, <3>2
  <2>9. h = b + ToCall(players) /\ ToCall(players) \in Nat
    BY <1>1, <2>4, <2>7, <2>8, ToCallBounds
  <2>10. players[a].bet \in Nat
    BY <1>1, <2>6 DEF a
  <2> QED BY <2>3, <2>9, <2>10 DEF a, T, h, Owed
<1>4. NoOneWaitsOnDeadBetting
  BY DEF TurnInv, BettingOver, NoOneWaitsOnDeadBetting, RefundedBlind
<1>5. ReadyWhileIn
  <2>1. Seated(np) \in SUBSET Pos
    BY SeatedType DEF IInv
  <2> QED BY <2>1 DEF TurnInv, ReadyWhileIn, InHand
<1> QED BY <1>2, <1>3, <1>4, <1>5 DEF TurnIsRight

(***************************************************************************)
(* The uncalled bet.                                                       *)
(***************************************************************************)

\* What ReturnUncalled does to a player with more in than anybody else.
LEMMA RefundOne ==
  ASSUME NEW ps \in Table, NEW i \in Pos, ps[i].in, ~Matched(ps, i)
  PROVE  LET q   == ReturnUncalled(ps)[i]
             s   == SecondTotal(ps, i)
             amt == ps[i].totalBet - s
         IN  /\ s \in Nat /\ s < ps[i].totalBet
             /\ q.totalBet = s /\ q.stack = ps[i].stack + amt
             /\ q.bet = ps[i].bet - AtMost(amt, ps[i].bet)
             /\ q.in = ps[i].in /\ q.called = ps[i].called
             /\ q.ready = ps[i].ready /\ q.left = ps[i].left
<1> DEFINE amt == ps[i].totalBet - SecondTotal(ps, i)
           back == AtMost(amt, ps[i].bet)
<1>1. /\ ps[i] \in Player /\ ps[i].totalBet \in Nat /\ SecondTotal(ps, i) \in Nat
      /\ SecondTotal(ps, i) < ps[i].totalBet
  BY Fields, SecondBounds, MatchedSecond
<1>2. ReturnUncalled(ps)[i] =
        [ps[i] EXCEPT !.totalBet = @ - amt, !.stack = @ + amt, !.bet = @ - back]
  BY <1>1 DEF ReturnUncalled, ReturnChips
<1>3. ps[i].totalBet - amt = SecondTotal(ps, i)
  BY <1>1
<1> HIDE DEF amt, back
<1>4. /\ ReturnUncalled(ps)[i].totalBet = ps[i].totalBet - amt
      /\ ReturnUncalled(ps)[i].stack = ps[i].stack + amt
      /\ ReturnUncalled(ps)[i].bet = ps[i].bet - back
      /\ ReturnUncalled(ps)[i].in = ps[i].in
      /\ ReturnUncalled(ps)[i].called = ps[i].called
      /\ ReturnUncalled(ps)[i].ready = ps[i].ready
      /\ ReturnUncalled(ps)[i].left = ps[i].left
  BY <1>1, <1>2 DEF Player
<1> QED BY <1>1, <1>3, <1>4 DEF amt, back

\* Everybody else keeps everything.
LEMMA RefundOthers ==
  ASSUME NEW ps \in Table, NEW i \in Pos, ~ps[i].in \/ Matched(ps, i)
  PROVE  ReturnUncalled(ps)[i] = ps[i]
<1>1. ps[i].totalBet \in Nat /\ SecondTotal(ps, i) \in Nat
  BY Fields, SecondBounds
<1>2. ~(ps[i].in /\ ps[i].totalBet > SecondTotal(ps, i))
  BY <1>1, MatchedSecond
<1> QED BY <1>2 DEF ReturnUncalled

\* At most one player has more in than everybody else.
LEMMA OneUnmatched ==
  ASSUME NEW ps \in Table, NEW i \in Pos, ~Matched(ps, i), NEW j \in Pos, j # i
  PROVE  Matched(ps, j) /\ ps[j].totalBet < ps[i].totalBet
<1>1. ps[i].totalBet \in Nat /\ ps[j].totalBet \in Nat
  BY Fields
<1> QED BY <1>1 DEF Matched

\* Nothing comes back while every bet is matched.
LEMMA NothingUncalled ==
  ASSUME NEW ps \in Table, \A i \in InHand(ps) : Matched(ps, i)
  PROVE  Settled(ps) = ps
<1>1. \A i \in Pos : ReturnUncalled(ps)[i] = ps[i]
  BY RefundOthers DEF InHand
<1>2. ReturnUncalled(ps) = [i \in Pos |-> ReturnUncalled(ps)[i]]
  BY DEF ReturnUncalled
<1>3. ps = [i \in Pos |-> ps[i]]
  BY DEF Table
<1> QED BY <1>1, <1>2, <1>3 DEF Settled

\* In a betting round an uncalled bet was made on this street: it comes off the
\* street bet in full, and what is left of that is a call for everybody else.
LEMMA RefundOnStreet ==
  ASSUME NEW ps \in Table, NEW b \in Nat, StreetBase(ps, b),
         NEW i \in Pos, ps[i].in, ~Matched(ps, i)
  PROVE  LET q == ReturnUncalled(ps)[i]
         IN  /\ q.bet \in Nat /\ q.totalBet \in Nat
             /\ q.totalBet < ps[i].totalBet
             /\ ps[i].totalBet - q.totalBet = ps[i].bet - q.bet
             /\ \A j \in Pos \ {i} : ps[j].bet <= q.bet /\ ps[j].totalBet <= q.totalBet
             /\ q.stack > 0
<1> DEFINE q == ReturnUncalled(ps)[i]
           s == SecondTotal(ps, i)
<1>1. /\ s \in Nat /\ s < ps[i].totalBet /\ q.totalBet = s
      /\ q.stack = ps[i].stack + (ps[i].totalBet - s)
      /\ q.bet = ps[i].bet - AtMost(ps[i].totalBet - s, ps[i].bet)
  BY RefundOne
<1>2. \A j \in Pos : ps[j].bet \in Nat /\ ps[j].totalBet \in Nat /\ ps[j].stack \in Nat
  BY Fields
<1>3. \A j \in Pos \ {i} : ps[j].totalBet <= s
  BY SecondBounds
<1> HIDE DEF q, s
<1>4. b <= s
  <2>1. PICK j \in Pos \ {i} : ps[j].totalBet >= b
    BY DEF StreetBase
  <2> QED BY <1>1, <1>2, <1>3, <2>1
<1>5. ps[i].totalBet = b + ps[i].bet
  <2>1. ps[i].totalBet <= b + ps[i].bet
    BY DEF StreetBase
  <2>2. ps[i].bet > 0
    BY <1>1, <1>2, <1>4, <2>1
  <2> QED BY <2>2 DEF StreetBase
<1>6. q.bet = s - b
  <2>1. ps[i].totalBet - s <= ps[i].bet /\ ps[i].totalBet - s \in Nat
    BY <1>1, <1>2, <1>4, <1>5
  <2>2. q.bet = ps[i].bet - (ps[i].totalBet - s)
    BY <1>1, <2>1 DEF AtMost
  <2> QED BY <1>1, <1>2, <1>5, <2>2
<1>7. ASSUME NEW j \in Pos \ {i} PROVE ps[j].bet <= s - b
  <2>1. CASE ps[j].bet = 0
    BY <1>1, <1>4, <2>1
  <2>2. CASE ps[j].bet > 0
    <3>1. ps[j].totalBet = b + ps[j].bet
      BY <2>2 DEF StreetBase
    <3> QED BY <1>1, <1>2, <1>3, <3>1
  <2> QED BY <1>2, <2>1, <2>2
<1>8. q.stack > 0
  BY <1>1, <1>2
<1> QED BY <1>1, <1>2, <1>3, <1>4, <1>5, <1>6, <1>7, <1>8 DEF q

(***************************************************************************)
(* Players going out of the hand.                                          *)
(***************************************************************************)

\* From ps to qs players at most go out of the hand, and get ready or not.
GoingOut(ps, qs) ==
  \A i \in Pos : /\ qs[i].in => ps[i].in
                 /\ qs[i].called = ps[i].called /\ qs[i].stack = ps[i].stack
                 /\ qs[i].bet = ps[i].bet /\ qs[i].totalBet = ps[i].totalBet

LEMMA GoingOutReads ==
  ASSUME NEW ps \in Table, NEW qs \in Table, GoingOut(ps, qs)
  PROVE  /\ InHand(qs) \subseteq InHand(ps) /\ AllIns(qs) \subseteq AllIns(ps)
         /\ CanAct(qs) \subseteq CanAct(ps)
         /\ ToCall(qs) = ToCall(ps)
         /\ Waiting(qs) \subseteq Waiting(ps)
<1>1. [i \in Pos |-> qs[i].bet] = [i \in Pos |-> ps[i].bet]
  BY DEF GoingOut
<1>2. ToCall(qs) = ToCall(ps)
  BY <1>1 DEF ToCall
<1>3. InHand(qs) \subseteq InHand(ps) /\ AllIns(qs) \subseteq AllIns(ps)
      /\ CanAct(qs) \subseteq CanAct(ps)
  BY DEF GoingOut, InHand, AllIns, CanAct, AllIn
<1>4. Waiting(qs) \subseteq Waiting(ps)
  <2> SUFFICES ASSUME NEW i \in Waiting(qs) PROVE i \in Waiting(ps)
    OBVIOUS
  <2>1. i \in Pos /\ qs[i].in /\ ~IsCalled(qs, i)
    BY DEF Waiting, InHand
  <2>2. ps[i].in /\ ~IsCalled(ps, i)
    BY <1>2, <2>1 DEF GoingOut, IsCalled, AllIn
  <2> QED BY <2>1, <2>2 DEF Waiting, InHand
<1> QED BY <1>2, <1>3, <1>4

LEMMA GoingOutBetting ==
  ASSUME NEW ps \in Table, NEW qs \in Table, GoingOut(ps, qs), NEW d
  PROVE  /\ \A b \in Nat : StreetBase(ps, b) => StreetBase(qs, b)
         /\ BettingOn(ps, d) => BettingOn(qs, d)
         /\ BettingOver(ps, d) => BettingOver(qs, d)
<1>1. /\ InHand(qs) \subseteq InHand(ps) /\ AllIns(qs) \subseteq AllIns(ps)
      /\ CanAct(qs) \subseteq CanAct(ps) /\ Waiting(qs) \subseteq Waiting(ps)
  BY GoingOutReads
<1>2. AllIns(ps) \subseteq Pos /\ InHand(ps) \subseteq Pos /\ Waiting(ps) \subseteq Pos
  BY ReadingTypes
<1>3. \A i \in Pos : Matched(ps, i) => Matched(qs, i)
  BY DEF GoingOut, Matched
<1>4. ASSUME NEW b \in Nat, StreetBase(ps, b) PROVE StreetBase(qs, b)
  <2>1. \A i \in Pos : qs[i].bet = ps[i].bet /\ qs[i].totalBet = ps[i].totalBet
    BY DEF GoingOut
  <2> QED BY <1>1, <1>4, <2>1 DEF StreetBase
<1>5. Answered(ps, d) => Answered(qs, d)
  BY <1>1, <1>2, <1>3 DEF Answered, GoingOut
<1>6. Closed(ps, d) => Closed(qs, d)
  BY <1>1, <1>2 DEF Closed, GoingOut
<1>7. ASSUME BettingOver(ps, d) PROVE BettingOver(qs, d)
  <2>1. \A i \in InHand(qs) : Matched(qs, i)
    BY <1>1, <1>2, <1>3, <1>7 DEF BettingOver
  <2>2. \E i, j \in Pos : CanAct(qs) \subseteq {i, j}
    BY <1>1, <1>7 DEF BettingOver
  <2>3. \A i \in Waiting(qs) : d[i] <= BigBlind /\ ~qs[i].called /\ qs[i].stack > 0
    BY <1>1, <1>2, <1>7 DEF BettingOver, GoingOut
  <2> QED BY <1>6, <1>7, <2>1, <2>2, <2>3 DEF BettingOver
<1> QED BY <1>4, <1>5, <1>7 DEF BettingOn

LEMMA FoldDepartedGoesOut ==
  ASSUME NEW ps \in Table
  PROVE  /\ GoingOut(ps, FoldDeparted(ps))
         /\ \A i \in Pos : FoldDeparted(ps)[i].in /\ ps[i].ready => FoldDeparted(ps)[i].ready
         /\ \A i \in CanAct(FoldDeparted(ps)) : ~FoldDeparted(ps)[i].left
<1> SUFFICES ASSUME NEW i \in Pos
             PROVE  LET q == FoldDeparted(ps)[i]
                    IN  /\ q.in => ps[i].in
                        /\ q.called = ps[i].called /\ q.stack = ps[i].stack
                        /\ q.bet = ps[i].bet /\ q.totalBet = ps[i].totalBet
                        /\ q.in /\ ps[i].ready => q.ready
                        /\ q.in /\ ~AllIn(q) => ~q.left
  BY DEF GoingOut, CanAct, InHand, AllIns
<1>1. ps[i] \in Player
  BY Fields
<1> QED BY <1>1 DEF FoldDeparted, AllIn, Player

(***************************************************************************)
(* The end of a street.                                                    *)
(***************************************************************************)

\* Everyone is called: whoever has less in than another is all-in.
LEMMA CalledIsClosed ==
  ASSUME NEW ps \in Table, NEW d, NEW b \in Nat, StreetBase(ps, b), Waiting(ps) = {},
         \A i \in Pos : ps[i].stack + ps[i].totalBet = d[i]
  PROVE  /\ Closed(ps, d)
         /\ \A i \in CanAct(ps) : ps[i].called /\ ps[i].totalBet = b + ToCall(ps)
<1> SUFFICES ASSUME NEW i \in InHand(ps)
             PROVE  /\ i \notin AllIns(ps) => ps[i].called /\ ps[i].totalBet = b + ToCall(ps)
                    /\ ps[i].totalBet = d[i] \/ \A j \in Pos : ps[i].totalBet >= ps[j].totalBet
  BY DEF Closed, CanAct
<1>1. i \in Pos /\ ps[i].in /\ IsCalled(ps, i)
  BY DEF InHand, Waiting
<1>2. ps[i].totalBet \in Nat /\ \A j \in Pos : ps[j].totalBet \in Nat
  BY <1>1, Fields
<1>3. CASE AllIn(ps[i])
  <2>1. ps[i].totalBet = d[i]
    BY <1>1, <1>2, <1>3 DEF AllIn
  <2> QED BY <1>1, <1>3, <2>1 DEF AllIns
<1>4. CASE ~AllIn(ps[i])
  <2>1. i \in CanAct(ps) /\ ps[i].called /\ ps[i].bet >= ToCall(ps)
    BY <1>1, <1>4 DEF CanAct, InHand, AllIns, IsCalled
  <2>2. ps[i].totalBet = b + ToCall(ps)
    BY <1>1, <2>1, BaseAndCall
  <2>3. \A j \in Pos : ps[j].totalBet <= b + ToCall(ps)
    BY BaseAndCall
  <2>4. ToCall(ps) \in Nat
    BY ToCallBounds
  <2> QED BY <1>2, <2>1, <2>2, <2>3, <2>4
<1> QED BY <1>3, <1>4

\* The next street starts from what everybody who can act has put in.
LEMMA NextStreetBase ==
  ASSUME NEW ps \in Table, NEW d, NEW b \in Nat, StreetBase(ps, b), Waiting(ps) = {}, ~Few(ps),
         \A i \in Pos : ps[i].stack + ps[i].totalBet = d[i]
  PROVE  BettingOn(ClearStreet(ps), d)
<1> DEFINE qs == ClearStreet(ps)
           c == b + ToCall(ps)
<1>1. ASSUME NEW i \in Pos
      PROVE  /\ qs[i].bet = 0 /\ ~qs[i].called /\ qs[i].totalBet = ps[i].totalBet
             /\ qs[i].in = ps[i].in /\ qs[i].stack = ps[i].stack
             /\ ps[i].totalBet \in Nat /\ ps[i].totalBet <= c
  <2>1. ps[i] \in Player /\ ps[i].totalBet \in Nat /\ ps[i].totalBet <= c
    BY Fields, BaseAndCall
  <2> QED BY <2>1 DEF ClearStreet, Player
<1>2. c \in Nat
  BY ToCallBounds
<1>3. CanAct(qs) = CanAct(ps) /\ AllIns(qs) = AllIns(ps)
  BY <1>1 DEF CanAct, InHand, AllIns, AllIn
<1>4. CanAct(ps) \in SUBSET Pos
  BY ReadingTypes
<1>5. PICK x \in CanAct(ps), y \in CanAct(ps) : x # y
  BY <1>4, FewIsOne DEF Few
<1>6. \A i \in CanAct(ps) : ps[i].totalBet = c
  BY CalledIsClosed
<1> HIDE DEF qs, c
<1>7. StreetBase(qs, c)
  <2>1. ASSUME NEW i \in Pos PROVE qs[i].totalBet <= c + qs[i].bet
    BY <1>1, <1>2
  <2>2. ASSUME NEW i \in Pos, qs[i].bet > 0 \/ i \in CanAct(qs) PROVE qs[i].totalBet = c + qs[i].bet
    BY <1>1, <1>2, <1>3, <1>6, <2>2
  <2>3. ASSUME NEW i \in Pos PROVE \E j \in Pos \ {i} : qs[j].totalBet >= c
    BY <1>1, <1>2, <1>4, <1>5, <1>6
  <2> QED BY <2>1, <2>2, <2>3 DEF StreetBase
<1>8. Answered(qs, d)
  <2> SUFFICES ASSUME NEW i \in AllIns(qs) PROVE Matched(qs, i)
    BY DEF Answered
  <2>1. i \in Pos /\ i # x /\ x \in Pos /\ ps[x].totalBet = c
    BY <1>3, <1>4, <1>5, <1>6 DEF AllIns, CanAct
  <2> QED BY <1>1, <1>2, <2>1 DEF Matched
<1> QED BY <1>2, <1>7, <1>8 DEF BettingOn, qs

\* With at most one player able to act, betting is over once the uncalled bet
\* has gone back.
LEMMA RunOutIsOver ==
  ASSUME NEW ps \in Table, NEW d, NEW b \in Nat, StreetBase(ps, b), Answered(ps, d),
         Waiting(ps) = {}, Few(ps),
         \A i \in Pos : ps[i].stack + ps[i].totalBet = d[i]
  PROVE  BettingOver(Settled(ps), d)
<1> DEFINE qs == ReturnUncalled(ps)
<1>1. Settled(ps) = qs
  BY DEF Settled
<1>2. Closed(ps, d)
  BY CalledIsClosed
<1>3. CanAct(ps) \in SUBSET Pos /\ \A x, y \in CanAct(ps) : x = y
  BY ReadingTypes, FewIsOne DEF Few
<1>4. CASE \A i \in InHand(ps) : Matched(ps, i)
  <2>1. Settled(ps) = ps
    BY <1>4, NothingUncalled
  <2>2. \E i, j \in Pos : CanAct(ps) \subseteq {i, j}
    <3>1. CASE CanAct(ps) = {}
      BY <3>1, NAssumption DEF Pos
    <3>2. CASE CanAct(ps) # {}
      BY <1>3, <3>2
    <3> QED BY <3>1, <3>2
  <2> QED BY <1>2, <1>4, <2>1, <2>2 DEF BettingOver
<1>5. CASE ~\A i \in InHand(ps) : Matched(ps, i)
  <2>1. PICK k \in Pos : ps[k].in /\ ~Matched(ps, k)
    BY <1>5 DEF InHand
  <2>2. ASSUME NEW j \in Pos, j # k
        PROVE  qs[j] = ps[j] /\ ps[j].totalBet < ps[k].totalBet
    <3>1. Matched(ps, j) /\ ps[j].totalBet < ps[k].totalBet
      BY <2>1, <2>2, OneUnmatched
    <3> QED BY <3>1, RefundOthers
  <2>3. /\ qs[k].in /\ qs[k].called = ps[k].called /\ qs[k].stack > 0
        /\ qs[k].bet \in Nat /\ qs[k].totalBet \in Nat
        /\ qs[k].totalBet = SecondTotal(ps, k)
        /\ ps[k].totalBet - qs[k].totalBet = ps[k].bet - qs[k].bet
        /\ qs[k].totalBet < ps[k].totalBet
        /\ \A j \in Pos \ {k} : ps[j].bet <= qs[k].bet /\ ps[j].totalBet <= qs[k].totalBet
    BY <2>1, RefundOne, RefundOnStreet
  <2>4. qs \in Table
    BY ReturnUncalledKeeps
  <2>5. \A j \in Pos : /\ ps[j].bet \in Nat /\ ps[j].totalBet \in Nat
                       /\ qs[j].bet \in Nat /\ qs[j].totalBet \in Nat
    BY <2>4, Fields
  <2> HIDE DEF qs
  <2>6. ToCall(qs) \in Nat /\ ToCall(qs) <= ToCall(ps) /\ ToCall(qs) <= qs[k].bet
    <3>1. \A j \in Pos : qs[j].bet <= ps[j].bet /\ qs[j].bet <= qs[k].bet
      BY <2>2, <2>3, <2>5
    <3>2. ToCall(qs) \in Nat /\ ToCall(ps) \in Nat /\ \A j \in Pos : ps[j].bet <= ToCall(ps)
      BY <2>4, ToCallBounds
    <3>3. CASE ToCall(qs) = 0
      BY <2>5, <3>2, <3>3
    <3>4. CASE ToCall(qs) # 0
      <4>1. PICK j \in Pos : ToCall(qs) = qs[j].bet
        BY <2>4, <3>4, ToCallBounds
      <4> QED BY <2>5, <3>1, <3>2, <4>1
    <3> QED BY <3>3, <3>4
  <2>7. \A i \in InHand(qs) : Matched(qs, i)
    <3> SUFFICES ASSUME NEW i \in Pos PROVE Matched(qs, i)
      BY DEF InHand
    <3>1. CASE i # k
      BY <2>2, <2>3, <3>1 DEF Matched
    <3>2. CASE i = k
      <4>1. CASE SecondTotal(ps, k) = 0
        BY <2>3, <2>5, <3>2, <4>1, AnotherPosition DEF Matched
      <4>2. CASE \E j \in Pos \ {k} : SecondTotal(ps, k) = ps[j].totalBet
        BY <2>2, <2>3, <2>5, <3>2, <4>2 DEF Matched
      <4> QED BY <4>1, <4>2, SecondBounds
    <3> QED BY <3>1, <3>2
  <2>8. Closed(qs, d)
    <3> SUFFICES ASSUME NEW i \in InHand(qs)
                 PROVE  qs[i].totalBet = d[i] \/ \A j \in Pos : qs[i].totalBet >= qs[j].totalBet
      BY DEF Closed
    <3>1. i \in Pos
      BY DEF InHand
    <3>2. CASE i = k
      BY <2>2, <2>3, <2>5, <3>2
    <3>3. CASE i # k
      <4>1. i \in InHand(ps) /\ ps[i].totalBet < ps[k].totalBet
        BY <2>2, <3>1, <3>3 DEF InHand
      <4>2. ps[i].totalBet = d[i]
        BY <1>2, <2>5, <3>1, <4>1 DEF Closed
      <4> QED BY <2>2, <3>1, <3>3, <4>2
    <3> QED BY <3>2, <3>3
  <2>9. \E i, j \in Pos : CanAct(qs) \subseteq {i, j}
    <3>1. CanAct(qs) \ {k} \subseteq CanAct(ps) /\ CanAct(qs) \subseteq Pos
      BY <2>2 DEF CanAct, InHand, AllIns
    <3>2. CASE CanAct(ps) = {}
      BY <3>1, <3>2
    <3>3. CASE CanAct(ps) # {}
      BY <1>3, <3>1, <3>3
    <3> QED BY <3>2, <3>3
  <2>10. ASSUME NEW i \in Waiting(qs)
         PROVE  d[i] <= BigBlind /\ ~qs[i].called /\ qs[i].stack > 0
    <3>1. i \in Pos /\ qs[i].in /\ ~IsCalled(qs, i)
      BY DEF Waiting, InHand
    <3>2. CASE i # k
      <4>1. qs[i] = ps[i]
        BY <2>2, <3>1, <3>2
      <4>2. IsCalled(ps, i)
        BY <3>1, <4>1 DEF Waiting, InHand
      <4>3. ToCall(ps) \in Nat /\ ps[i].bet \in Nat
        BY <2>5, <3>1, ToCallBounds
      <4>4. IsCalled(qs, i)
        BY <2>6, <4>1, <4>2, <4>3 DEF IsCalled
      <4> QED BY <3>1, <4>4
    <3>3. CASE i = k
      <4>1. IsCalled(ps, k) /\ ~qs[k].called
        BY <2>1, <2>3, <2>6, <3>1, <3>3 DEF Waiting, InHand, IsCalled
      <4>2. k \in AllIns(ps) /\ ~ps[k].called
        BY <2>3, <4>1 DEF IsCalled, AllIns
      <4> QED BY <2>1, <2>3, <3>3, <4>1, <4>2 DEF Answered
    <3> QED BY <3>2, <3>3
  <2> QED BY <1>1, <2>7, <2>8, <2>9, <2>10 DEF BettingOver
<1> QED BY <1>4, <1>5

\* What comes back is taken off the street bet as it is off the total.
BetsMove(ps, qs) ==
  \A i \in Pos : qs[i].totalBet - ps[i].totalBet = qs[i].bet - ps[i].bet

LEMMA SettledMoves ==
  ASSUME NEW ps \in Table, NEW b \in Nat, StreetBase(ps, b)
  PROVE  BetsMove(ps, Settled(ps))
<1> SUFFICES ASSUME NEW i \in Pos
             PROVE  LET q == Settled(ps)[i]
                    IN  q.totalBet - ps[i].totalBet = q.bet - ps[i].bet
  BY DEF BetsMove
<1>1. ps[i].totalBet \in Nat /\ ps[i].bet \in Nat
  BY Fields
<1>2. CASE Settled(ps) = ps
  BY <1>1, <1>2
<1>3. CASE Settled(ps) = ReturnUncalled(ps) /\ (~ps[i].in \/ Matched(ps, i))
  BY <1>1, <1>3, RefundOthers
<1>4. CASE Settled(ps) = ReturnUncalled(ps) /\ ps[i].in /\ ~Matched(ps, i)
  <2> DEFINE q == ReturnUncalled(ps)[i]
  <2>1. q.bet \in Nat /\ q.totalBet \in Nat /\ ps[i].totalBet - q.totalBet = ps[i].bet - q.bet
    BY <1>4, RefundOnStreet
  <2> HIDE DEF q
  <2>2. q.totalBet - ps[i].totalBet = q.bet - ps[i].bet
    BY <1>1, <2>1
  <2> QED BY <1>4, <2>2 DEF q
<1> QED BY <1>2, <1>3, <1>4 DEF Settled

\* So after it everybody is matched or all-in, as before.
LEMMA SettledIsClosed ==
  ASSUME NEW ps \in Table, NEW d, Closed(ps, d)
  PROVE  Closed(Settled(ps), d)
<1>1. CASE \A i \in InHand(ps) : Matched(ps, i)
  BY <1>1, NothingUncalled
<1>2. CASE ~\A i \in InHand(ps) : Matched(ps, i)
  <2> DEFINE qs == ReturnUncalled(ps)
  <2>1. PICK k \in Pos : ps[k].in /\ ~Matched(ps, k)
    BY <1>2 DEF InHand
  <2>2. ASSUME NEW j \in Pos, j # k
        PROVE  qs[j] = ps[j] /\ ps[j].totalBet < ps[k].totalBet
    <3>1. Matched(ps, j) /\ ps[j].totalBet < ps[k].totalBet
      BY <2>1, <2>2, OneUnmatched
    <3> QED BY <3>1, RefundOthers
  <2>3. qs[k].totalBet = SecondTotal(ps, k)
    BY <2>1, RefundOne
  <2>4. SecondTotal(ps, k) \in Nat /\ \A j \in Pos \ {k} : ps[j].totalBet <= SecondTotal(ps, k)
    BY SecondBounds
  <2>5. \A j \in Pos : ps[j].totalBet \in Nat
    BY Fields
  <2> HIDE DEF qs
  <2>6. Closed(qs, d)
    <3> SUFFICES ASSUME NEW i \in InHand(qs)
                 PROVE  qs[i].totalBet = d[i] \/ \A j \in Pos : qs[i].totalBet >= qs[j].totalBet
      BY DEF Closed
    <3>1. i \in Pos
      BY DEF InHand
    <3>2. CASE i = k
      BY <2>2, <2>3, <2>4, <2>5, <3>2
    <3>3. CASE i # k
      <4>1. i \in InHand(ps) /\ ps[i].totalBet < ps[k].totalBet
        BY <2>2, <3>1, <3>3 DEF InHand
      <4>2. ps[i].totalBet = d[i]
        BY <2>5, <3>1, <4>1 DEF Closed
      <4> QED BY <2>2, <3>1, <3>3, <4>2
    <3> QED BY <3>2, <3>3
  <2> QED BY <2>6 DEF Settled, qs
<1> QED BY <1>1, <1>2

\* Paying changes stacks only.
LEMMA PayingKeepsBets ==
  ASSUME NEW ps \in Table, NEW qs,
         \/ qs = PayLastPlayer(ps)
         \/ \E allIns, sc, d, n : qs = PayShowdown(ps, allIns, sc, d, n)
  PROVE  \A i \in Pos : /\ qs[i].in = ps[i].in /\ qs[i].ready = ps[i].ready
                        /\ qs[i].bet = ps[i].bet /\ qs[i].totalBet = ps[i].totalBet
<1> SUFFICES ASSUME NEW i \in Pos
             PROVE  /\ qs[i].in = ps[i].in /\ qs[i].ready = ps[i].ready
                    /\ qs[i].bet = ps[i].bet /\ qs[i].totalBet = ps[i].totalBet
  OBVIOUS
<1>1. ps[i] \in Player
  BY Fields
<1>2. qs[i] = ps[i] \/ \E amt : qs[i] = [ps[i] EXCEPT !.stack = @ + amt]
  <2>1. CASE qs = PayLastPlayer(ps)
    <3> DEFINE pot == Sum(N, Totals(ps))
    <3>1. qs[i] = IF ps[i].in /\ ~ps[i].left THEN [ps[i] EXCEPT !.stack = @ + pot] ELSE ps[i]
      BY <2>1 DEF PayLastPlayer
    <3> HIDE DEF pot
    <3> QED BY <3>1
  <2>2. ASSUME NEW allIns, NEW sc, NEW d, NEW n, qs = PayShowdown(ps, allIns, sc, d, n)
        PROVE  \E amt : qs[i] = [ps[i] EXCEPT !.stack = @ + amt]
    <3> DEFINE w == Winnings(AllPots(Totals(ps), InHand(ps), allIns, AllIns(ps)), sc, Left(ps), d, n, i)
    <3>1. qs[i] = [ps[i] EXCEPT !.stack = @ + w]
      BY <2>2 DEF PayShowdown
    <3> HIDE DEF w
    <3> QED BY <3>1
  <2> QED BY <2>1, <2>2
<1> QED BY <1>1, <1>2 DEF Player

(***************************************************************************)
(* updateRoundInfo.                                                        *)
(***************************************************************************)

\* What an operation hands to updateRoundInfo: either a betting round, or a
\* hand in which betting is over, or the showdown.
Handed(ps, at, d) ==
  /\ at.betting => at.stage # Showdown /\ BettingOn(ps, d)
  /\ at.stage # Showdown /\ ~at.betting =>
       BettingOver(ps, d) /\ (Few(ps) \/ at.stage = River)
  /\ at.stage # Showdown => \A i \in Pos : ps[i].stack + ps[i].totalBet = d[i]
  /\ \A i \in InHand(ps) : i < np /\ ps[i].ready
  /\ BoardShows(at.stage, at.board)

\* Departed players fold, and that is all that changes before updateRoundInfo
\* looks at the table.
LEMMA HandedFolds ==
  ASSUME NEW ps \in Table, NEW at, NEW d, Handed(ps, at, d)
  PROVE  Handed(FoldDeparted(ps), at, d)
<1> DEFINE qs == FoldDeparted(ps)
<1>1. /\ qs \in Table /\ GoingOut(ps, qs)
      /\ \A i \in Pos : qs[i].in /\ ps[i].ready => qs[i].ready
  BY FoldDepartedKeeps, FoldDepartedGoesOut
<1> HIDE DEF qs
<1>2. /\ BettingOn(ps, d) => BettingOn(qs, d)
      /\ BettingOver(ps, d) => BettingOver(qs, d)
  BY <1>1, GoingOutBetting
<1>3. Few(ps) => Few(qs)
  <2>1. CanAct(qs) \subseteq CanAct(ps) /\ CanAct(ps) \in SUBSET Pos
    BY <1>1, GoingOutReads, ReadingTypes
  <2>2. CanAct(qs) \in SUBSET Pos
    BY <2>1
  <2> QED BY <2>1, <2>2, FewIsOne DEF Few
<1>4. \A i \in InHand(qs) : i < np /\ qs[i].ready
  BY <1>1 DEF Handed, GoingOut, InHand
<1>5. ASSUME at.stage # Showdown, NEW i \in Pos PROVE qs[i].stack + qs[i].totalBet = d[i]
  BY <1>1, <1>5 DEF Handed, GoingOut
<1> QED BY <1>2, <1>3, <1>4, <1>5 DEF Handed, qs

\* The parts of TurnInv that concern everybody.
LEMMA UpdateKeepsTurn ==
  ASSUME IInv, NEW STATE before, before \in Table, NEW STATE at, at \in Moment,
         UpdateRoundInfo(before, at), np' = np, Handed(before, at, dealt')
  PROVE  TurnInv'
<1> USE DEF NotReady, PreFlop, Flop, Turn, River, Showdown
<1> DEFINE ps == FoldDeparted(before)
           d  == dealt'
<1>1. /\ ps \in Table /\ Handed(ps, at, d)
      /\ \A i \in CanAct(ps) : ~ps[i].left
  BY FoldDepartedKeeps, FoldDepartedGoesOut, HandedFolds
<1>2. /\ at.action \in Pos /\ at.stage \in PreFlop .. Showdown /\ at.betting \in BOOLEAN
      /\ dealerNum \in Pos /\ np \in 0 .. N /\ TypeOK
  BY DEF IInv, TypeOK, Moment
<1>3. Concede(ps, at) \/ MoveAction(ps, at) \/ ResolveShowdown(ps, at) \/ RunOut(ps, at)
      \/ DealStreet(ps, at) \/ FailToDeal(ps, at)
  BY DEF UpdateRoundInfo
<1> HIDE DEF ps, d
\* At the showdown nothing is left to show but who is in.
<1>4. ASSUME stage' = Showdown, betting' = FALSE, NEW qs \in Table,
             \A i \in Pos : qs[i].in = ps[i].in /\ qs[i].ready = ps[i].ready,
             \A i \in Pos : players'[i].in = qs[i].in /\ players'[i].ready = qs[i].ready
      PROVE  TurnInv'
  <2>1. \A i \in InHand(players') : i < np /\ players'[i].ready
    BY <1>1, <1>4 DEF Handed, InHand
  <2>2. ActorCanAct'
    BY <1>4 DEF ActorCanAct
  <2>3. BoardShows(stage', board')
    BY <1>4 DEF BoardShows
  <2>4. ~InPlay'
    BY <1>4 DEF InPlay
  <2> QED BY <1>4, <2>1, <2>2, <2>3, <2>4 DEF TurnInv
<1>5. CASE Concede(ps, at)
  <2>1. /\ stage' = Showdown /\ betting' = FALSE
        /\ \A i \in Pos : players'[i].in = ps[i].in /\ players'[i].ready = ps[i].ready
    BY <1>1, <1>5, PayingKeepsBets DEF Concede
  <2> QED BY <1>1, <1>4, <2>1
<1>6. CASE ResolveShowdown(ps, at)
  <2>1. PICK qs \in {Settled(ps)} : players' = PayShowdown(qs, AllIns(ps), score', dealerNum, np)
    BY <1>6 DEF ResolveShowdown
  <2>2. qs \in Table /\ \A i \in Pos : qs[i].in = ps[i].in /\ qs[i].ready = ps[i].ready
    <3>1. qs \in Table /\ (qs = ps \/ qs = ReturnUncalled(ps))
      BY <1>1, <2>1, SettledKeeps DEF Settled
    <3>2. \A i \in Pos : ReturnUncalled(ps)[i].in = ps[i].in /\ ReturnUncalled(ps)[i].ready = ps[i].ready
      BY <1>1, RefundOne, RefundOthers
    <3> QED BY <3>1, <3>2
  <2>3. stage' = Showdown /\ betting' = FALSE
    BY <1>6 DEF ResolveShowdown
  <2>4. \A i \in Pos : players'[i].in = qs[i].in /\ players'[i].ready = qs[i].ready
    BY <2>1, <2>2, PayingKeepsBets
  <2> QED BY <1>4, <2>2, <2>3, <2>4
<1>7. CASE FailToDeal(ps, at)
  <2>1. stage' = Showdown /\ betting' = FALSE /\ players' = ClearStreet(ps)
    BY <1>7 DEF FailToDeal
  <2>2. \A i \in Pos : ps[i] \in Player
    BY <1>1, Fields
  <2>3. \A i \in Pos : players'[i].in = ps[i].in /\ players'[i].ready = ps[i].ready
    BY <2>1, <2>2 DEF ClearStreet, Player
  <2> QED BY <1>1, <1>4, <2>1, <2>3
<1>8. CASE MoveAction(ps, at)
  <2>1. /\ players' = ps /\ stage' = at.stage /\ betting' = at.betting /\ board' = at.board
        /\ actionNum' = NextFrom(at.action, np, Waiting(ps)) /\ Waiting(ps) # {}
    BY <1>8 DEF MoveAction
  <2>2. actionNum' \in Waiting(ps)
    <3>1. at.action \in 0 .. N /\ Waiting(ps) \in SUBSET Pos
      BY <1>1, <1>2, ReadingTypes, NAssumption DEF Pos
    <3> QED BY <1>2, <2>1, <3>1, NextFromType
  <2>3. /\ actionNum' \in Pos /\ ps[actionNum'].in /\ ~IsCalled(ps, actionNum')
        /\ actionNum' \in CanAct(ps) /\ ps[actionNum'].stack > 0 /\ actionNum' < np
    <3>1. actionNum' \in Pos /\ ps[actionNum'].in /\ ~IsCalled(ps, actionNum')
      BY <2>2 DEF Waiting, InHand
    <3>2. ps[actionNum'].stack # 0 /\ ps[actionNum'].stack \in Nat
      BY <1>1, <3>1, Fields DEF IsCalled, AllIn
    <3> QED BY <1>1, <3>1, <3>2 DEF CanAct, InHand, AllIns, AllIn, Handed
  <2>4. ActorCanAct'
    BY <1>1, <1>2, <2>1, <2>3 DEF ActorCanAct, Handed, InPlay, IsCalled, AllIn, ToCall
  <2>5. \A i \in InHand(players') : i < np /\ players'[i].ready
    BY <1>1, <2>1 DEF Handed
  <2>6. betting' => BettingOn(players', dealt')
    BY <1>1, <2>1 DEF Handed, d
  <2>7. InPlay' /\ ~betting' => BettingOver(players', dealt')
    BY <1>1, <2>1 DEF Handed, InPlay, d
  <2>8. BoardShows(stage', board')
    BY <1>1, <2>1 DEF Handed
  <2> QED BY <2>4, <2>5, <2>6, <2>7, <2>8 DEF TurnInv
<1>9. CASE RunOut(ps, at)
  <2>1. /\ players' = Settled(ps) /\ stage' = at.stage /\ betting' = FALSE /\ board' = at.board
        /\ Few(ps) /\ Waiting(ps) = {}
    BY <1>9 DEF RunOut, AllCalled
  <2>2. \A i \in Pos : players'[i].in = ps[i].in /\ players'[i].ready = ps[i].ready
    BY <1>1, <2>1, RefundOne, RefundOthers DEF Settled
  <2>3. \A i \in InHand(players') : i < np /\ players'[i].ready
    BY <1>1, <2>2 DEF Handed, InHand
  <2>4. InPlay' => BettingOver(players', dealt')
    <3> SUFFICES ASSUME at.stage # Showdown PROVE BettingOver(Settled(ps), d)
      BY <2>1 DEF InPlay, d
    <3>1. CASE at.betting
      BY <1>1, <2>1, <3>1, RunOutIsOver DEF Handed, BettingOn
    <3>2. CASE ~at.betting
      <4>1. BettingOver(ps, d)
        BY <1>1, <3>2 DEF Handed
      <4>2. Settled(ps) = ps
        BY <1>1, <4>1, NothingUncalled DEF BettingOver
      <4> QED BY <4>1, <4>2
    <3> QED BY <3>1, <3>2
  <2>5. ActorCanAct' /\ BoardShows(stage', board')
    BY <1>1, <2>1 DEF ActorCanAct, Handed
  <2> QED BY <2>1, <2>3, <2>4, <2>5 DEF TurnInv
<1>10. CASE DealStreet(ps, at)
  <2>1. /\ players' = ClearStreet(ps) /\ stage' = at.stage + 1 /\ betting' = TRUE
        /\ at.stage \in PreFlop .. Turn /\ ~Few(ps) /\ Waiting(ps) = {}
        /\ actionNum' = NextFrom(After(dealerNum, np), np, CanAct(ps))
        /\ board' = (CASE at.stage = PreFlop -> 3 [] at.stage = Flop -> 4 [] at.stage = Turn -> 5)
    BY <1>10 DEF DealStreet, AllCalled
  <2>2. at.betting
    BY <1>1, <1>2, <2>1 DEF Handed
  <2>3. BettingOn(players', dealt')
    <3>1. PICK b \in Nat : StreetBase(ps, b)
      BY <1>1, <2>2 DEF Handed, BettingOn
    <3>2. \A i \in Pos : ps[i].stack + ps[i].totalBet = d[i]
      BY <1>1, <2>2 DEF Handed
    <3> QED BY <1>1, <2>1, <3>1, <3>2, NextStreetBase DEF d
  <2>4. actionNum' \in CanAct(ps)
    <3>1. CanAct(ps) \in SUBSET Pos
      BY <1>1, ReadingTypes
    <3>2. CanAct(ps) # {}
      BY <2>1, <3>1, ManyNotEmpty DEF Few
    <3> QED BY <1>2, <2>1, <3>1, <3>2, CursorType
  <2>5. \A i \in Pos : /\ players'[i].in = ps[i].in /\ players'[i].ready = ps[i].ready
                       /\ players'[i].left = ps[i].left /\ players'[i].stack = ps[i].stack
                       /\ ~players'[i].called
    <3>1. \A i \in Pos : ps[i] \in Player
      BY <1>1, Fields
    <3> QED BY <2>1, <3>1 DEF ClearStreet, Player
  <2>6. \A i \in InHand(players') : i < np /\ players'[i].ready
    BY <1>1, <2>5 DEF Handed, InHand
  <2>7. ActorCanAct'
    <3>1. /\ actionNum' \in Pos /\ ps[actionNum'].in /\ ps[actionNum'].stack # 0
          /\ ~ps[actionNum'].left
      BY <1>1, <2>4 DEF CanAct, InHand, AllIns, AllIn
    <3>2. ps[actionNum'].stack \in Nat /\ actionNum' < np
      BY <1>1, <3>1, Fields DEF Handed, InHand
    <3>3. InPlay'
      BY <2>1 DEF InPlay
    <3>4. ~IsCalled(players', actionNum')
      BY <2>5, <3>1 DEF IsCalled, AllIn
    <3> QED BY <2>5, <3>1, <3>2, <3>3, <3>4 DEF ActorCanAct, IsCalled, AllIn, ToCall
  <2>8. BoardShows(stage', board')
    BY <2>1 DEF BoardShows
  <2> QED BY <2>1, <2>3, <2>6, <2>7, <2>8 DEF TurnInv
<1> QED BY <1>3, <1>5, <1>6, <1>7, <1>8, <1>9, <1>10

\* What StreetsAddUp says of a step, in the words used here.
LEMMA AddsUpMeans ==
  ASSUME ClosesStreet => Closed(players', dealt'),
         SameStreet => BetsMove(players, players')
  PROVE  ClosesMatched /\ RefundsThisStreet
BY DEF ClosesMatched, RefundsThisStreet, Closed, BetsMove, Totals, Bets, InHand

LEMMA BetsMoveTrans ==
  ASSUME NEW ps \in Table, NEW qs \in Table, NEW rs \in Table,
         BetsMove(ps, qs), BetsMove(qs, rs)
  PROVE  BetsMove(ps, rs)
<1> SUFFICES ASSUME NEW i \in Pos
             PROVE  rs[i].totalBet - ps[i].totalBet = rs[i].bet - ps[i].bet
  BY DEF BetsMove
<1>1. /\ ps[i].totalBet \in Nat /\ qs[i].totalBet \in Nat /\ rs[i].totalBet \in Nat
      /\ ps[i].bet \in Nat /\ qs[i].bet \in Nat /\ rs[i].bet \in Nat
  BY Fields
<1>2. /\ qs[i].totalBet - ps[i].totalBet = qs[i].bet - ps[i].bet
      /\ rs[i].totalBet - qs[i].totalBet = rs[i].bet - qs[i].bet
  BY DEF BetsMove
<1> QED BY <1>1, <1>2

\* The street closes with every bet matched, and a refund is of this street.
LEMMA UpdateAddsUp ==
  ASSUME IInv, NEW STATE before, before \in Table, NEW STATE at, at \in Moment,
         UpdateRoundInfo(before, at), Handed(before, at, dealt'),
         at.stage = stage, at.betting = betting, BetsMove(players, before)
  PROVE  ClosesMatched /\ RefundsThisStreet
<1> USE DEF NotReady, PreFlop, Flop, Turn, River, Showdown
<1> DEFINE ps == FoldDeparted(before)
           d  == dealt'
<1>1. ps \in Table /\ Handed(ps, at, d) /\ GoingOut(before, ps)
  BY FoldDepartedKeeps, FoldDepartedGoesOut, HandedFolds
<1>2. players \in Table /\ at.stage \in PreFlop .. Showdown /\ at.betting \in BOOLEAN
  BY DEF IInv, TypeOK, Table, Moment
<1>3. BetsMove(players, ps)
  BY <1>1 DEF BetsMove, GoingOut
<1>4. Concede(ps, at) \/ MoveAction(ps, at) \/ ResolveShowdown(ps, at) \/ RunOut(ps, at)
      \/ DealStreet(ps, at) \/ FailToDeal(ps, at)
  BY DEF UpdateRoundInfo
<1> HIDE DEF ps, d
<1>5. CASE ~InPlay
  BY <1>5, AddsUpMeans DEF ClosesStreet, SameStreet, InPlay
<1>6. CASE InPlay /\ Concede(ps, at)
  <2>1. /\ stage' = Showdown /\ Cardinality(InHand(ps)) < 2
        /\ \A i \in Pos : /\ players'[i].in = ps[i].in
                          /\ players'[i].bet = ps[i].bet /\ players'[i].totalBet = ps[i].totalBet
    BY <1>1, <1>6, PayingKeepsBets DEF Concede
  <2>2. InHand(players') = InHand(ps)
    BY <2>1 DEF InHand
  <2>3. Cardinality(InHand(ps)) \in Nat
    BY <1>1, ReadingTypes, PosFinite, NAssumption
  <2>4. ~ClosesStreet
    BY <2>1, <2>2, <2>3 DEF ClosesStreet
  <2>5. BetsMove(players, players')
    BY <1>3, <2>1 DEF BetsMove
  <2> QED BY <2>4, <2>5, AddsUpMeans
<1>7. CASE InPlay /\ MoveAction(ps, at)
  <2>1. stage' = stage /\ players' = ps
    BY <1>7 DEF MoveAction
  <2> QED BY <1>2, <1>3, <2>1, AddsUpMeans DEF ClosesStreet
<1>8. CASE InPlay /\ ResolveShowdown(ps, at)
  <2>1. PICK qs \in {Settled(ps)} : players' = PayShowdown(qs, AllIns(ps), score', dealerNum, np)
    BY <1>8 DEF ResolveShowdown
  <2>2. qs \in Table
    BY <1>1, <2>1, SettledKeeps
  <2>3. \A i \in Pos : /\ players'[i].in = qs[i].in
                       /\ players'[i].bet = qs[i].bet /\ players'[i].totalBet = qs[i].totalBet
    BY <2>1, <2>2, PayingKeepsBets
  <2>4. Waiting(ps) = {} /\ stage' = Showdown /\ at.stage = River
    BY <1>8 DEF ResolveShowdown, AllCalled
  <2>5. Closed(ps, d)
    <3>1. CASE at.betting
      <4>1. PICK b \in Nat : StreetBase(ps, b)
        BY <1>1, <3>1 DEF Handed, BettingOn
      <4>2. \A i \in Pos : ps[i].stack + ps[i].totalBet = d[i]
        BY <1>1, <2>4 DEF Handed
      <4> QED BY <1>1, <2>4, <4>1, <4>2, CalledIsClosed
    <3>2. CASE ~at.betting
      BY <1>1, <2>4, <3>2 DEF Handed, BettingOver
    <3> QED BY <3>1, <3>2
  <2>6. Closed(qs, d)
    BY <1>1, <2>1, <2>5, SettledIsClosed
  <2>7. Closed(players', dealt')
    BY <2>3, <2>6 DEF Closed, InHand, d
  <2>8. SameStreet => BetsMove(players, players')
    <3> SUFFICES ASSUME betting PROVE BetsMove(players, players')
      BY <1>2, <2>4 DEF SameStreet
    <3>1. PICK b \in Nat : StreetBase(ps, b)
      BY <1>1 DEF Handed, BettingOn
    <3>2. BetsMove(ps, qs)
      BY <1>1, <2>1, <3>1, SettledMoves
    <3>3. BetsMove(players, qs)
      BY <1>1, <1>2, <1>3, <2>2, <3>2, BetsMoveTrans
    <3> QED BY <2>3, <3>3 DEF BetsMove
  <2> QED BY <2>7, <2>8, AddsUpMeans
<1>9. CASE InPlay /\ RunOut(ps, at)
  <2>1. players' = Settled(ps) /\ stage' = stage /\ at.stage # Showdown
    BY <1>9 DEF RunOut, InPlay
  <2>2. BetsMove(ps, players')
    <3>1. CASE at.betting
      BY <1>1, <2>1, <3>1, SettledMoves DEF Handed, BettingOn
    <3>2. CASE ~at.betting
      <4>1. BettingOver(ps, d)
        BY <1>1, <2>1, <3>2 DEF Handed
      <4>2. players' = ps
        BY <1>1, <2>1, <4>1, NothingUncalled DEF BettingOver
      <4>3. \A i \in Pos : ps[i].totalBet \in Nat /\ ps[i].bet \in Nat
        BY <1>1, Fields
      <4> QED BY <4>2, <4>3 DEF BetsMove
    <3> QED BY <3>1, <3>2
  <2>3. BetsMove(players, players')
    <3>1. players' \in Table
      BY <1>1, <2>1, SettledKeeps
    <3> QED BY <1>1, <1>2, <1>3, <2>2, <3>1, BetsMoveTrans
  <2> QED BY <1>2, <2>1, <2>3, AddsUpMeans DEF ClosesStreet
<1>10. CASE InPlay /\ DealStreet(ps, at)
  <2>1. /\ players' = ClearStreet(ps) /\ stage' = at.stage + 1 /\ at.stage \in PreFlop .. Turn
        /\ Waiting(ps) = {} /\ ~Few(ps)
    BY <1>10 DEF DealStreet, AllCalled
  <2>2. at.betting
    BY <1>1, <1>2, <2>1 DEF Handed
  <2>3. Closed(ps, d)
    <3>1. PICK b \in Nat : StreetBase(ps, b)
      BY <1>1, <2>2 DEF Handed, BettingOn
    <3>2. \A i \in Pos : ps[i].stack + ps[i].totalBet = d[i]
      BY <1>1, <2>2 DEF Handed
    <3> QED BY <1>1, <2>1, <3>1, <3>2, CalledIsClosed
  <2>4. \A i \in Pos : players'[i].in = ps[i].in /\ players'[i].totalBet = ps[i].totalBet
    <3>1. \A i \in Pos : ps[i] \in Player
      BY <1>1, Fields
    <3> QED BY <2>1, <3>1 DEF ClearStreet, Player
  <2>5. Closed(players', dealt')
    BY <2>3, <2>4 DEF Closed, InHand, d
  <2>6. ~SameStreet
    BY <2>1 DEF SameStreet
  <2> QED BY <2>5, <2>6, AddsUpMeans
<1>11. CASE InPlay /\ FailToDeal(ps, at)
  BY <1>11 DEF FailToDeal, InPlay
<1> QED BY <1>4, <1>5, <1>6, <1>7, <1>8, <1>9, <1>10, <1>11

(***************************************************************************)
(* The steps of a hand.                                                    *)
(***************************************************************************)

\* What PutInChips leaves and moves.
LEMMA PutInReads ==
  ASSUME NEW p \in Player, NEW amt \in Nat
  PROVE  LET q    == PutInChips(p, amt)
             paid == AtMost(amt, p.stack)
         IN  /\ q \in Player /\ paid \in Nat /\ paid <= amt
             /\ q.bet = p.bet + paid /\ q.totalBet = p.totalBet + paid /\ q.stack = p.stack - paid
             /\ q.in = p.in /\ q.ready = p.ready /\ q.left = p.left /\ q.called = p.called
             /\ amt <= p.stack => paid = amt
             /\ q.stack = 0 => p.stack <= amt
<1> DEFINE paid == AtMost(amt, p.stack)
           q    == PutInChips(p, amt)
<1>1. /\ paid \in Nat /\ paid <= amt /\ (amt <= p.stack => paid = amt)
      /\ p.stack - paid = 0 => p.stack <= amt
  BY DEF AtMost, Player
<1>2. q = [p EXCEPT !.bet = @ + paid, !.totalBet = @ + paid, !.stack = @ - paid]
  BY DEF PutInChips
<1>3. q \in Player
  BY PutInChipsKeeps
<1> HIDE DEF paid
<1>4. /\ q.bet = p.bet + paid /\ q.totalBet = p.totalBet + paid /\ q.stack = p.stack - paid
      /\ q.in = p.in /\ q.ready = p.ready /\ q.left = p.left /\ q.called = p.called
  BY <1>2 DEF Player
<1> HIDE DEF q
<1> QED BY <1>1, <1>3, <1>4 DEF paid, q

\* A bet, read player by player.
LEMMA WagerReads ==
  ASSUME NEW ps \in Table, NEW pn \in Pos, NEW amt \in Nat, amt <= ps[pn].stack
  PROVE  LET qs == Wager(ps, pn, amt)
         IN  /\ qs \in Table
             /\ \A i \in Pos \ {pn} : qs[i] = ps[i]
             /\ qs[pn].bet = ps[pn].bet + amt /\ qs[pn].totalBet = ps[pn].totalBet + amt
             /\ qs[pn].stack = ps[pn].stack - amt /\ qs[pn].called
             /\ qs[pn].in = ps[pn].in /\ qs[pn].ready = ps[pn].ready
             /\ qs[pn].left = ps[pn].left
<1> DEFINE q == PutInChips(ps[pn], amt)
           c == [q EXCEPT !.called = TRUE]
           qs == Wager(ps, pn, amt)
<1>1. /\ q \in Player
      /\ q.bet = ps[pn].bet + amt /\ q.totalBet = ps[pn].totalBet + amt
      /\ q.stack = ps[pn].stack - amt
      /\ q.in = ps[pn].in /\ q.ready = ps[pn].ready /\ q.left = ps[pn].left
  <2>1. PICK p \in Player : p = ps[pn]
    BY Fields
  <2>2. LET r == PutInChips(p, amt)
        IN  /\ r \in Player
            /\ r.bet = p.bet + amt /\ r.totalBet = p.totalBet + amt /\ r.stack = p.stack - amt
            /\ r.in = p.in /\ r.ready = p.ready /\ r.left = p.left
    <3>1. amt <= p.stack
      BY <2>1
    <3>2. AtMost(amt, p.stack) = amt
      BY <3>1 DEF AtMost
    <3> DEFINE r == PutInChips(p, amt)
               paid == AtMost(amt, p.stack)
    <3>3. /\ r \in Player
          /\ r.bet = p.bet + paid /\ r.totalBet = p.totalBet + paid /\ r.stack = p.stack - paid
          /\ r.in = p.in /\ r.ready = p.ready /\ r.left = p.left
      BY PutInReads
    <3> HIDE DEF r, paid
    <3>4. paid = amt
      BY <3>2 DEF paid
    <3> QED BY <3>3, <3>4 DEF r
  <2> QED BY <2>1, <2>2
<1>2. qs = [i \in Pos |-> IF i = pn THEN c ELSE ps[i]]
  BY DEF Table, Wager
<1> HIDE DEF q
<1>3. /\ c \in Player /\ c.called
      /\ c.bet = q.bet /\ c.totalBet = q.totalBet /\ c.stack = q.stack
      /\ c.in = q.in /\ c.ready = q.ready /\ c.left = q.left
  BY <1>1 DEF Player
<1> HIDE DEF c, qs
<1>4. qs \in Table /\ qs[pn] = c /\ \A i \in Pos \ {pn} : qs[i] = ps[i]
  BY <1>2, <1>3 DEF Table
<1> QED BY <1>1, <1>3, <1>4 DEF qs

\* A bet goes on top of the street's base, and answers what was bet before.
LEMMA WagerBetting ==
  ASSUME NEW ps \in Table, NEW pn \in CanAct(ps), NEW amt \in Nat, amt <= ps[pn].stack,
         NEW b \in Nat, StreetBase(ps, b), NEW d,
         \A i \in AllIns(ps) : \/ ps[i].called \/ d[i] <= BigBlind \/ Matched(ps, i)
                               \/ ps[i].totalBet <= b + ps[pn].bet + amt
  PROVE  LET qs == Wager(ps, pn, amt)
         IN  BettingOn(qs, d) /\ BetsMove(ps, qs)
<1> DEFINE qs == Wager(ps, pn, amt)
<1>1. pn \in Pos /\ ps[pn].in /\ ~AllIn(ps[pn])
  BY DEF CanAct, InHand, AllIns
<1>2. /\ qs \in Table
      /\ \A i \in Pos \ {pn} : qs[i] = ps[i]
      /\ qs[pn].bet = ps[pn].bet + amt /\ qs[pn].totalBet = ps[pn].totalBet + amt
      /\ qs[pn].called
  BY <1>1, WagerReads
<1>3. \A i \in Pos : ps[i].bet \in Nat /\ ps[i].totalBet \in Nat
  BY Fields
<1> HIDE DEF qs
<1>4. BetsMove(ps, qs)
  <2> SUFFICES ASSUME NEW i \in Pos
               PROVE  qs[i].totalBet - ps[i].totalBet = qs[i].bet - ps[i].bet
    BY DEF BetsMove
  <2>1. ps[i].bet \in Nat /\ ps[i].totalBet \in Nat
    BY <1>3
  <2>2. CASE i = pn
    BY <1>2, <2>1, <2>2
  <2>3. CASE i # pn
    BY <1>2, <2>1, <2>3
  <2> QED BY <2>2, <2>3
<1>5. ps[pn].totalBet = b + ps[pn].bet
  BY <1>1 DEF StreetBase
<1>6. \A i \in Pos : qs[i].totalBet >= ps[i].totalBet
  <2> TAKE i \in Pos
  <2>1. CASE i = pn
    BY <1>2, <1>3, <2>1
  <2>2. CASE i # pn
    BY <1>2, <1>3, <2>2
  <2> QED BY <2>1, <2>2
<1>7. \A i \in Pos : qs[i].totalBet \in Nat
  BY <1>2, Fields
<1>8. StreetBase(qs, b)
  <2>1. ASSUME NEW i \in Pos
        PROVE  /\ qs[i].totalBet <= b + qs[i].bet
               /\ qs[i].bet > 0 \/ i \in CanAct(qs) => qs[i].totalBet = b + qs[i].bet
    <3>1. CASE i = pn
      BY <1>1, <1>2, <1>3, <1>5, <3>1
    <3>2. CASE i # pn
      <4>1. qs[i] = ps[i] /\ (i \in CanAct(qs) => i \in CanAct(ps))
        BY <1>2, <3>2 DEF CanAct, InHand, AllIns
      <4> QED BY <4>1 DEF StreetBase
    <3> QED BY <3>1, <3>2
  <2>2. ASSUME NEW i \in Pos PROVE \E j \in Pos \ {i} : qs[j].totalBet >= b
    <3>1. PICK j \in Pos \ {i} : ps[j].totalBet >= b
      BY DEF StreetBase
    <3> QED BY <1>3, <1>6, <1>7, <3>1
  <2> QED BY <2>1, <2>2 DEF StreetBase
<1>9. Answered(qs, d)
  <2> SUFFICES ASSUME NEW i \in AllIns(qs)
               PROVE  qs[i].called \/ d[i] <= BigBlind \/ Matched(qs, i)
    BY DEF Answered
  <2>1. i \in Pos
    BY DEF AllIns
  <2>2. CASE i = pn
    BY <1>2, <2>2
  <2>3. CASE i # pn
    <3>1. qs[i] = ps[i] /\ i \in AllIns(ps)
      BY <1>2, <2>1, <2>3 DEF AllIns
    <3>2. CASE Matched(ps, i)
      <4>1. PICK j \in Pos \ {i} : ps[j].totalBet >= ps[i].totalBet
        BY <3>2 DEF Matched
      <4> QED BY <1>3, <1>6, <1>7, <2>1, <3>1, <4>1 DEF Matched
    <3>3. CASE ps[i].totalBet <= b + ps[pn].bet + amt
      <4>1. qs[pn].totalBet >= ps[i].totalBet
        BY <1>2, <1>3, <1>5, <3>3, <1>1
      <4> QED BY <1>1, <2>1, <2>3, <3>1, <4>1 DEF Matched
    <3> QED BY <3>1, <3>2, <3>3
  <2> QED BY <2>2, <2>3
<1> QED BY <1>4, <1>8, <1>9 DEF BettingOn, qs

(***************************************************************************)
(* Paying out.                                                             *)
(***************************************************************************)

StacksOf(ps) == [i \in Pos |-> ps[i].stack]
ChipsOf(ps)  == [i \in Pos |-> ps[i].stack + ps[i].totalBet]

\* Paying w, which is no more than was bet, leaves everybody together with no
\* more than stacks and bets.
LEMMA PaidFromBets ==
  ASSUME NEW ps \in Table, NEW qs, NEW w,
         \A i \in Pos : w[i] \in Int /\ qs[i].stack = ps[i].stack + w[i],
         Sum(N, w) <= Sum(N, Totals(ps))
  PROVE  Sum(N, StacksOf(qs)) <= Sum(N, ChipsOf(ps))
<1> DEFINE s == StacksOf(ps)
           b == Totals(ps)
           c == ChipsOf(ps)
           q == StacksOf(qs)
<1>0. 0 .. N - 1 = Pos /\ N \in Nat
  BY NAssumption DEF Pos
<1>1. \A i \in Pos : /\ s[i] \in Int /\ b[i] \in Int /\ c[i] = s[i] + b[i]
                     /\ w[i] \in Int /\ q[i] = s[i] + w[i]
  BY Fields DEF StacksOf, ChipsOf, Totals
<1> HIDE DEF s, b, c, q
<1>2. Sum(N, c) = Sum(N, s) + Sum(N, b)
  BY <1>0, <1>1, SumAdd
<1>3. Sum(N, q) = Sum(N, s) + Sum(N, w)
  BY <1>0, <1>1, SumAdd
<1>4. Sum(N, s) \in Int /\ Sum(N, b) \in Int /\ Sum(N, w) \in Int
  BY <1>0, <1>1, SumInt
<1>5. Sum(N, w) <= Sum(N, b)
  BY DEF b
<1> QED BY <1>2, <1>3, <1>4, <1>5 DEF c, q

\* The last player in takes the bets, once.
LEMMA ConcedingPays ==
  ASSUME NEW ps \in Table, Cardinality(InHand(ps)) < 2
  PROVE  Sum(N, StacksOf(PayLastPlayer(ps))) <= Sum(N, ChipsOf(ps))
<1> DEFINE pot == Sum(N, Totals(ps))
           takes(i) == ps[i].in /\ ~ps[i].left
           w == [i \in Pos |-> IF takes(i) THEN pot ELSE 0]
           qs == PayLastPlayer(ps)
<1>0. 0 .. N - 1 = Pos /\ N \in Nat
  BY NAssumption DEF Pos
<1>1. pot \in Nat
  <2>1. \A i \in Pos : Totals(ps)[i] \in Nat
    BY ReadingTypes
  <2> QED BY <1>0, <2>1, SumNat
<1>2. InHand(ps) \in SUBSET Pos /\ \A i, j \in InHand(ps) : i = j
  BY ReadingTypes, FewIsOne
<1>3. \A i \in Pos : qs[i].stack = ps[i].stack + w[i]
  <2> TAKE i \in Pos
  <2>1. ps[i] \in Player /\ ps[i].stack \in Nat
    BY Fields
  <2>2. qs[i] = IF takes(i) THEN [ps[i] EXCEPT !.stack = @ + pot] ELSE ps[i]
    BY DEF PayLastPlayer
  <2> HIDE DEF pot, qs
  <2> QED BY <1>1, <2>1, <2>2 DEF Player
<1> HIDE DEF pot, qs
<1>4. /\ \A i \in Pos : w[i] \in 0 .. pot /\ w[i] \in Int
      /\ \A i, j \in Pos : w[i] # 0 /\ w[j] # 0 => i = j
  BY <1>1, <1>2 DEF InHand
<1> HIDE DEF w
<1>5. Sum(N, w) <= pot
  BY <1>0, <1>1, <1>4, SumOfOne
<1> QED BY <1>3, <1>4, <1>5, PaidFromBets DEF pot, qs

\* What a player collects is a number of chips.
LEMMA WinningsType ==
  ASSUME NEW pots \in [0 .. N -> PotType], NEW sc, NEW left, NEW d, NEW n, NEW p
  PROVE  Winnings(pots, sc, left, d, n, p) \in Nat
<1> DEFINE f == [k \in 0 .. N |-> Award(pots[k], sc, left, d, n, p)]
<1>1. \A k \in 0 .. (N + 1) - 1 : f[k] \in Nat
  BY AwardType, NAssumption
<1> HIDE DEF f
<1>2. Sum(N + 1, f) \in Nat
  BY <1>1, SumNat, NAssumption
<1> QED BY <1>2 DEF Winnings, f

\* At a showdown the pots pay out no more than was bet.
LEMMA ShowdownPays ==
  ASSUME NEW ps \in Table, NEW allIns \in SUBSET Pos, NEW sc, NEW d \in Nat, NEW n \in Nat,
         d < n, \A i \in InHand(ps) : i < n
  PROVE  Sum(N, StacksOf(PayShowdown(ps, allIns, sc, d, n))) <= Sum(N, ChipsOf(ps))
<1> DEFINE pots == AllPots(Totals(ps), InHand(ps), allIns, AllIns(ps))
           w == [p \in Pos |-> Winnings(pots, sc, Left(ps), d, n, p)]
           qs == PayShowdown(ps, allIns, sc, d, n)
<1>1. /\ Totals(ps) \in [Pos -> Nat] /\ InHand(ps) \in SUBSET Pos /\ AllIns(ps) \in SUBSET Pos
  BY ReadingTypes
<1>2. Sum(N, w) <= Sum(N, Totals(ps))
  BY <1>1, WinningsWithin
<1>3. \A i \in Pos : w[i] \in Int
  <2>1. pots \in [0 .. N -> PotType]
    BY <1>1, AllPotsType
  <2> HIDE DEF pots
  <2> QED BY <2>1, WinningsType
<1>4. \A i \in Pos : qs[i].stack = ps[i].stack + w[i]
  <2> TAKE i \in Pos
  <2>1. ps[i] \in Player
    BY Fields
  <2>2. qs[i] = [ps[i] EXCEPT !.stack = @ + w[i]]
    BY DEF PayShowdown
  <2> HIDE DEF w, qs
  <2> QED BY <2>1, <2>2 DEF Player
<1> HIDE DEF w, qs
<1> QED BY <1>2, <1>3, <1>4, PaidFromBets DEF qs

\* However a hand comes to the showdown, the pots are paid from the chips that
\* were dealt into it.
LEMMA UpdatePaysOut ==
  ASSUME TypeOK, SeatsInv, NEW STATE before, before \in Table, NEW STATE at,
         UpdateRoundInfo(before, at), Handed(before, at, dealt'),
         dealt' \in [Pos -> Nat],
         at.stage \in PreFlop .. River, stage' = Showdown
  PROVE  Sum(N, StacksOf(players')) <= Sum(N, dealt')
<1> USE DEF NotReady, PreFlop, Flop, Turn, River, Showdown
<1> DEFINE ps == FoldDeparted(before)
           rs == Settled(ps)
<1>0. 0 .. N - 1 = Pos /\ N \in Nat
  BY NAssumption DEF Pos
<1>1. ps \in Table /\ Handed(ps, at, dealt')
  BY FoldDepartedKeeps, HandedFolds
<1> HIDE DEF ps
<1>2. rs \in Table /\ SameChips(ps, rs) /\ InHand(rs) = InHand(ps)
  <2>1. rs \in Table /\ SameChips(ps, rs)
    BY <1>1, SettledKeeps
  <2>2. \A i \in Pos : rs[i].in = ps[i].in
    BY <1>1, RefundOne, RefundOthers DEF Settled
  <2>3. \A i : i \in InHand(rs) <=> i \in InHand(ps)
    BY <2>2 DEF InHand
  <2> QED BY <2>1, <2>3
<1> HIDE DEF rs
<1>3. ASSUME NEW qs \in Table, SameChips(ps, qs)
      PROVE  Sum(N, ChipsOf(qs)) = Sum(N, dealt')
  <2>1. \A i \in Pos : ChipsOf(qs)[i] = dealt'[i] /\ dealt'[i] \in Int
    BY <1>1, <1>3 DEF Handed, ChipsOf, SameChips
  <2> QED BY <1>0, <2>1, SumSame
<1>4. \/ Concede(ps, at) \/ ResolveShowdown(ps, at)
      \/ (stage' = at.stage \/ (at.stage \in PreFlop .. Turn /\ stage' = at.stage + 1))
  BY DEF UpdateRoundInfo, ps, MoveAction, RunOut, DealStreet, FailToDeal
<1>5. CASE Concede(ps, at)
  <2>1. players' = PayLastPlayer(ps) /\ Cardinality(InHand(ps)) < 2
    BY <1>5 DEF Concede
  <2>2. Sum(N, ChipsOf(ps)) = Sum(N, dealt')
    BY <1>1, <1>3 DEF SameChips
  <2> QED BY <1>1, <2>1, <2>2, ConcedingPays
<1>6. CASE ResolveShowdown(ps, at)
  <2>1. players' = PayShowdown(rs, AllIns(ps), score', dealerNum, np)
    BY <1>6 DEF ResolveShowdown, rs
  <2>2. Cardinality(InHand(ps)) >= 2
    BY <1>6 DEF ResolveShowdown, AllCalled
  <2>3. /\ InHand(ps) # {} /\ InHand(ps) \in SUBSET Pos
    <3>1. InHand(ps) \in SUBSET Pos /\ Cardinality(InHand(ps)) \in Nat
      BY <1>1, ReadingTypes, PosFinite, NAssumption
    <3>2. ~(Cardinality(InHand(ps)) < 2)
      BY <2>2, <3>1
    <3> QED BY <3>1, <3>2, ManyNotEmpty
  <2>4. \A i \in InHand(ps) : i < np
    BY <1>1 DEF Handed
  <2>5. dealerNum \in Nat /\ np \in Nat /\ dealerNum < np
    <3>1. np # 0
      BY <2>3, <2>4, NAssumption DEF Pos
    <3> QED BY <3>1, NAssumption DEF SeatsInv, TypeOK, Pos
  <2>6. AllIns(ps) \in SUBSET Pos
    BY <1>1, ReadingTypes
  <2>7. Sum(N, StacksOf(players')) <= Sum(N, ChipsOf(rs))
    BY <1>2, <2>1, <2>4, <2>5, <2>6, ShowdownPays
  <2> QED BY <1>2, <1>3, <2>7
<1> QED BY <1>4, <1>5, <1>6

\* After the uncalled bet went back, nobody is newly out of chips.
LEMMA SettledAllIns ==
  ASSUME NEW ps \in Table
  PROVE  AllIns(Settled(ps)) \in SUBSET AllIns(ps)
<1> SUFFICES ASSUME NEW i \in AllIns(Settled(ps)) PROVE i \in AllIns(ps)
  OBVIOUS
<1> DEFINE rs == Settled(ps)
<1>1. i \in Pos /\ rs[i].in /\ rs[i].stack = 0
  BY DEF AllIns, AllIn
<1>2. ps[i].stack \in Nat /\ ps[i].totalBet \in Nat
  BY <1>1, Fields
<1>3. CASE rs[i] = ps[i]
  BY <1>1, <1>3 DEF AllIns, AllIn
<1>4. CASE rs[i] # ps[i]
  <2>1. rs = ReturnUncalled(ps)
    BY <1>4 DEF Settled
  <2>2. ps[i].in /\ ~Matched(ps, i)
    BY <1>1, <1>4, <2>1, RefundOthers
  <2>3. /\ SecondTotal(ps, i) \in Nat /\ SecondTotal(ps, i) < ps[i].totalBet
        /\ rs[i].stack = ps[i].stack + (ps[i].totalBet - SecondTotal(ps, i))
    BY <1>1, <2>1, <2>2, RefundOne
  <2> HIDE DEF rs
  <2>4. FALSE
    BY <1>1, <1>2, <2>3
  <2> QED BY <2>4
<1> QED BY <1>3, <1>4

\* What the pots add to a stack at the showdown.
LEMMA ShowdownPaysBest ==
  ASSUME NEW ps \in Table, NEW chips, Closed(ps, chips),
         \A i \in Pos : ps[i].stack + ps[i].totalBet = chips[i],
         NEW allIns \in SUBSET Pos, AllIns(ps) \in SUBSET allIns,
         NEW sc \in [Pos -> Nat], NEW d, NEW n, NEW i \in InHand(ps)
  PROVE  LET gain == PayShowdown(ps, allIns, sc, d, n)[i].stack - ps[i].stack
             contested == Sum(N, UpTo(Totals(ps), ps[i].totalBet))
         IN  /\ gain <= contested
             /\ ~ps[i].left /\ (\A j \in InHand(ps) \ {i} : sc[i] < sc[j]) => gain = contested
<1> DEFINE total == Totals(ps)
           pots == AllPots(total, InHand(ps), allIns, AllIns(ps))
           w == Winnings(pots, sc, Left(ps), d, n, i)
           contested == Sum(N, UpTo(total, total[i]))
           q == PayShowdown(ps, allIns, sc, d, n)[i]
<1>1. /\ total \in [Pos -> Nat] /\ InHand(ps) \in SUBSET Pos /\ i \in Pos
      /\ \A j \in Pos : total[j] = ps[j].totalBet
  BY ReadingTypes DEF Totals
<1>2. ps[i] \in Player /\ ps[i].stack \in Nat /\ ps[i].totalBet \in Nat
  BY <1>1, Fields
<1>3. i \notin AllIns(ps) => \A j \in Pos : total[j] <= total[i]
  <2> SUFFICES ASSUME i \notin AllIns(ps) PROVE \A j \in Pos : total[j] <= total[i]
    OBVIOUS
  <2>1. ps[i].stack # 0
    BY <1>1 DEF AllIns, AllIn, InHand
  <2>2. ps[i].totalBet # chips[i]
    BY <1>1, <1>2, <2>1
  <2> QED BY <1>1, <2>2 DEF Closed
<1>4. /\ w <= contested
      /\ i \notin Left(ps) /\ (\A j \in InHand(ps) \ {i} : sc[i] < sc[j]) => w = contested
  <2> HIDE DEF total
  <2> QED BY <1>1, <1>3, BestCollects
<1>5. w \in Nat
  <2>1. allIns \in SUBSET Pos /\ AllIns(ps) \in SUBSET Pos
    BY ReadingTypes
  <2>2. pots \in [0 .. N -> PotType]
    BY <1>1, <2>1, AllPotsType
  <2> HIDE DEF pots
  <2> QED BY <2>2, WinningsType
<1>6. q = [ps[i] EXCEPT !.stack = @ + w]
  BY <1>1 DEF PayShowdown
<1>7. i \notin Left(ps) <=> ~ps[i].left
  BY <1>1 DEF Left
<1> HIDE DEF w, q
<1>8. q.stack - ps[i].stack = w
  BY <1>2, <1>5, <1>6 DEF Player
<1>9. contested = Sum(N, UpTo(Totals(ps), ps[i].totalBet))
  BY <1>1
<1> HIDE DEF contested
<1> QED BY <1>4, <1>7, <1>8, <1>9 DEF q

\* However a hand comes to the showdown, its best hand is paid what it contests.
LEMMA UpdatePaysBest ==
  ASSUME TypeOK, NEW STATE before, before \in Table, NEW STATE at,
         UpdateRoundInfo(before, at), Handed(before, at, dealt'),
         dealt' \in [Pos -> Nat], score = NoScores,
         at.stage \in PreFlop .. River, stage' = Showdown
  PROVE  BestHandPaid'
<1> USE DEF NotReady, PreFlop, Flop, Turn, River, Showdown
<1> DEFINE ps == FoldDeparted(before)
           rs == Settled(ps)
<1>1. ps \in Table /\ Handed(ps, at, dealt')
  BY FoldDepartedKeeps, HandedFolds
<1>2. \/ Concede(ps, at) \/ ResolveShowdown(ps, at)
      \/ (stage' = at.stage \/ (at.stage \in PreFlop .. Turn /\ stage' = at.stage + 1))
  BY DEF UpdateRoundInfo, MoveAction, RunOut, DealStreet, FailToDeal
<1> HIDE DEF ps
<1>3. CASE Concede(ps, at)
  <2>1. score' = NoScores
    BY <1>3 DEF Concede
  <2> QED BY <2>1 DEF BestHandPaid, ShownDown, NoScores
<1>4. CASE ResolveShowdown(ps, at)
  <2>1. players' = PayShowdown(rs, AllIns(ps), score', dealerNum, np)
    BY <1>4 DEF ResolveShowdown
  <2>2. Waiting(ps) = {}
    BY <1>4 DEF ResolveShowdown, AllCalled
  <2>3. score' \in [Pos -> Nat]
    <3>1. PICK sc \in [InHand(ps) -> Scores] :
             score' = [i \in Pos |-> IF i \in InHand(ps) THEN sc[i] ELSE 0]
      BY <1>4 DEF ResolveShowdown
    <3>2. Scores \in SUBSET Nat
      BY ConfigAssumption
    <3> QED BY <3>1, <3>2
  <2>4. Closed(rs, dealt')
    <3>1. CASE at.betting
      <4>1. PICK b \in Nat : StreetBase(ps, b)
        BY <1>1, <3>1 DEF Handed, BettingOn
      <4>2. \A i \in Pos : ps[i].stack + ps[i].totalBet = dealt'[i]
        BY <1>1 DEF Handed
      <4> QED BY <1>1, <2>2, <4>1, <4>2, CalledIsClosed, SettledIsClosed
    <3>2. CASE ~at.betting
      <4>1. Closed(ps, dealt')
        BY <1>1, <3>2 DEF Handed, BettingOver
      <4> QED BY <1>1, <4>1, SettledIsClosed
    <3> QED BY <3>1, <3>2
  <2>5. rs \in Table /\ SameChips(ps, rs) /\ AllIns(rs) \in SUBSET AllIns(ps)
        /\ AllIns(ps) \in SUBSET Pos
    BY <1>1, SettledKeeps, SettledAllIns, ReadingTypes
  <2> HIDE DEF rs
  <2>6. \A i \in Pos : rs[i].stack + rs[i].totalBet = dealt'[i]
    BY <1>1, <2>5 DEF SameChips, Handed
  <2>7. ASSUME NEW i \in Pos
        PROVE  /\ players'[i].in = rs[i].in /\ players'[i].left = rs[i].left
               /\ players'[i].totalBet = rs[i].totalBet
    <3> DEFINE w == Winnings(AllPots(Totals(rs), InHand(rs), AllIns(ps), AllIns(rs)),
                             score', Left(rs), dealerNum, np, i)
    <3>1. players'[i] = [rs[i] EXCEPT !.stack = @ + w]
      BY <2>1 DEF PayShowdown
    <3>2. rs[i] \in Player
      BY <2>5, Fields
    <3> HIDE DEF w
    <3> QED BY <3>1, <3>2 DEF Player
  <2>8. InHand(players') = InHand(rs)
    BY <2>7 DEF InHand
  <2> SUFFICES ASSUME NEW i \in InHand(rs)
               PROVE  /\ Collected(i)' <= Contested(i)'
                      /\ ~players'[i].left /\ (\A j \in InHand(rs) \ {i} : score'[i] < score'[j])
                           => Collected(i)' = Contested(i)'
    BY <2>8 DEF BestHandPaid
  <2>9. i \in Pos
    BY DEF InHand
  <2> DEFINE gain == players'[i].stack - rs[i].stack
             contested == Sum(N, UpTo(Totals(rs), rs[i].totalBet))
  <2>10. /\ gain <= contested
         /\ ~rs[i].left /\ (\A j \in InHand(rs) \ {i} : score'[i] < score'[j])
              => gain = contested
    BY <2>1, <2>3, <2>4, <2>5, <2>6, ShowdownPaysBest
  <2>11. Contested(i)' = contested
    <3>1. \A j \in Pos : AtMost(players'[j].totalBet, players'[i].totalBet)
                          = AtMost(Totals(rs)[j], rs[i].totalBet)
      BY <2>7, <2>9 DEF Totals
    <3>2. [j \in Pos |-> AtMost(players'[j].totalBet, players'[i].totalBet)]
            = UpTo(Totals(rs), rs[i].totalBet)
      BY <3>1 DEF UpTo
    <3> QED BY <3>2 DEF Contested
  <2>12. Collected(i)' = gain
    <3>1. /\ rs[i].stack \in Nat /\ rs[i].totalBet \in Nat /\ dealt'[i] \in Nat
          /\ rs[i].stack + rs[i].totalBet = dealt'[i]
          /\ players'[i].totalBet = rs[i].totalBet
      BY <2>5, <2>6, <2>7, <2>9, Fields
    <3>2. players'[i].stack \in Int
      <4> DEFINE pots == AllPots(Totals(rs), InHand(rs), AllIns(ps), AllIns(rs))
                 w == Winnings(pots, score', Left(rs), dealerNum, np, i)
      <4>1. players'[i] = [rs[i] EXCEPT !.stack = @ + w]
        BY <2>1, <2>9 DEF PayShowdown
      <4>2. pots \in [0 .. N -> PotType]
        BY <2>5, ReadingTypes, AllPotsType
      <4> HIDE DEF pots
      <4>3. w \in Nat
        BY <4>2, WinningsType
      <4>4. rs[i] \in Player
        BY <2>5, <2>9, Fields
      <4> HIDE DEF w
      <4> QED BY <3>1, <4>1, <4>3, <4>4 DEF Player
    <3> QED BY <3>1, <3>2 DEF Collected
  <2>13. players'[i].left = rs[i].left
    BY <2>7, <2>9
  <2> HIDE DEF gain, contested
  <2> QED BY <2>10, <2>11, <2>12, <2>13
<1> QED BY <1>2, <1>3, <1>4

(***************************************************************************)
(* The browser's pots.  A browser does not know who was all-in before the  *)
(* uncalled bet came back, and builds its pots from those who are chipless.*)
(***************************************************************************)

\* Pots that pay the same: equal, or both empty.
SamePot(p, q) == p = q \/ (p.amt = 0 /\ q.amt = 0)

LEMMA SamePotPays ==
  ASSUME NEW p, NEW q, SamePot(p, q), NEW sc, NEW left, NEW d, NEW n, NEW i
  PROVE  Award(p, sc, left, d, n, i) = Award(q, sc, left, d, n, i)
<1>1. CASE p = q
  BY <1>1
<1>2. CASE p.amt = 0 /\ q.amt = 0
  <2>1. Winners(p, sc) = {} /\ Winners(q, sc) = {}
    BY <1>2 DEF Winners
  <2> QED BY <2>1 DEF Award
<1> QED BY <1>1, <1>2 DEF SamePot

\* A sum with two terms.
LEMMA SumOfTwo ==
  ASSUME NEW n \in Nat, NEW a \in 0 .. n - 1, NEW b \in 0 .. n - 1, a # b,
         NEW h, \A k \in 0 .. n - 1 : h[k] \in Nat /\ (k # a /\ k # b => h[k] = 0)
  PROVE  Sum(n, h) = h[a] + h[b]
<1> DEFINE v == h[a]
           w == h[b]
           va == [k \in 0 .. n - 1 |-> IF k \in {a} THEN v ELSE 0]
           wb == [k \in 0 .. n - 1 |-> IF k \in {b} THEN w ELSE 0]
<1>1. /\ v \in Nat /\ w \in Nat
      /\ \A k \in 0 .. n - 1 : /\ va[k] = IF k \in {a} THEN v ELSE 0
                               /\ wb[k] = IF k \in {b} THEN w ELSE 0
  OBVIOUS
<1>2. \A k \in 0 .. n - 1 : /\ va[k] \in Int /\ wb[k] \in Int /\ h[k] \in Int
                            /\ h[k] = va[k] + wb[k]
  OBVIOUS
<1> HIDE DEF va, wb
<1>3. {a} \in SUBSET (0 .. n - 1) /\ {b} \in SUBSET (0 .. n - 1)
  OBVIOUS
<1>4. Cardinality({a}) = 1 /\ Cardinality({b}) = 1
  BY FS_Singleton
<1> HIDE DEF v, w
<1>5. Sum(n, va) = v * Cardinality({a})
  BY <1>1, <1>3, SumConst
<1>6. Sum(n, wb) = w * Cardinality({b})
  BY <1>1, <1>3, SumConst
<1>7. Sum(n, h) = Sum(n, va) + Sum(n, wb)
  BY <1>2, SumAdd
<1> QED BY <1>1, <1>4, <1>5, <1>6, <1>7 DEF v, w

\* A sum does not change when two of its terms change places.
LEMMA SumExchange ==
  ASSUME NEW n \in Nat, NEW f, \A k \in 0 .. n - 1 : f[k] \in Nat,
         NEW a \in 0 .. n - 1, NEW b \in 0 .. n - 1,
         NEW g, \A k \in 0 .. n - 1 :
                  g[k] = IF k = a THEN f[b] ELSE IF k = b THEN f[a] ELSE f[k]
  PROVE  Sum(n, g) = Sum(n, f)
<1> DEFINE v == f[a]
           w == f[b]
           one  == [k \in 0 .. n - 1 |-> IF k = a THEN v ELSE IF k = b THEN w ELSE 0]
           two  == [k \in 0 .. n - 1 |-> IF k = a THEN w ELSE IF k = b THEN v ELSE 0]
           rest == [k \in 0 .. n - 1 |-> IF k \in {a, b} THEN 0 ELSE f[k]]
<1>1. CASE a = b
  <2>1. \A k \in 0 .. n - 1 : f[k] \in Int /\ g[k] = f[k]
    BY <1>1
  <2> QED BY <2>1, SumSame
<1>2. CASE a # b
  <2>1. v \in Nat /\ w \in Nat
    OBVIOUS
  <2>2. \A k \in 0 .. n - 1 :
          /\ one[k] = IF k = a THEN v ELSE IF k = b THEN w ELSE 0
          /\ two[k] = IF k = a THEN w ELSE IF k = b THEN v ELSE 0
          /\ rest[k] = IF k \in {a, b} THEN 0 ELSE f[k]
    OBVIOUS
  <2>3. \A k \in 0 .. n - 1 : g[k] = IF k = a THEN w ELSE IF k = b THEN v ELSE f[k]
    OBVIOUS
  <2>4. f[a] = v /\ f[b] = w
    OBVIOUS
  <2> HIDE DEF v, w, one, two, rest
  <2>5. \A k \in 0 .. n - 1 : /\ f[k] \in Int /\ g[k] \in Int /\ rest[k] \in Int
                              /\ one[k] \in Int /\ two[k] \in Int
                              /\ f[k] = rest[k] + one[k] /\ g[k] = rest[k] + two[k]
    BY <1>2, <2>1, <2>2, <2>3, <2>4
  <2>6. Sum(n, f) = Sum(n, rest) + Sum(n, one)
    BY <2>5, SumAdd
  <2>7. Sum(n, g) = Sum(n, rest) + Sum(n, two)
    BY <2>5, SumAdd
  <2>8. Sum(n, one) = one[a] + one[b]
    <3>1. \A k \in 0 .. n - 1 : one[k] \in Nat /\ (k # a /\ k # b => one[k] = 0)
      BY <2>1, <2>2
    <3> QED BY <1>2, <3>1, SumOfTwo
  <2>9. Sum(n, two) = two[a] + two[b]
    <3>1. \A k \in 0 .. n - 1 : two[k] \in Nat /\ (k # a /\ k # b => two[k] = 0)
      BY <2>1, <2>2
    <3> QED BY <1>2, <3>1, SumOfTwo
  <2>10. one[a] + one[b] = two[a] + two[b]
    BY <1>2, <2>1, <2>2
  <2> QED BY <2>6, <2>7, <2>8, <2>9, <2>10
<1> QED BY <1>1, <1>2

\* One player, with the most in, counts as all-in or not.
LEMMA LevelsOfOneMore ==
  ASSUME NEW total \in [Pos -> Nat], NEW chipless \in SUBSET Pos, NEW r \in Pos,
         \A j \in Pos : total[j] <= total[r]
  PROVE  /\ \A i \in Pos : Floor(total, chipless \union {r}, i) = Floor(total, chipless, i)
         /\ Roof(total, chipless \union {r}) = total[r]
<1>1. ASSUME NEW i \in Pos
      PROVE  Floor(total, chipless \union {r}, i) = Floor(total, chipless, i)
  <2>1. \A j \in Pos : (j \in chipless \union {r} /\ total[j] < total[i])
                         <=> (j \in chipless /\ total[j] < total[i])
    OBVIOUS
  <2>2. [j \in Pos |-> IF j \in chipless \union {r} /\ total[j] < total[i] THEN total[j] ELSE 0]
          = [j \in Pos |-> IF j \in chipless /\ total[j] < total[i] THEN total[j] ELSE 0]
    BY <2>1
  <2> QED BY <2>2 DEF Floor
<1>2. Roof(total, chipless \union {r}) = total[r]
  <2>1. /\ Roof(total, chipless \union {r}) \in Nat
        /\ total[r] <= Roof(total, chipless \union {r})
    BY LayerBounds
  <2>2. \/ Roof(total, chipless \union {r}) = 0
        \/ \E j \in chipless \union {r} : Roof(total, chipless \union {r}) = total[j]
    BY LevelsReached
  <2>3. total[r] \in Nat
    OBVIOUS
  <2> HIDE DEF Roof
  <2> QED BY <2>1, <2>2, <2>3
<1> QED BY <1>1, <1>2

\* A layer that is open with that player and without is the same.
LEMMA SameLayers ==
  ASSUME NEW total \in [Pos -> Nat], NEW inHand, NEW chipless \in SUBSET Pos,
         NEW r \in Pos \ chipless, \A j \in Pos : total[j] <= total[r],
         NEW k \in Pos, k # r,
         OpensLayer(total, chipless \union {r}, k) <=> OpensLayer(total, chipless, k)
  PROVE  AllPots(total, inHand, chipless \union {r}, chipless)[k]
           = AllPots(total, inHand, chipless, chipless)[k]
<1>1. k \in 0 .. N /\ k # N
  BY NAssumption DEF Pos
<1>2. Floor(total, chipless \union {r}, k) = Floor(total, chipless, k)
  BY LevelsOfOneMore
<1>3. Layer(total, inHand, chipless \union {r}, k) = Layer(total, inHand, chipless, k)
  BY <1>2 DEF Layer
<1> QED BY <1>1, <1>3 DEF AllPots

\* The pots with and without the player whose uncalled bet came back: two of them
\* may have changed places.
LEMMA PotsTradePlaces ==
  ASSUME NEW total \in [Pos -> Nat], NEW inHand \in SUBSET Pos, NEW chipless \in SUBSET inHand,
         NEW r \in inHand \ chipless, \A j \in Pos : total[j] <= total[r],
         \A j \in inHand \ chipless : total[j] = total[r]
  PROVE  LET pe == AllPots(total, inHand, chipless \union {r}, chipless)
             pv == AllPots(total, inHand, chipless, chipless)
         IN  \E b \in 0 .. N : /\ \A k \in 0 .. N : k # r /\ k # b => SamePot(pe[k], pv[k])
                               /\ SamePot(pe[r], pv[b]) /\ SamePot(pe[b], pv[r])
<1> DEFINE more == chipless \union {r}
           pe == AllPots(total, inHand, more, chipless)
           pv == AllPots(total, inHand, chipless, chipless)
<1>0. /\ r \in Pos /\ chipless \in SUBSET Pos /\ more \in SUBSET Pos
      /\ \A k \in 0 .. N : k # N => k \in Pos
      /\ \A k \in Pos : k \in 0 .. N /\ k # N /\ k \in Nat
      /\ N \in 0 .. N /\ N \notin Pos /\ 0 .. N - 1 = Pos /\ N \in Nat
  BY NAssumption DEF Pos
<1>1. /\ \A k \in Pos : pe[k] = IF OpensLayer(total, more, k) THEN Layer(total, inHand, more, k)
                                ELSE EmptyPot
      /\ \A k \in Pos : pv[k] = IF OpensLayer(total, chipless, k)
                                THEN Layer(total, inHand, chipless, k) ELSE EmptyPot
      /\ pe[N] = LastPot(total, inHand, more, chipless)
      /\ pv[N] = LastPot(total, inHand, chipless, chipless)
  BY <1>0 DEF AllPots
<1>2. \A k \in Pos : k # r /\ (OpensLayer(total, more, k) <=> OpensLayer(total, chipless, k))
                       => pe[k] = pv[k]
  BY <1>0, SameLayers
<1>3. pv[r] = EmptyPot /\ EmptyPot.amt = 0
  BY <1>0, <1>1 DEF OpensLayer, EmptyPot
<1>4. /\ \A k \in Pos : Floor(total, more, k) = Floor(total, chipless, k)
      /\ Roof(total, more) = total[r]
  BY <1>0, LevelsOfOneMore
<1>5. /\ Roof(total, chipless) \in Nat
      /\ \A j \in chipless : total[j] <= Roof(total, chipless)
      /\ Roof(total, chipless) = 0 \/ \E j \in chipless : Roof(total, chipless) = total[j]
  BY <1>0, LayerBounds, LevelsReached
<1>6. \A k \in Pos : total[k] \in Nat
  OBVIOUS
<1>7. \A k \in Pos : OpensLayer(total, more, k) <=>
        /\ k \in chipless \/ k = r
        /\ total[k] > 0
        /\ \A j \in chipless : total[j] = total[k] => k <= j
        /\ total[r] = total[k] => k <= r
  BY DEF OpensLayer
<1>8. \A k \in Pos : OpensLayer(total, chipless, k) <=>
        /\ k \in chipless
        /\ total[k] > 0
        /\ \A j \in chipless : total[j] = total[k] => k <= j
  BY DEF OpensLayer
<1> HIDE DEF pe, pv, more
<1>9. CASE total[r] = 0
  <2>1. \A k \in Pos : total[k] = 0
    BY <1>0, <1>6, <1>9
  <2>2. \A k \in Pos : pe[k] = EmptyPot /\ pv[k] = EmptyPot
    BY <1>1, <1>7, <1>8, <2>1
  <2>3. Roof(total, more) = 0 /\ Roof(total, chipless) = 0
    BY <1>0, <1>4, <1>5, <1>9, <2>1
  <2>4. pe[N] = pv[N]
    BY <1>1, <2>3 DEF LastPot
  <2>5. \A k \in 0 .. N : SamePot(pe[k], pv[k])
    BY <1>0, <2>2, <2>4 DEF SamePot
  <2> QED BY <1>0, <2>5 DEF pe, pv, more
<1>10. CASE total[r] > 0 /\ \E j \in chipless : total[j] = total[r]
  <2>1. Roof(total, chipless) = total[r]
    BY <1>0, <1>5, <1>6, <1>10
  <2>2. pe[N] = pv[N]
    BY <1>1, <1>4, <2>1 DEF LastPot
  <2> DEFINE T == {j \in chipless : total[j] = total[r]}
  <2>3. PICK m \in T : \A j \in T : m <= j
    <3>1. T \in SUBSET Nat /\ T # {}
      BY <1>0, <1>10
    <3> HIDE DEF T
    <3> QED BY <3>1, LeastElement
  <2>4. m \in Pos /\ m # r /\ m \in Nat /\ r \in Nat /\ total[m] = total[r]
    BY <1>0
  <2>5. CASE m < r
    <3>1. \A k \in Pos : k # r => pe[k] = pv[k]
      <4> TAKE k \in Pos
      <4>1. total[k] = total[r] /\ k \in chipless /\ (\A j \in chipless : total[j] = total[k] => k <= j)
              => k <= r
        BY <2>4, <2>5, <1>0
      <4> QED BY <1>2, <1>7, <1>8, <4>1
    <3>2. pe[r] = EmptyPot
      <4>1. ~OpensLayer(total, more, r)
        BY <1>0, <1>7, <2>3, <2>4, <2>5
      <4> QED BY <1>0, <1>1, <4>1
    <3>3. \A k \in 0 .. N : SamePot(pe[k], pv[k])
      BY <1>0, <1>3, <2>2, <3>1, <3>2 DEF SamePot
    <3> QED BY <1>0, <3>3 DEF pe, pv, more
  <2>6. CASE r < m
    <3>1. \A k \in Pos : k # r /\ k # m => pe[k] = pv[k]
      <4> SUFFICES ASSUME NEW k \in Pos, k # r, k # m,
                          k \in chipless, \A j \in chipless : total[j] = total[k] => k <= j,
                          total[r] = total[k]
                   PROVE  FALSE
        BY <1>2, <1>7, <1>8
      <4>1. k \in T /\ k <= m
        BY <2>3, <2>4
      <4>2. m <= k
        BY <2>3, <4>1
      <4> QED BY <1>0, <2>4, <4>1, <4>2
    <3>2. pe[m] = EmptyPot
      <4>1. ~OpensLayer(total, more, m)
        BY <1>0, <1>7, <2>4, <2>6
      <4> QED BY <2>4, <1>1, <4>1
    <3>3. pe[r] = pv[m]
      <4>1. OpensLayer(total, more, r)
        <5>1. ASSUME NEW j \in chipless, total[j] = total[r] PROVE r <= j
          <6>1. j \in T /\ j \in Nat
            BY <1>0, <5>1
          <6> QED BY <2>3, <2>4, <2>6, <6>1
        <5> QED BY <1>0, <1>7, <1>10, <5>1
      <4>2. OpensLayer(total, chipless, m)
        <5>1. ASSUME NEW j \in chipless, total[j] = total[m] PROVE m <= j
          BY <2>3, <2>4, <5>1
        <5> QED BY <1>8, <1>10, <2>3, <2>4, <5>1
      <4>3. Layer(total, inHand, more, r) = Layer(total, inHand, chipless, m)
        <5>1. Floor(total, more, r) = Floor(total, chipless, m)
          <6>1. Floor(total, more, r) = Floor(total, more, m)
            BY <2>4 DEF Floor
          <6> QED BY <1>4, <2>4, <6>1
        <5> QED BY <2>4, <5>1 DEF Layer
      <4> QED BY <1>0, <1>1, <2>4, <4>1, <4>2, <4>3
    <3>4. /\ \A k \in 0 .. N : k # r /\ k # m => SamePot(pe[k], pv[k])
          /\ SamePot(pe[r], pv[m]) /\ SamePot(pe[m], pv[r])
      BY <1>0, <1>3, <2>2, <3>1, <3>2, <3>3 DEF SamePot
    <3> QED BY <1>0, <2>4, <3>4 DEF pe, pv, more
  <2> QED BY <2>4, <2>5, <2>6
<1>11. CASE total[r] > 0 /\ ~\E j \in chipless : total[j] = total[r]
  <2>1. \A k \in Pos : k # r => pe[k] = pv[k]
    BY <1>0, <1>2, <1>7, <1>8, <1>11
  <2>2. \A j \in chipless : total[j] < total[r]
    BY <1>0, <1>6, <1>11
  <2>3. OpensLayer(total, more, r)
    BY <1>0, <1>7, <1>11
  <2>4. pe[r] = Layer(total, inHand, more, r)
    BY <1>0, <1>1, <2>3
  <2>5. Floor(total, more, r) = Roof(total, chipless)
    <3>1. \A j \in Pos : (j \in chipless /\ total[j] < total[r]) <=> j \in chipless
      BY <2>2
    <3>2. [j \in Pos |-> IF j \in chipless /\ total[j] < total[r] THEN total[j] ELSE 0]
            = [j \in Pos |-> IF j \in chipless THEN total[j] ELSE 0]
      BY <3>1
    <3>3. Floor(total, chipless, r) = Roof(total, chipless)
      BY <3>2 DEF Floor, Roof
    <3> QED BY <1>0, <1>4, <3>3
  <2>6. pe[r] = pv[N]
    <3> DEFINE lo == Roof(total, chipless)
    <3>1. \A j \in Pos : Slice(total[j], lo, total[r]) = total[j] - AtMost(total[j], lo)
      BY DEF Slice, AtMost
    <3>2. [j \in Pos |-> Slice(total[j], lo, total[r])] = [j \in Pos |-> total[j] - AtMost(total[j], lo)]
      BY <3>1
    <3>3. \A j \in inHand : total[j] >= total[r] <=> j \notin chipless
      BY <1>0, <1>6, <2>2
    <3>4. {j \in inHand : total[j] >= total[r]} = inHand \ chipless
      BY <3>3
    <3> QED BY <1>1, <2>4, <2>5, <3>2, <3>4 DEF Layer, LastPot
  <2>7. pe[N].amt = 0
    <3> DEFINE f == [j \in Pos |-> total[j] - AtMost(total[j], total[r])]
    <3>1. \A j \in Pos : f[j] = 0
      BY <1>0, <1>6 DEF AtMost
    <3>2. pe[N].amt = Sum(N, f)
      BY <1>1, <1>4 DEF LastPot
    <3> HIDE DEF f
    <3>3. Sum(N, f) = 0
      BY <1>0, <3>1, SumZeros
    <3> QED BY <3>2, <3>3
  <2>8. /\ \A k \in 0 .. N : k # r /\ k # N => SamePot(pe[k], pv[k])
        /\ SamePot(pe[r], pv[N]) /\ SamePot(pe[N], pv[r])
    BY <1>0, <1>3, <2>1, <2>6, <2>7 DEF SamePot
  <2>9. N \in 0 .. N
    BY <1>0
  <2> HIDE DEF SamePot
  <2> QED BY <2>8, <2>9 DEF pe, pv, more
<1>12. total[r] = 0 \/ total[r] > 0
  BY <1>0, <1>6
<1> QED BY <1>9, <1>10, <1>11, <1>12 DEF pe, pv, more

\* So they pay the same.
LEMMA RefundPaysTheSame ==
  ASSUME NEW total \in [Pos -> Nat], NEW inHand \in SUBSET Pos, NEW chipless \in SUBSET inHand,
         NEW r \in inHand \ chipless, \A j \in Pos : total[j] <= total[r],
         \A j \in inHand \ chipless : total[j] = total[r],
         NEW sc, NEW left, NEW d, NEW n, NEW p
  PROVE  Winnings(AllPots(total, inHand, chipless \union {r}, chipless), sc, left, d, n, p)
           = Winnings(AllPots(total, inHand, chipless, chipless), sc, left, d, n, p)
<1> DEFINE pe == AllPots(total, inHand, chipless \union {r}, chipless)
           pv == AllPots(total, inHand, chipless, chipless)
           f == [k \in 0 .. N |-> Award(pv[k], sc, left, d, n, p)]
           g == [k \in 0 .. N |-> Award(pe[k], sc, left, d, n, p)]
<1>0. N + 1 \in Nat /\ (N + 1) - 1 = N /\ r \in 0 .. N
  BY NAssumption DEF Pos
<1>1. pv \in [0 .. N -> PotType]
  <2>1. chipless \in SUBSET Pos
    OBVIOUS
  <2> QED BY <2>1, AllPotsType
<1>2. PICK b \in 0 .. N : /\ \A k \in 0 .. N : k # r /\ k # b => SamePot(pe[k], pv[k])
                          /\ SamePot(pe[r], pv[b]) /\ SamePot(pe[b], pv[r])
  BY PotsTradePlaces
<1> HIDE DEF pe, pv
<1>3. \A k \in 0 .. N : f[k] \in Nat
  BY <1>1, AwardType
<1>4. \A k \in 0 .. N : g[k] = IF k = r THEN f[b] ELSE IF k = b THEN f[r] ELSE f[k]
  <2> TAKE k \in 0 .. N
  <2>1. CASE k = r
    BY <1>0, <1>2, <2>1, SamePotPays
  <2>2. CASE k # r /\ k = b
    BY <1>0, <1>2, <2>2, SamePotPays
  <2>3. CASE k # r /\ k # b
    BY <1>2, <2>3, SamePotPays
  <2> QED BY <2>1, <2>2, <2>3
<1> HIDE DEF f, g
<1>5. Sum(N + 1, g) = Sum(N + 1, f)
  BY <1>0, <1>3, <1>4, SumExchange
<1> QED BY <1>5 DEF Winnings, f, g, pe, pv

\* Of the players who were all-in, at most one has chips after the uncalled bet
\* came back, and that one has the most in.
LEMMA AllInsBeforeRefund ==
  ASSUME NEW ps \in Table, NEW d, Closed(ps, d),
         \A i \in Pos : ps[i].stack + ps[i].totalBet = d[i]
  PROVE  \/ AllIns(Settled(ps)) = AllIns(ps)
         \/ \E r \in InHand(Settled(ps)) \ AllIns(Settled(ps)) :
              /\ AllIns(ps) = AllIns(Settled(ps)) \union {r}
              /\ \A j \in Pos : Settled(ps)[j].totalBet <= Settled(ps)[r].totalBet
              /\ \A j \in InHand(Settled(ps)) \ AllIns(Settled(ps)) :
                   Settled(ps)[j].totalBet = Settled(ps)[r].totalBet
<1> DEFINE rs == Settled(ps)
<1>1. CASE Settled(ps) = ps
  BY <1>1
<1>2. CASE Settled(ps) # ps
  <2>1. rs = ReturnUncalled(ps) /\ ~\A i \in InHand(ps) : Matched(ps, i)
    BY <1>2, NothingUncalled DEF Settled
  <2>2. PICK r \in Pos : ps[r].in /\ ~Matched(ps, r)
    BY <2>1 DEF InHand
  <2>3. \A j \in Pos : j # r => rs[j] = ps[j]
    BY <2>1, <2>2, OneUnmatched, RefundOthers
  <2>4. /\ rs[r].totalBet = SecondTotal(ps, r) /\ rs[r].in
        /\ SecondTotal(ps, r) \in Nat /\ SecondTotal(ps, r) < ps[r].totalBet
        /\ rs[r].stack = ps[r].stack + (ps[r].totalBet - SecondTotal(ps, r))
    BY <2>1, <2>2, RefundOne
  <2>5. rs[r].stack > 0 /\ \A j \in Pos : ps[j].stack \in Nat /\ ps[j].totalBet \in Nat
    BY <2>4, Fields
  <2>6. \A j \in Pos : rs[j].totalBet <= rs[r].totalBet /\ rs[j].totalBet \in Nat
    <3>1. \A j \in Pos \ {r} : ps[j].totalBet <= SecondTotal(ps, r)
      BY SecondBounds
    <3> HIDE DEF rs
    <3> QED BY <2>3, <2>4, <2>5, <3>1
  <2>7. Closed(rs, d)
    BY SettledIsClosed
  <2> HIDE DEF rs
  <2>8. r \in InHand(rs) \ AllIns(rs)
    BY <2>4, <2>5 DEF InHand, AllIns, AllIn
  <2>9. AllIns(rs) \subseteq AllIns(ps) /\ AllIns(ps) \subseteq AllIns(rs) \union {r}
    BY <2>3, <2>5 DEF AllIns, AllIn
  <2>10. \A j \in InHand(rs) \ AllIns(rs) : rs[j].totalBet = rs[r].totalBet
    <3> TAKE j \in InHand(rs) \ AllIns(rs)
    <3>1. j \in Pos /\ rs[j].in /\ rs[j].stack # 0
      BY DEF InHand, AllIns, AllIn
    <3>2. CASE j = r
      BY <3>2
    <3>3. CASE j # r
      <4>1. ps[j].totalBet # d[j]
        BY <2>3, <2>5, <3>1, <3>3
      <4>2. rs[r].totalBet <= rs[j].totalBet
        BY <2>2, <2>3, <2>7, <3>1, <3>3, <4>1 DEF Closed
      <4> QED BY <2>2, <2>6, <3>1, <4>2
    <3> QED BY <3>2, <3>3
  <2>11. AllIns(ps) = AllIns(rs) \/ AllIns(ps) = AllIns(rs) \union {r}
    BY <2>9
  <2> QED BY <2>6, <2>8, <2>10, <2>11 DEF rs
<1> QED BY <1>1, <1>2

\* What was collected at the showdown, in terms of the table as it shows: of a
\* conceded hand everything that was bet, else what the browser's pots award.
PaidByPots ==
  stage = Showdown =>
    IF score = NoScores
    THEN /\ Cardinality(InHand(players)) < 2
         /\ \A i \in Pos : Collected(i) = IF players[i].in /\ ~players[i].left THEN ViewPot ELSE 0
    ELSE \A i \in Pos : Collected(i) = Winnings(ViewPots, score, Left(players), dealerNum, np, i)

LEMMA ConcedingPaysPot ==
  ASSUME NEW STATE ps, ps \in Table, NEW STATE at, Concede(ps, at), score = NoScores,
         \A i \in Pos : ps[i].stack + ps[i].totalBet = dealt'[i]
  PROVE  PaidByPots'
<1> DEFINE pot == Sum(N, Totals(ps))
<1>1. /\ players' = PayLastPlayer(ps) /\ score' = NoScores
      /\ Cardinality(InHand(ps)) < 2
  BY DEF Concede
<1>2. pot \in Nat
  <2>1. \A i \in 0 .. N - 1 : Totals(ps)[i] \in Nat
    BY ReadingTypes DEF Pos
  <2> QED BY <2>1, SumNat, NAssumption
<1>3. ASSUME NEW i \in Pos
      PROVE  /\ players'[i].in = ps[i].in /\ players'[i].left = ps[i].left
             /\ players'[i].totalBet = ps[i].totalBet
             /\ players'[i].stack = ps[i].stack + (IF ps[i].in /\ ~ps[i].left THEN pot ELSE 0)
  <2>1. ps[i] \in Player /\ ps[i].stack \in Nat
    BY Fields
  <2>2. players'[i] = IF ps[i].in /\ ~ps[i].left THEN [ps[i] EXCEPT !.stack = @ + pot] ELSE ps[i]
    BY <1>1 DEF PayLastPlayer
  <2> HIDE DEF pot
  <2> QED BY <1>2, <2>1, <2>2 DEF Player
<1>4. InHand(players') = InHand(ps)
  BY <1>3 DEF InHand
<1>5. ViewPot' = pot
  <2>1. Totals(players') = Totals(ps)
    BY <1>3 DEF Totals
  <2> QED BY <2>1 DEF ViewPot
<1> HIDE DEF pot
<1>6. ASSUME NEW i \in Pos
      PROVE  Collected(i)' = IF players'[i].in /\ ~players'[i].left THEN pot ELSE 0
  <2>1. ps[i].stack \in Nat /\ ps[i].totalBet \in Nat
    BY Fields
  <2>2. dealt'[i] = ps[i].stack + ps[i].totalBet
    OBVIOUS
  <2> QED BY <1>2, <1>3, <2>1, <2>2 DEF Collected
<1> QED BY <1>1, <1>4, <1>5, <1>6 DEF PaidByPots

LEMMA ShowdownPaysPots ==
  ASSUME NEW STATE ps, ps \in Table, NEW STATE at, ResolveShowdown(ps, at),
         Closed(ps, dealt'), \A i \in Pos : ps[i].stack + ps[i].totalBet = dealt'[i],
         dealerNum' = dealerNum, np' = np
  PROVE  PaidByPots'
<1> DEFINE rs == Settled(ps)
           H == InHand(rs)
           C == AllIns(rs)
           T == Totals(rs)
           pe == AllPots(T, H, AllIns(ps), C)
           pv == AllPots(T, H, C, C)
           w(i) == Winnings(pe, score', Left(rs), dealerNum, np, i)
<1>1. /\ players' = PayShowdown(rs, AllIns(ps), score', dealerNum, np)
      /\ Cardinality(InHand(ps)) >= 2
  BY DEF ResolveShowdown, AllCalled
<1>2. /\ rs \in Table /\ \A i \in Pos : rs[i].stack + rs[i].totalBet = dealt'[i]
      /\ T \in [Pos -> Nat] /\ H \in SUBSET Pos /\ C \in SUBSET H
      /\ \A i \in Pos : T[i] = rs[i].totalBet
      /\ AllIns(ps) \in SUBSET Pos
  <2>1. rs \in Table /\ SameChips(ps, rs)
    BY SettledKeeps
  <2> HIDE DEF rs
  <2>2. \A i \in Pos : rs[i].stack + rs[i].totalBet = dealt'[i]
    BY <2>1 DEF SameChips
  <2>3. C \in SUBSET H
    BY DEF AllIns, AllIn, InHand
  <2> QED BY <2>1, <2>2, <2>3, ReadingTypes DEF Totals
<1>3. \A i \in Pos : rs[i].in = ps[i].in
  BY RefundOne, RefundOthers DEF Settled
<1>4. \/ AllIns(ps) = C
      \/ \E r \in H \ C : /\ AllIns(ps) = C \union {r}
                          /\ \A j \in Pos : T[j] <= T[r]
                          /\ \A j \in H \ C : T[j] = T[r]
  <2>1. \/ AllIns(ps) = C
        \/ \E r \in H \ C : /\ AllIns(ps) = C \union {r}
                            /\ \A j \in Pos : rs[j].totalBet <= rs[r].totalBet
                            /\ \A j \in H \ C : rs[j].totalBet = rs[r].totalBet
    BY AllInsBeforeRefund
  <2> HIDE DEF rs, H, C, T
  <2> QED BY <1>2, <2>1
<1> HIDE DEF rs
<1>5. \A i \in Pos : w(i) \in Nat
  <2>1. C \in SUBSET Pos
    BY <1>2
  <2>2. pe \in [0 .. N -> PotType]
    BY <1>2, <2>1, AllPotsType
  <2> HIDE DEF pe
  <2> QED BY <2>2, WinningsType
<1>6. \A i \in Pos : w(i) = Winnings(pv, score', Left(rs), dealerNum, np, i)
  <2> HIDE DEF H, C, T
  <2>1. CASE AllIns(ps) = C
    BY <2>1
  <2>2. CASE \E r \in H \ C : /\ AllIns(ps) = C \union {r}
                              /\ \A j \in Pos : T[j] <= T[r]
                              /\ \A j \in H \ C : T[j] = T[r]
    BY <1>2, <2>2, RefundPaysTheSame
  <2> QED BY <1>4, <2>1, <2>2
<1>7. ASSUME NEW i \in Pos
      PROVE  /\ players'[i].in = rs[i].in /\ players'[i].left = rs[i].left
             /\ players'[i].totalBet = rs[i].totalBet
             /\ players'[i].stack = rs[i].stack + w(i)
  <2>1. players'[i] = [rs[i] EXCEPT !.stack = @ + w(i)]
    BY <1>1 DEF PayShowdown
  <2>2. rs[i] \in Player
    BY <1>2, Fields
  <2> HIDE DEF w
  <2> QED BY <2>1, <2>2 DEF Player
<1>8. /\ InHand(players') = H /\ Left(players') = Left(rs) /\ Totals(players') = T
  BY <1>7 DEF InHand, Left, Totals
<1>9. ViewPots' = pv
  <2>1. \A i \in H : players'[i].totalBet = dealt'[i] <=> i \in C
    <3> TAKE i \in H
    <3>1. i \in Pos /\ rs[i].in
      BY <1>2 DEF InHand
    <3>2. rs[i].stack \in Nat /\ rs[i].totalBet \in Nat /\ rs[i].stack + rs[i].totalBet = dealt'[i]
      BY <1>2, <3>1, Fields
    <3>3. players'[i].totalBet = rs[i].totalBet
      BY <1>7, <3>1
    <3> QED BY <3>1, <3>2, <3>3 DEF AllIns, AllIn
  <2>2. {i \in InHand(players') : players'[i].totalBet = dealt'[i]} = C
    BY <1>2, <1>8, <2>1
  <2> QED BY <1>8, <2>2 DEF ViewPots
<1> HIDE DEF w, pe, pv, H, C, T
<1>10. ASSUME NEW i \in Pos PROVE Collected(i)' = w(i)
  <2>1. /\ rs[i].stack \in Nat /\ rs[i].totalBet \in Nat /\ rs[i].stack + rs[i].totalBet = dealt'[i]
    BY <1>2, Fields
  <2> QED BY <1>5, <1>7, <2>1 DEF Collected
<1>11. score' # NoScores
  <2>1. PICK sc \in [InHand(ps) -> Scores] :
           score' = [i \in Pos |-> IF i \in InHand(ps) THEN sc[i] ELSE 0]
    BY DEF ResolveShowdown
  <2>2. \A s \in Scores : s # 0
    BY ConfigAssumption
  <2>3. PICK i \in Pos : i \in InHand(ps)
    <3>1. InHand(ps) \in SUBSET Pos /\ Cardinality(InHand(ps)) \in Nat
      BY ReadingTypes, PosFinite, NAssumption
    <3>2. ~(Cardinality(InHand(ps)) < 2)
      BY <1>1, <3>1
    <3> QED BY <3>1, <3>2, ManyNotEmpty
  <2>4. score'[i] # 0
    BY <2>1, <2>2, <2>3
  <2> QED BY <2>4 DEF NoScores
<1> QED BY <1>6, <1>8, <1>9, <1>10, <1>11 DEF PaidByPots

\* However a hand comes to the showdown, it is paid as its table then shows.
LEMMA UpdatePaysPots ==
  ASSUME TypeOK, NEW STATE before, before \in Table, NEW STATE at,
         UpdateRoundInfo(before, at), Handed(before, at, dealt'), score = NoScores,
         at.stage \in PreFlop .. River, stage' = Showdown,
         dealerNum' = dealerNum, np' = np
  PROVE  PaidByPots'
<1> USE DEF NotReady, PreFlop, Flop, Turn, River, Showdown
<1> DEFINE ps == FoldDeparted(before)
<1>1. ps \in Table /\ Handed(ps, at, dealt')
  BY FoldDepartedKeeps, HandedFolds
<1>2. \/ Concede(ps, at) \/ ResolveShowdown(ps, at)
      \/ (stage' = at.stage \/ (at.stage \in PreFlop .. Turn /\ stage' = at.stage + 1))
  BY DEF UpdateRoundInfo, MoveAction, RunOut, DealStreet, FailToDeal
<1> HIDE DEF ps
<1>3. \A i \in Pos : ps[i].stack + ps[i].totalBet = dealt'[i]
  BY <1>1 DEF Handed
<1>4. CASE Concede(ps, at)
  BY <1>1, <1>3, <1>4, ConcedingPaysPot
<1>5. CASE ResolveShowdown(ps, at)
  <2>1. Waiting(ps) = {}
    BY <1>5 DEF ResolveShowdown, AllCalled
  <2>2. CASE at.betting
    <3>1. PICK b \in Nat : StreetBase(ps, b)
      BY <1>1, <2>2 DEF Handed, BettingOn
    <3>2. Closed(ps, dealt')
      BY <1>1, <1>3, <2>1, <3>1, CalledIsClosed
    <3> QED BY <1>1, <1>3, <1>5, <3>2, ShowdownPaysPots
  <2>3. CASE ~at.betting
    <3>1. Closed(ps, dealt')
      BY <1>1, <2>3 DEF Handed, BettingOver
    <3> QED BY <1>1, <1>3, <1>5, <3>1, ShowdownPaysPots
  <2> QED BY <2>2, <2>3
<1> QED BY <1>2, <1>4, <1>5

(***************************************************************************)
(* The steps.                                                              *)
(***************************************************************************)

\* What a step of a hand has to show.
ToShowdown == stage # Showdown /\ stage' = Showdown
PaysOut    == ToShowdown => /\ Sum(N, Stacks') <= Sum(N, dealt')
                            /\ score = NoScores => BestHandPaid' /\ PaidByPots'
TurnStep   == TurnInv' /\ ClosesMatched /\ RefundsThisStreet /\ PaysOut

\* An operation that goes through updateRoundInfo.
LEMMA HandStep ==
  ASSUME IInv, SeatsInv, NEW STATE before, before \in Table, NEW STATE at, at \in Moment,
         UpdateRoundInfo(before, at), Handed(before, at, dealt'), np' = np,
         at.stage = stage, at.betting = betting, BetsMove(players, before),
         dealt' = dealt, dealerNum' = dealerNum
  PROVE  TurnStep
<1>1. TurnInv' /\ ClosesMatched /\ RefundsThisStreet
  BY UpdateKeepsTurn, UpdateAddsUp
<1>2. ASSUME ToShowdown
      PROVE  /\ Sum(N, Stacks') <= Sum(N, dealt')
             /\ score = NoScores => BestHandPaid' /\ PaidByPots'
  <2>1. at.stage \in PreFlop .. River
    BY <1>2 DEF Moment, ToShowdown, PreFlop, River, Showdown
  <2>2. TypeOK /\ stage' = Showdown /\ dealt' \in [Pos -> Nat]
    BY <1>2 DEF IInv, TypeOK, ToShowdown
  <2>3. Sum(N, StacksOf(players')) <= Sum(N, dealt')
    BY <2>1, <2>2, UpdatePaysOut
  <2>4. score = NoScores => BestHandPaid' /\ PaidByPots'
    BY <2>1, <2>2, UpdatePaysBest, UpdatePaysPots
  <2> QED BY <2>3, <2>4 DEF Stacks, StacksOf
<1> QED BY <1>1, <1>2 DEF TurnStep, PaysOut

LEMMA NowMoment ==
  ASSUME IInv, Running
  PROVE  /\ Now \in Moment /\ Now.stage = stage /\ Now.betting = betting /\ Now.board = board
         /\ \A m \in Nat : LET at == [Now EXCEPT !.minRaise = m]
                           IN  /\ at \in Moment /\ at.stage = stage
                               /\ at.betting = betting /\ at.board = board
<1>1. Now \in Moment /\ \A m \in Nat : [Now EXCEPT !.minRaise = m] \in Moment
  BY NowType DEF IInv
<1> QED BY <1>1 DEF Now

\* One bets in a betting round, with chips.
LEMMA OnTurnReads ==
  ASSUME IInv, TurnInv, NEW pn \in Seated(np), OnTurn(pn)
  PROVE  /\ pn \in Pos /\ Running /\ InPlay /\ stage # Showdown /\ betting
         /\ pn \in CanAct(players) /\ BettingOn(players, dealt)
         /\ players[pn].in /\ players \in Table
         /\ \A i \in Pos : players[i].stack + players[i].totalBet = dealt[i]
<1>1. pn \in Pos /\ players[pn].in /\ ~AllIn(players[pn]) /\ betting
  BY SeatedType DEF IInv, OnTurn
<1>2. Running /\ InPlay /\ stage # Showdown
  BY <1>1, OnTurnRunning DEF TurnInv, ActorCanAct, InPlay, Running, PreFlop, River, Showdown
<1>3. pn \in CanAct(players)
  BY <1>1 DEF CanAct, InHand, AllIns
<1>4. \A i \in Pos : players[i].stack + players[i].totalBet = dealt[i]
  BY <1>2 DEF IInv, StakesIntact
<1> QED BY <1>1, <1>2, <1>3, <1>4 DEF TurnInv, IInv, TypeOK, Table

LEMMA CallTurn ==
  ASSUME IInv, SeatsInv, TurnInv, NEW pn \in Seated(np), NEW amt \in Nat,
         Call(pn, amt) \/ ShortRaise(pn, amt)
  PROVE  TurnStep
<1> DEFINE qs == Wager(players, pn, amt)
<1>1. /\ OnTurn(pn) /\ UpdateRoundInfo(qs, Now)
      /\ np' = np /\ dealt' = dealt /\ dealerNum' = dealerNum
      /\ amt <= players[pn].stack
  <2>1. OnTurn(pn) /\ UpdateRoundInfo(qs, Now)
        /\ np' = np /\ dealt' = dealt /\ dealerNum' = dealerNum
        /\ (amt <= players[pn].stack \/ amt = players[pn].stack)
    BY DEF Call, ShortRaise
  <2> QED BY <2>1
<1>2. /\ pn \in Pos /\ Running /\ InPlay /\ stage # Showdown /\ betting
      /\ pn \in CanAct(players) /\ BettingOn(players, dealt)
      /\ players \in Table
      /\ \A i \in Pos : players[i].stack + players[i].totalBet = dealt[i]
  BY <1>1, OnTurnReads
<1>3. PICK b \in Nat : StreetBase(players, b)
  BY <1>2 DEF BettingOn
<1>4. BettingOn(qs, dealt) /\ BetsMove(players, qs)
  BY <1>1, <1>2, <1>3, WagerBetting DEF BettingOn, Answered
<1>5. /\ qs \in Table
      /\ \A i \in Pos : qs[i].in = players[i].in /\ qs[i].ready = players[i].ready
  BY <1>1, <1>2, WagerReads
<1>6. \A i \in Pos : qs[i].stack + qs[i].totalBet = dealt[i]
  <2>1. SameChips(players, qs)
    BY <1>2, SamePlayers, WagerKeeps DEF IInv
  <2> QED BY <1>2, <2>1 DEF SameChips
<1>7. Now \in Moment /\ Now.stage = stage /\ Now.betting = betting /\ Now.board = board
  BY <1>2, NowMoment
<1> HIDE DEF qs
<1>8. Handed(qs, Now, dealt')
  BY <1>1, <1>2, <1>4, <1>5, <1>6, <1>7 DEF Handed, TurnInv, InHand
<1> QED BY <1>1, <1>4, <1>5, <1>7, <1>8, HandStep

LEMMA RaiseTurn ==
  ASSUME IInv, SeatsInv, TurnInv, NEW pn \in Seated(np), NEW amt \in Nat, Raise(pn, amt)
  PROVE  TurnStep
<1> DEFINE reopened == [i \in Pos |-> [players[i] EXCEPT !.called = FALSE]]
           at == [Now EXCEPT !.minRaise = amt - Owed(pn)]
           qs == Wager(reopened, pn, amt)
<1>1. /\ OnTurn(pn) /\ UpdateRoundInfo(qs, at)
      /\ np' = np /\ dealt' = dealt /\ dealerNum' = dealerNum
      /\ amt <= players[pn].stack /\ amt - Owed(pn) >= minRaise
  BY DEF Raise
<1>2. /\ pn \in Pos /\ Running /\ InPlay /\ stage # Showdown /\ betting
      /\ pn \in CanAct(players) /\ BettingOn(players, dealt)
      /\ players \in Table
      /\ \A i \in Pos : players[i].stack + players[i].totalBet = dealt[i]
  BY <1>1, OnTurnReads
<1>3. /\ at \in Moment /\ at.stage = stage /\ at.betting = betting /\ at.board = board
      /\ amt - Owed(pn) \in Nat
  <2>1. Owed(pn) \in Int /\ minRaise \in Nat
    BY <1>2, OwedType DEF IInv, TypeOK
  <2>2. amt - Owed(pn) \in Nat
    BY <1>1, <2>1
  <2> QED BY <1>2, <2>2, NowMoment
<1> HIDE DEF at
<1>4. \A i \in Pos : /\ reopened[i] \in Player
                     /\ reopened[i].in = players[i].in /\ reopened[i].ready = players[i].ready
                     /\ reopened[i].left = players[i].left
                     /\ reopened[i].stack = players[i].stack /\ reopened[i].bet = players[i].bet
                     /\ reopened[i].totalBet = players[i].totalBet
  <2>1. \A i \in Pos : players[i] \in Player
    BY <1>2, Fields
  <2> QED BY <2>1 DEF Player
<1>5. reopened \in Table
  BY <1>4 DEF Table
<1> HIDE DEF reopened
<1>6. CanAct(reopened) = CanAct(players) /\ AllIns(reopened) = AllIns(players)
  BY <1>4 DEF CanAct, InHand, AllIns, AllIn
<1>7. PICK b \in Nat : StreetBase(players, b)
  BY <1>2 DEF BettingOn
<1>8. StreetBase(reopened, b)
  BY <1>4, <1>6, <1>7 DEF StreetBase
<1>9. ASSUME NEW i \in Pos PROVE reopened[i].totalBet <= b + reopened[pn].bet + amt
  <2>1. players[i].totalBet <= b + ToCall(players) /\ ToCall(players) \in Nat
    BY <1>2, <1>7, BaseAndCall, ToCallBounds
  <2>2. players[i].totalBet \in Nat /\ players[pn].bet \in Nat
    BY <1>2, Fields
  <2>3. amt - (ToCall(players) - players[pn].bet) >= 0
    BY <1>3 DEF Owed
  <2> QED BY <1>2, <1>4, <2>1, <2>2, <2>3
<1>10. BettingOn(qs, dealt) /\ BetsMove(reopened, qs)
  <2>1. \A i \in AllIns(reopened) : i \in Pos
    BY DEF AllIns
  <2> QED BY <1>1, <1>2, <1>4, <1>5, <1>6, <1>8, <1>9, <2>1, WagerBetting
<1>11. BetsMove(players, qs)
  BY <1>4, <1>10 DEF BetsMove
<1>12. /\ qs \in Table
       /\ \A i \in Pos : qs[i].in = players[i].in /\ qs[i].ready = players[i].ready
  BY <1>1, <1>2, <1>4, <1>5, WagerReads
<1>13. \A i \in Pos : qs[i].stack + qs[i].totalBet = dealt[i]
  <2>1. SameChips(players, reopened) /\ StaysReady(players, reopened)
    BY <1>4 DEF SameChips, StaysReady
  <2>2. SameChips(players, qs)
    BY <1>2, <1>5, <2>1, WagerKeeps
  <2> QED BY <1>2, <2>2 DEF SameChips
<1> HIDE DEF qs
<1>14. Handed(qs, at, dealt')
  BY <1>1, <1>2, <1>3, <1>10, <1>12, <1>13 DEF Handed, TurnInv, InHand
<1> QED BY <1>1, <1>3, <1>11, <1>12, <1>14, HandStep

LEMMA NothingMoves ==
  ASSUME NEW ps \in Table, NEW qs,
         \A i \in Pos : qs[i].bet = ps[i].bet /\ qs[i].totalBet = ps[i].totalBet
  PROVE  BetsMove(ps, qs)
<1> SUFFICES ASSUME NEW i \in Pos
             PROVE  qs[i].totalBet - ps[i].totalBet = qs[i].bet - ps[i].bet
  BY DEF BetsMove
<1>1. ps[i].totalBet \in Nat /\ ps[i].bet \in Nat
  BY Fields
<1> QED BY <1>1

\* Somebody goes out and the hand moves on: a betting round goes on without
\* them, and what is over stays over.
LEMMA OutStep ==
  ASSUME IInv, SeatsInv, TurnInv, Running, NEW STATE before, before \in Table, GoingOut(players, before),
         \A i \in Pos : before[i].in => before[i].ready,
         UpdateRoundInfo(before, Now), np' = np, dealt' = dealt, dealerNum' = dealerNum,
         InPlay /\ ~betting => Few(before) \/ stage = River
  PROVE  TurnStep
<1>1. /\ Now \in Moment /\ Now.stage = stage /\ Now.betting = betting /\ Now.board = board
      /\ players \in Table /\ stage \in NotReady .. Showdown
  BY NowMoment DEF IInv, TypeOK, Table
<1>2. /\ BettingOn(players, dealt) => BettingOn(before, dealt)
      /\ BettingOver(players, dealt) => BettingOver(before, dealt)
  BY <1>1, GoingOutBetting
<1>3. stage # Showdown => InPlay
  BY <1>1 DEF Running, InPlay, NotReady, PreFlop, River, Showdown
<1>4. betting => stage # Showdown
  BY DEF TurnInv, ActorCanAct, InPlay, PreFlop, River, Showdown
<1>5. \A i \in InHand(before) : i < np /\ before[i].ready
  BY DEF TurnInv, GoingOut, InHand
<1>6. ASSUME stage # Showdown, NEW i \in Pos PROVE before[i].stack + before[i].totalBet = dealt[i]
  BY <1>3, <1>6 DEF IInv, StakesIntact, GoingOut
<1>7. BetsMove(players, before)
  BY <1>1, NothingMoves DEF GoingOut
<1>8. Handed(before, Now, dealt')
  BY <1>1, <1>2, <1>3, <1>4, <1>5, <1>6 DEF Handed, TurnInv
<1> QED BY <1>1, <1>7, <1>8, HandStep

LEMMA FoldTurn ==
  ASSUME IInv, SeatsInv, TurnInv, NEW pn \in Seated(np), Fold(pn) PROVE TurnStep
<1> DEFINE q == [players[pn] EXCEPT !.in = FALSE, !.ready = TRUE]
           qs == [players EXCEPT ![pn].in = FALSE, ![pn].ready = TRUE]
<1>1. /\ OnTurn(pn) /\ UpdateRoundInfo(qs, Now)
      /\ np' = np /\ dealt' = dealt /\ dealerNum' = dealerNum
  BY DEF Fold
<1>2. pn \in Pos /\ Running /\ betting /\ players \in Table
  BY <1>1, OnTurnReads
<1>3. qs = [i \in Pos |-> IF i = pn THEN q ELSE players[i]]
  BY <1>2 DEF Table, Player
<1>4. /\ q \in Player /\ ~q.in
      /\ q.called = players[pn].called /\ q.stack = players[pn].stack
      /\ q.bet = players[pn].bet /\ q.totalBet = players[pn].totalBet
  BY <1>2 DEF Table, Player
<1> HIDE DEF q, qs
<1>5. qs \in Table /\ GoingOut(players, qs) /\ \A i \in Pos : qs[i].in => qs[i].ready
  BY <1>2, <1>3, <1>4 DEF Table, GoingOut, TurnInv, InHand
<1> QED BY <1>1, <1>2, <1>5, OutStep

\* From ps to qs nothing that the turn depends on changes.
LookAlike(ps, qs) ==
  \A i \in Pos : /\ qs[i].in = ps[i].in /\ qs[i].called = ps[i].called
                 /\ qs[i].bet = ps[i].bet /\ qs[i].totalBet = ps[i].totalBet
                 /\ ps[i].in => qs[i].stack = ps[i].stack /\ qs[i].ready = ps[i].ready

\* A step that does not call updateRoundInfo.
LEMMA QuietStep ==
  ASSUME IInv, TurnInv, players' \in Table, LookAlike(players, players'),
         \A i \in InHand(players) : dealt'[i] = dealt[i],
         UNCHANGED <<street, np>>,
         betting => ~players'[actionNum].left
  PROVE  TurnStep
<1> DEFINE qs == players'
           d == dealt'
<1>1. /\ players \in Table /\ actionNum \in Pos
      /\ stage' = stage /\ betting' = betting /\ board' = board /\ np' = np
      /\ actionNum' = actionNum
  BY DEF IInv, TypeOK, Table, street
<1>2. /\ InHand(qs) = InHand(players) /\ AllIns(qs) = AllIns(players)
      /\ CanAct(qs) = CanAct(players)
  BY DEF LookAlike, InHand, AllIns, CanAct, AllIn
<1>3. ToCall(qs) = ToCall(players)
  <2>1. [i \in Pos |-> qs[i].bet] = [i \in Pos |-> players[i].bet]
    BY DEF LookAlike
  <2> QED BY <2>1 DEF ToCall
<1>4. \A i \in InHand(players) : IsCalled(qs, i) <=> IsCalled(players, i)
  BY <1>3 DEF LookAlike, IsCalled, AllIn, InHand
<1>5. Waiting(qs) = Waiting(players)
  BY <1>2, <1>4 DEF Waiting
<1>6. \A i \in Pos : Matched(qs, i) <=> Matched(players, i)
  BY DEF Matched, LookAlike
<1>7. AllIns(players) \subseteq InHand(players) /\ InHand(players) \subseteq Pos
      /\ Waiting(players) \subseteq InHand(players)
  BY DEF AllIns, InHand, AllIn, Waiting
<1>8. Closed(players, dealt) => Closed(qs, d)
  BY <1>2, <1>7 DEF Closed, LookAlike
<1>9. BettingOn(players, dealt) => BettingOn(qs, d)
  <2>1. Answered(players, dealt) => Answered(qs, d)
    BY <1>2, <1>6, <1>7 DEF Answered, LookAlike
  <2>2. ASSUME NEW b \in Nat, StreetBase(players, b) PROVE StreetBase(qs, b)
    <3>1. \A i \in Pos : qs[i].bet = players[i].bet /\ qs[i].totalBet = players[i].totalBet
      BY DEF LookAlike
    <3> QED BY <1>2, <2>2, <3>1 DEF StreetBase
  <2> QED BY <2>1, <2>2 DEF BettingOn
<1>10. BettingOver(players, dealt) => BettingOver(qs, d)
  <2> SUFFICES ASSUME BettingOver(players, dealt) PROVE BettingOver(qs, d)
    OBVIOUS
  <2>1. \A i \in InHand(qs) : Matched(qs, i)
    BY <1>2, <1>6, <1>7 DEF BettingOver
  <2>2. \A i \in Waiting(qs) : d[i] <= BigBlind /\ ~qs[i].called /\ qs[i].stack > 0
    BY <1>5, <1>7 DEF BettingOver, LookAlike, InHand
  <2> QED BY <1>2, <1>8, <2>1, <2>2 DEF BettingOver
<1>11. ActorCanAct'
  <2> SUFFICES ASSUME betting
               PROVE  /\ InPlay' /\ actionNum < np
                      /\ qs[actionNum].in /\ qs[actionNum].stack > 0 /\ ~qs[actionNum].left
                      /\ ~IsCalled(qs, actionNum)
    BY <1>1 DEF ActorCanAct, IsCalled, AllIn, ToCall
  <2>1. /\ InPlay /\ actionNum < np /\ players[actionNum].in /\ players[actionNum].stack > 0
        /\ ~IsCalled(players, actionNum)
    BY DEF TurnInv, ActorCanAct
  <2>2. actionNum \in InHand(players)
    BY <1>1, <2>1 DEF InHand
  <2> QED BY <1>1, <1>4, <2>1, <2>2 DEF LookAlike, InPlay
<1>12. \A i \in InHand(qs) : i < np /\ qs[i].ready
  BY <1>2, <1>7 DEF TurnInv, LookAlike, InHand
<1>13. TurnInv'
  BY <1>1, <1>9, <1>10, <1>11, <1>12 DEF TurnInv, InPlay
<1>14. BetsMove(players, players')
  BY <1>1, NothingMoves DEF LookAlike
<1>15. ~ClosesStreet
  BY <1>1 DEF ClosesStreet, IInv, TypeOK, NotReady, Showdown
<1>16. PaysOut
  BY <1>1 DEF PaysOut, ToShowdown
<1> QED BY <1>13, <1>14, <1>15, <1>16, AddsUpMeans DEF TurnStep

\* Leaving: who is on turn folds, who is waited for never leaves unnoticed.
LEMMA LeaveHandTurn ==
  ASSUME IInv, SeatsInv, TurnInv, NEW pn \in Seated(np), LeaveHand(pn) PROVE TurnStep
<1> DEFINE p     == players[pn]
           folds == p.in /\ ~AllIn(p) /\ pn = actionNum
           g == [players[pn] EXCEPT !.left = TRUE]
           o == [g EXCEPT !.in = FALSE, !.ready = FALSE]
           gone == [players EXCEPT ![pn] = g]
           out  == [players EXCEPT ![pn] = o]
<1>1. players \in Table /\ pn \in Pos /\ Running
  BY SeatedType DEF IInv, TypeOK, Table, LeaveHand
<1>2. /\ g \in Player /\ g.in = p.in /\ g.ready = p.ready /\ g.called = p.called
      /\ g.stack = p.stack /\ g.bet = p.bet /\ g.totalBet = p.totalBet
      /\ o \in Player /\ ~o.in /\ ~o.ready /\ o.called = p.called
      /\ o.stack = p.stack /\ o.bet = p.bet /\ o.totalBet = p.totalBet
  BY <1>1 DEF Table, Player
<1>3. /\ [players EXCEPT ![pn].left = TRUE] = gone
      /\ [gone EXCEPT ![pn].in = FALSE, ![pn].ready = FALSE] = out
  BY <1>1 DEF Table, Player
<1>4. /\ \/ folds /\ UpdateRoundInfo(out, Now) /\ dealerNum' = dealerNum
         \/ ~folds /\ p.in /\ players' = gone /\ UNCHANGED street
         \/ ~p.in /\ players' = out /\ UNCHANGED street
      /\ np' = np /\ dealt' = dealt
  <2> HIDE DEF out, g, o
  <2> QED BY <1>3 DEF LeaveHand, gone
<1> HIDE DEF g, o
<1>5. /\ gone = [i \in Pos |-> IF i = pn THEN g ELSE players[i]]
      /\ out = [i \in Pos |-> IF i = pn THEN o ELSE players[i]]
  BY <1>1 DEF Table
<1> HIDE DEF gone, out
<1>6. gone \in Table /\ out \in Table
  BY <1>1, <1>2, <1>5 DEF Table
<1>7. CASE folds /\ UpdateRoundInfo(out, Now) /\ dealerNum' = dealerNum
  <2>1. GoingOut(players, out) /\ \A i \in Pos : out[i].in => out[i].ready
    BY <1>1, <1>2, <1>5 DEF GoingOut, TurnInv, InHand
  <2>2. InPlay /\ ~betting => Few(out)
    <3> SUFFICES ASSUME BettingOver(players, dealt) PROVE Few(out)
      BY DEF TurnInv
    <3>1. PICK i \in Pos, j \in Pos : CanAct(players) \subseteq {i, j}
      BY DEF BettingOver
    <3>2. pn \in CanAct(players) /\ pn \notin CanAct(out)
      BY <1>1, <1>2, <1>5, <1>7 DEF CanAct, InHand, AllIns
    <3>3. CanAct(out) \subseteq CanAct(players) /\ CanAct(out) \in SUBSET Pos
      BY <1>1, <1>6, <2>1, GoingOutReads, ReadingTypes
    <3>4. \A x, y \in CanAct(out) : x = y
      BY <3>1, <3>2, <3>3
    <3> QED BY <3>3, <3>4, FewIsOne DEF Few
  <2> QED BY <1>1, <1>4, <1>6, <1>7, <2>1, <2>2, OutStep
<1>8. CASE ~folds /\ p.in /\ players' = gone /\ UNCHANGED street
  <2>1. LookAlike(players, gone)
    BY <1>1, <1>2, <1>5 DEF LookAlike
  <2>2. betting => actionNum # pn /\ actionNum \in Pos /\ ~players[actionNum].left
    BY <1>8 DEF TurnInv, ActorCanAct, AllIn, IInv, TypeOK
  <2>3. betting => ~gone[actionNum].left
    BY <1>5, <2>2
  <2> QED BY <1>4, <1>6, <1>8, <2>1, <2>3, QuietStep
<1>9. CASE ~p.in /\ players' = out /\ UNCHANGED street
  <2>0. o.in = p.in
    <3>1. o.in \in BOOLEAN /\ p.in \in BOOLEAN
      BY <1>1, <1>2 DEF Table, Player
    <3> QED BY <1>2, <1>9, <3>1
  <2>1. LookAlike(players, out)
    BY <1>1, <1>2, <1>5, <1>9, <2>0 DEF LookAlike
  <2>2. betting => actionNum # pn /\ actionNum \in Pos /\ ~players[actionNum].left
    BY <1>9 DEF TurnInv, ActorCanAct, IInv, TypeOK
  <2>3. betting => ~out[actionNum].left
    BY <1>5, <2>2
  <2> QED BY <1>4, <1>6, <1>9, <2>1, <2>3, QuietStep
<1> QED BY <1>4, <1>7, <1>8, <1>9

\* The board is run out one card a step; after the river it goes to the pots.
LEMMA RunoutTurn == ASSUME IInv, SeatsInv, TurnInv, RunoutNext PROVE TurnStep
<1> USE DEF NotReady, PreFlop, Flop, Turn, River, Showdown
<1>1. /\ InPlay /\ ~betting /\ Running /\ players \in Table
      /\ BettingOver(players, dealt) /\ stage \in PreFlop .. River
      /\ np' = np /\ dealt' = dealt /\ dealerNum' = dealerNum /\ board \in {0, 3, 4, 5}
  BY DEF RunoutNext, InPlay, Running, IInv, TypeOK, Table, TurnInv
<1>2. /\ stage = PreFlop <=> board = 0
      /\ stage = Flop <=> board = 3
      /\ stage = Turn <=> board = 4
      /\ stage = River <=> board = 5
  BY <1>1 DEF TurnInv, BoardShows
<1>3. CASE board = 5 /\ UpdateRoundInfo(players, Now)
  <2>1. GoingOut(players, players)
    BY DEF GoingOut
  <2> QED BY <1>1, <1>2, <1>3, <2>1, OutStep DEF TurnInv, InHand
<1>4. CASE /\ board < 5
           /\ board' = IF board = 0 THEN 3 ELSE board + 1
           /\ stage' = (CASE board = 0 -> Flop [] board = 3 -> Turn [] board = 4 -> River)
           /\ betting' = FALSE
           /\ UNCHANGED <<players, actionNum, minRaise, score>>
  <2>1. BoardShows(stage', board')
    BY <1>1, <1>4 DEF BoardShows
  <2>2. ActorCanAct' /\ BettingOver(players', dealt')
    BY <1>1, <1>4 DEF ActorCanAct
  <2>3. \A i \in InHand(players') : i < np' /\ players'[i].ready
    BY <1>1, <1>4 DEF TurnInv
  <2>4. TurnInv'
    BY <1>4, <2>1, <2>2, <2>3 DEF TurnInv
  <2>5. Closed(players', dealt')
    BY <2>2 DEF BettingOver
  <2>6. BetsMove(players, players')
    BY <1>1, <1>4, NothingMoves
  <2>7. PaysOut
    <3>1. stage' \in Flop .. River
      BY <1>1, <1>4
    <3> QED BY <3>1 DEF PaysOut, ToShowdown
  <2> QED BY <2>4, <2>5, <2>6, <2>7, AddsUpMeans DEF TurnStep
<1> QED BY <1>3, <1>4 DEF RunoutNext

\* Chips bought during a hand touch nobody who is in it.
LEMMA RebuyTurn ==
  ASSUME IInv, IInv', TurnInv, NEW pn \in Seated(np), NEW amt \in Nat, Rebuy(pn, amt)
  PROVE  TurnStep
<1> DEFINE later == [players[pn] EXCEPT !.pendingBuyIn = @ + amt, !.totalBuyIn = @ + amt]
           now   == [players[pn] EXCEPT !.stack = @ + amt, !.totalBuyIn = @ + amt]
<1>1. /\ players \in Table /\ players' \in Table /\ pn \in Pos /\ actionNum \in Pos
      /\ dealt \in [Pos -> Nat] /\ ~players[pn].left
  BY SeatedType DEF IInv, TypeOK, Table, Rebuy
<1>2. /\ \/ /\ players[pn].in /\ dealt' = dealt
            /\ players' = [players EXCEPT ![pn] = later]
         \/ /\ ~players[pn].in /\ (dealt' = dealt \/ dealt' = [dealt EXCEPT ![pn] = @ + amt])
            /\ players' = [players EXCEPT ![pn] = now]
      /\ UNCHANGED <<street, np>>
  <2>1. [players EXCEPT ![pn].pendingBuyIn = @ + amt, ![pn].totalBuyIn = @ + amt]
          = [players EXCEPT ![pn] = later]
    BY <1>1 DEF Table, Player
  <2>2. [players EXCEPT ![pn].stack = @ + amt, ![pn].totalBuyIn = @ + amt]
          = [players EXCEPT ![pn] = now]
    BY <1>1 DEF Table, Player
  <2> HIDE DEF later, now
  <2> QED BY <2>1, <2>2 DEF Rebuy
<1>3. /\ later.in = players[pn].in /\ later.called = players[pn].called
      /\ later.bet = players[pn].bet /\ later.totalBet = players[pn].totalBet
      /\ later.stack = players[pn].stack /\ later.ready = players[pn].ready
      /\ later.left = players[pn].left
      /\ now.in = players[pn].in /\ now.called = players[pn].called
      /\ now.bet = players[pn].bet /\ now.totalBet = players[pn].totalBet
      /\ now.left = players[pn].left
  BY <1>1 DEF Table, Player
<1> HIDE DEF later, now
<1>4. LookAlike(players, players') /\ \A i \in Pos : players'[i].left = players[i].left
  BY <1>1, <1>2, <1>3 DEF LookAlike, Table
<1>5. \A i \in InHand(players) : dealt'[i] = dealt[i]
  BY <1>1, <1>2 DEF InHand
<1>6. betting => ~players'[actionNum].left
  BY <1>1, <1>4 DEF TurnInv, ActorCanAct
<1> QED BY <1>1, <1>2, <1>4, <1>5, <1>6, QuietStep

\* A step that ends between hands.
LEMMA RestStep ==
  ASSUME IInv', stage' = NotReady, betting' = FALSE PROVE TurnStep
<1> USE DEF NotReady, PreFlop, Flop, Turn, River, Showdown
<1>1. InHand(players') = {}
  BY DEF IInv, HandCleared, InHand
<1>2. ~InPlay' /\ ActorCanAct' /\ BoardShows(stage', board')
  BY DEF InPlay, ActorCanAct, BoardShows
<1>3. TurnInv'
  BY <1>1, <1>2 DEF TurnInv
<1>4. ~ClosesStreet
  BY DEF ClosesStreet
<1>5. ~SameStreet
  BY DEF SameStreet, InPlay
<1>6. PaysOut
  BY DEF PaysOut, ToShowdown
<1> QED BY <1>3, <1>4, <1>5, <1>6 DEF TurnStep, ClosesMatched, RefundsThisStreet

\* Every step between hands but the one that deals ends there.
LEMMA SeatingTurn ==
  ASSUME IInv, IInv', TurnInv, BetweenHands, ~Start PROVE TurnStep
<1>1. AtRest => ~betting
  BY DEF AtRest, TurnInv, ActorCanAct, InPlay, NotReady, PreFlop, River
<1>2. CASE Reset
  BY <1>2, RestStep DEF Reset
<1>3. CASE AtRest /\ stage' = stage /\ betting' = betting
  <2>1. betting' = FALSE
    BY <1>1, <1>3 DEF IInv, TypeOK
  <2> QED BY <1>3, <2>1, RestStep DEF AtRest
<1>4. CASE SettleSession
  BY <1>2, <1>4 DEF SettleSession
<1>5. ASSUME NEW s \in 1 .. N, NEW ready \in BOOLEAN, SeatPlayer(s, ready) PROVE TurnStep
  BY <1>3, <1>5 DEF SeatPlayer, street
<1>6. ASSUME NEW pn \in Seated(np), NEW s \in 1 .. N, MoveSeat(pn, s) PROVE TurnStep
  BY <1>3, <1>6 DEF MoveSeat, street
<1>7. ASSUME NEW pn \in Seated(np), ToggleReady(pn) PROVE TurnStep
  BY <1>3, <1>7 DEF ToggleReady, street
<1>8. ASSUME NEW pn \in Seated(np), UndoRebuy(pn) PROVE TurnStep
  <2>1. ~Running /\ stage' = stage /\ betting' = betting
    BY <1>8 DEF UndoRebuy, IInv, SeatsReady, street
  <2>2. AtRest
    BY <2>1 DEF Running, AtRest, IInv, TypeOK, NotReady, PreFlop, Showdown
  <2> QED BY <1>3, <2>1, <2>2
<1>9. ASSUME NEW pn \in Seated(np), LeaveTable(pn) \/ Spectate(pn) \/ Bust(pn) PROVE TurnStep
  <2>1. AtRest /\ (Reset \/ (stage' = stage /\ betting' = betting))
    BY <1>9 DEF LeaveTable, Spectate, Bust, DropAndPause, Drop
  <2> QED BY <1>2, <1>3, <2>1
<1> QED BY <1>4, <1>5, <1>6, <1>7, <1>8, <1>9 DEF BetweenHands

\* The position NextFrom finds is the nearest.
LEMMA NextFromNearest ==
  ASSUME NEW S \in SUBSET Pos, S # {}, NEW a \in 0 .. N, NEW n \in 0 .. N
  PROVE  \A j \in S : Clockwise(a, n, NextFrom(a, n, S)) <= Clockwise(a, n, j)
<1> DEFINE D == {Clockwise(a, n, j) + N : j \in S}
<1>1. \A j \in S : Clockwise(a, n, j) \in Int /\ Clockwise(a, n, j) + N \in Nat
  BY NAssumption DEF Clockwise, Pos
<1>2. PICK m \in D : \A k \in D : m <= k
  <2>1. D \in SUBSET Nat /\ D # {}
    BY <1>1
  <2> QED BY <2>1, LeastElement
<1>3. PICK i \in S : m = Clockwise(a, n, i) + N
  BY <1>2
<1>4. \A j \in S : Clockwise(a, n, i) <= Clockwise(a, n, j)
  <2> TAKE j \in S
  <2>1. Clockwise(a, n, i) + N <= Clockwise(a, n, j) + N
    BY <1>2, <1>3
  <2> QED BY <1>1, <2>1, NAssumption
<1> QED BY <1>4 DEF NextFrom

\* Going round from after a player, one meets somebody else first.
LEMMA NextIsAnother ==
  ASSUME NEW n \in 0 .. N, NEW S \in SUBSET Pos, \A i \in S : i < n,
         NEW a \in Pos, a < n, ~(Cardinality(S) < 2)
  PROVE  NextFrom(After(a, n), n, S) \in S \ {a}
<1> DEFINE f == After(a, n)
           r == NextFrom(f, n, S)
<1>1. PICK x \in S : x # a
  BY FewIsOne
<1>2. /\ f \in 0 .. N /\ f = (IF a + 1 = n THEN 0 ELSE a + 1)
      /\ a \in Nat /\ n \in Nat /\ x \in Nat /\ x < n
  BY NAssumption DEF After, Pos
<1> HIDE DEF f
<1>3. r \in S /\ Clockwise(f, n, r) <= Clockwise(f, n, x)
  BY <1>1, <1>2, NextFromType, NextFromNearest
<1>4. Clockwise(f, n, a) = n - 1
  BY <1>2 DEF Clockwise
<1>5. Clockwise(f, n, x) < n - 1
  BY <1>1, <1>2 DEF Clockwise
<1>6. r # a
  BY <1>2, <1>3, <1>4, <1>5 DEF Clockwise
<1> QED BY <1>3, <1>6 DEF f

\* The blinds are two players, one of whom may be the button.
LEMMA BlindsDiffer ==
  ASSUME IInv, SeatsInv, Cardinality(Ready(players)) >= 2
  PROVE  SmallBlindNum \in Pos /\ BigBlindNum \in Pos /\ SmallBlindNum # BigBlindNum
<1> DEFINE R == Ready(players)
<1>1. TypeOK /\ np \in 0 .. N /\ dealerNum \in Pos /\ R \in SUBSET Pos /\ \A i \in R : i < np
  BY SeatedNotVacant DEF IInv, TypeOK, Ready
<1>2. ~(Cardinality(R) < 2) /\ R # {}
  <2>1. Cardinality(R) \in Nat
    BY <1>1, PosFinite, NAssumption
  <2>2. ~(Cardinality(R) < 2)
    BY <2>1
  <2> QED BY <1>1, <2>2, ManyNotEmpty
<1>3. dealerNum < np
  <2>1. np # 0
    BY <1>1, <1>2, NAssumption DEF Pos
  <2> QED BY <2>1 DEF SeatsInv
<1> HIDE DEF R
<1>4. NextFrom(After(dealerNum, np), np, R) \in R
  BY <1>1, <1>2, <1>3, NextIsAnother
<1>5. SmallBlindNum \in Pos /\ SmallBlindNum < np
  BY <1>1, <1>3, <1>4 DEF SmallBlindNum, R
<1>6. BigBlindNum \in R \ {SmallBlindNum}
  BY <1>1, <1>2, <1>5, NextIsAnother DEF BigBlindNum, R
<1> QED BY <1>1, <1>5, <1>6

\* The table after dealing in: everyone ready is in, the blinds are the only
\* bets, and only a blind can take somebody's last chip.
LEMMA DealInReads ==
  ASSUME IInv, SeatsInv, CleanBetweenHands, Start
  PROVE  /\ DealIn \in Table
         /\ \A i \in Pos : /\ DealIn[i].bet = DealIn[i].totalBet
                           /\ DealIn[i].in = players[i].ready
                           /\ DealIn[i].ready = players[i].ready
                           /\ DealIn[i].stack + DealIn[i].totalBet = players[i].stack
         /\ \A i \in AllIns(DealIn) : players[i].stack <= BigBlind
<1> DEFINE dealtIn == [i \in Pos |-> [players[i] EXCEPT !.bet = 0, !.called = FALSE,
                                        !.in = @ \/ players[i].ready]]
           sb == SmallBlindNum
           bb == BigBlindNum
           q  == PutInChips(dealtIn[sb], SmallBlind)
           r  == PutInChips(dealtIn[bb], BigBlind)
           \* Dealt(p, o): p is what o becomes
           Dealt(p, o) == /\ p.bet = p.totalBet /\ p.in = o.ready /\ p.ready = o.ready
                          /\ p.stack + p.totalBet = o.stack
<1>1. /\ players \in Table /\ stage = NotReady
      /\ sb \in Pos /\ bb \in Pos /\ sb # bb
      /\ SmallBlind \in Nat /\ BigBlind \in Nat /\ SmallBlind < BigBlind
  BY BlindsDiffer, ConfigAssumption DEF IInv, TypeOK, Table, Start
<1>2. \A i \in Pos : ~players[i].in /\ players[i].totalBet = 0
  BY <1>1 DEF IInv, HandCleared
<1>3. \A i \in Pos : /\ dealtIn[i] \in Player /\ dealtIn[i].bet = 0 /\ dealtIn[i].totalBet = 0
                     /\ dealtIn[i].in = players[i].ready /\ dealtIn[i].ready = players[i].ready
                     /\ dealtIn[i].stack = players[i].stack
  <2> TAKE i \in Pos
  <2>1. players[i] \in Player /\ players[i].ready \in BOOLEAN
    BY <1>1, Fields
  <2>2. (players[i].in \/ players[i].ready) = players[i].ready
    BY <1>2, <2>1
  <2> QED BY <1>2, <2>1, <2>2 DEF Player
<1>4. dealtIn \in Table
  BY <1>3 DEF Table
<1>5. DealIn = [[dealtIn EXCEPT ![sb] = PutInChips(@, SmallBlind)]
                 EXCEPT ![bb] = PutInChips(@, BigBlind)]
  BY DEF DealIn
<1> HIDE DEF dealtIn, sb, bb
<1>6. DealIn = [i \in Pos |-> IF i = sb THEN q ELSE IF i = bb THEN r ELSE dealtIn[i]]
  BY <1>1, <1>4, <1>5 DEF Table
<1>7. \A i \in Pos : dealtIn[i].stack \in Nat
  BY <1>4, Fields
<1>8. q \in Player /\ Dealt(q, players[sb]) /\ (q.stack = 0 => players[sb].stack <= SmallBlind)
  <2>1. PICK p \in Player : p = dealtIn[sb]
    BY <1>1, <1>3
  <2>2. LET z == PutInChips(p, SmallBlind)
            paid == AtMost(SmallBlind, p.stack)
        IN  /\ z \in Player /\ paid \in Nat
            /\ z.bet = p.bet + paid /\ z.totalBet = p.totalBet + paid /\ z.stack = p.stack - paid
            /\ z.in = p.in /\ z.ready = p.ready
            /\ z.stack = 0 => p.stack <= SmallBlind
    BY <1>1, PutInReads
  <2> QED BY <1>1, <1>3, <1>7, <2>1, <2>2
<1>9. r \in Player /\ Dealt(r, players[bb]) /\ (r.stack = 0 => players[bb].stack <= BigBlind)
  <2>1. PICK p \in Player : p = dealtIn[bb]
    BY <1>1, <1>3
  <2>2. LET z == PutInChips(p, BigBlind)
            paid == AtMost(BigBlind, p.stack)
        IN  /\ z \in Player /\ paid \in Nat
            /\ z.bet = p.bet + paid /\ z.totalBet = p.totalBet + paid /\ z.stack = p.stack - paid
            /\ z.in = p.in /\ z.ready = p.ready
            /\ z.stack = 0 => p.stack <= BigBlind
    BY <1>1, PutInReads
  <2> QED BY <1>1, <1>3, <1>7, <2>1, <2>2
<1>10. \A i \in Pos : Dealt(dealtIn[i], players[i])
  BY <1>3, <1>7
<1> HIDE DEF q, r, Dealt
<1>11. DealIn \in Table
  BY <1>3, <1>6, <1>8, <1>9 DEF Table
<1>12. \A i \in Pos : Dealt(DealIn[i], players[i])
  BY <1>6, <1>8, <1>9, <1>10
<1>13. ASSUME NEW i \in AllIns(DealIn) PROVE players[i].stack <= BigBlind
  <2>1. i \in Pos /\ DealIn[i].in /\ DealIn[i].stack = 0
    BY DEF AllIns, AllIn
  <2>2. players[i].stack \in Nat
    BY <1>1, <2>1, Fields
  <2>3. CASE i = sb
    BY <1>1, <1>6, <1>8, <2>1, <2>2, <2>3
  <2>4. CASE i # sb /\ i = bb
    BY <1>6, <1>9, <2>1, <2>4
  <2>5. CASE i # sb /\ i # bb
    <3>1. players[i].ready /\ players[i].stack = 0
      BY <1>3, <1>6, <2>1, <2>5
    <3>2. i < np /\ i \in Seated(np)
      BY <2>1, <3>1, SeatedNotVacant, SeatedBelow DEF Ready, IInv, TypeOK
    <3> QED BY <1>1, <3>1, <3>2 DEF CleanBetweenHands
  <2> QED BY <2>3, <2>4, <2>5
<1> QED BY <1>11, <1>12, <1>13 DEF Dealt

LEMMA StartTurn ==
  ASSUME IInv, SeatsInv, CleanBetweenHands, Start PROVE TurnStep
<1> USE DEF NotReady, PreFlop, Flop, Turn, River, Showdown
<1> DEFINE at == [action |-> UnderTheGun, stage |-> PreFlop, betting |-> TRUE,
                  minRaise |-> BigBlind, board |-> 0]
<1>1. /\ UpdateRoundInfo(DealIn, at) /\ np' = np /\ dealerNum' = dealerNum /\ stage = NotReady
      /\ dealt' = [i \in Pos |-> players[i].stack] /\ TypeOK
      /\ Cardinality(Ready(players)) >= 2
  BY DEF Start, IInv
<1>2. at \in Moment
  BY <1>1, BlindsType, ConfigAssumption DEF Moment
<1>3. at.stage = PreFlop /\ at.betting /\ at.board = 0
  OBVIOUS
<1> HIDE DEF at
<1>4. /\ DealIn \in Table
      /\ \A i \in Pos : /\ DealIn[i].bet = DealIn[i].totalBet
                        /\ DealIn[i].in = players[i].ready
                        /\ DealIn[i].ready = players[i].ready
                        /\ DealIn[i].stack + DealIn[i].totalBet = players[i].stack
      /\ \A i \in AllIns(DealIn) : i \in Pos /\ players[i].stack <= BigBlind
  BY DealInReads DEF AllIns
<1>5. \A i \in Pos : DealIn[i].totalBet \in Nat
  BY <1>4, Fields
<1>6. StreetBase(DealIn, 0)
  <2>1. \A i \in Pos : 0 + DealIn[i].bet = DealIn[i].totalBet /\ DealIn[i].totalBet >= 0
    BY <1>4, <1>5
  <2>2. \A i \in Pos : \E j \in Pos \ {i} : DealIn[j].totalBet >= 0
    BY <2>1, AnotherPosition
  <2> QED BY <1>5, <2>1, <2>2 DEF StreetBase
<1>7. BettingOn(DealIn, dealt')
  BY <1>1, <1>4, <1>6 DEF BettingOn, Answered
<1>8. \A i \in InHand(DealIn) : i < np /\ DealIn[i].ready
  BY <1>1, <1>4, SeatedNotVacant DEF InHand, Ready
<1>9. Handed(DealIn, at, dealt')
  BY <1>1, <1>3, <1>4, <1>7, <1>8 DEF Handed, BoardShows
<1>10. TurnInv'
  BY <1>1, <1>2, <1>4, <1>9, UpdateKeepsTurn
<1>11. ~InPlay /\ ~ClosesStreet
  BY <1>1 DEF InPlay, ClosesStreet
<1>12. ASSUME ToShowdown
       PROVE  /\ Sum(N, Stacks') <= Sum(N, dealt')
              /\ score = NoScores => BestHandPaid' /\ PaidByPots'
  <2>1. dealt' \in [Pos -> Nat] /\ stage' = Showdown /\ at.stage \in PreFlop .. River
    BY <1>1, <1>3, <1>12, Fields DEF TypeOK, Table, ToShowdown
  <2>2. Sum(N, StacksOf(players')) <= Sum(N, dealt')
    BY <1>1, <1>4, <1>9, <2>1, UpdatePaysOut
  <2>3. score = NoScores => BestHandPaid' /\ PaidByPots'
    BY <1>1, <1>4, <1>9, <2>1, UpdatePaysBest, UpdatePaysPots
  <2> QED BY <2>2, <2>3 DEF Stacks, StacksOf
<1> QED BY <1>10, <1>11, <1>12
        DEF TurnStep, ClosesMatched, RefundsThisStreet, SameStreet, PaysOut

(***************************************************************************)
(* The theorems.                                                           *)
(***************************************************************************)

LEMMA TurnSteps ==
  ASSUME IInv, IInv', SeatsInv, CleanBetweenHands, TurnInv, [Next]_vars
  PROVE  TurnStep
<1>1. Amounts \subseteq Nat /\ Rebuys \subseteq Nat
  BY AmountsNat DEF IInv
<1>2. CASE UNCHANGED vars
  <2>1. /\ players' = players /\ dealt' = dealt /\ UNCHANGED <<street, np>>
        /\ players \in Table
    BY <1>2 DEF vars, street, IInv, TypeOK, Table
  <2>2. LookAlike(players, players')
    BY <2>1 DEF LookAlike
  <2>3. betting => ~players'[actionNum].left
    BY <2>1 DEF TurnInv, ActorCanAct
  <2> QED BY <2>1, <2>2, <2>3, QuietStep
<1>3. CASE Act
  BY <1>1, <1>3, CallTurn, RaiseTurn, FoldTurn DEF Act
<1>4. CASE SettleShowdown
  BY <1>4, RestStep DEF SettleShowdown
<1>5. CASE PlayHand /\ ~Act /\ ~SettleShowdown
  BY <1>1, <1>5, RunoutTurn, LeaveHandTurn, RebuyTurn DEF PlayHand
<1>6. CASE BetweenHands
  BY <1>6, StartTurn, SeatingTurn
<1> QED BY <1>2, <1>3, <1>4, <1>5, <1>6 DEF Next

LEMMA InitTurn == Init => TurnInv
<1> SUFFICES ASSUME Init PROVE TurnInv
  OBVIOUS
<1>1. ~betting /\ stage = NotReady /\ board = 0 /\ players = [i \in Pos |-> Vacant]
  BY DEF Init
<1>2. InHand(players) = {}
  BY <1>1 DEF InHand, Vacant
<1> QED BY <1>1, <1>2 DEF TurnInv, ActorCanAct, InPlay, BoardShows,
                          NotReady, PreFlop, Flop, Turn, River

LEMMA SeatsInvariance == Spec => []SeatsInv
BY InitSeats, StepSeats, Invariance, PTL DEF Spec

LEMMA TurnInvariance == Spec => []TurnInv
<1>1. IInv /\ IInv' /\ SeatsInv /\ CleanBetweenHands /\ TurnInv /\ [Next]_vars => TurnInv'
  BY TurnSteps DEF TurnStep
<1> QED BY <1>1, InitTurn, SeatsInvariance, NothingSurvives, Invariance, PTL DEF Spec

\* Whoever the table waits for can act, at a price on which its two computations
\* agree; nobody is waited for once betting has stopped; and everyone dealt in
\* stays ready: at a table of any size, whoever bets, folds, leaves or rebuys.
THEOREM TurnStaysRight == Spec => []TurnIsRight
BY TurnInvImplies, TurnInvariance, Invariance, PTL

\* While the showdown is displayed and nobody can leave, players only rebuy.
LEMMA AtShowdown ==
  ASSUME IInv, TurnInv, ~LeaveAtShowdown, [Next]_vars, stage = Showdown, stage' = Showdown
  PROVE  UNCHANGED vars \/ \E pn \in Seated(np), amt \in Rebuys : Rebuy(pn, amt)
<1> USE DEF NotReady, PreFlop, Flop, Turn, River, Showdown
<1>1. ~betting /\ ~InPlay /\ ~AtRest /\ Running
  BY DEF TurnInv, ActorCanAct, InPlay, AtRest, Running
<1>2. ~Act
  BY <1>1 DEF Act, Call, Raise, ShortRaise, Fold, OnTurn
<1>3. ~RunoutNext
  BY <1>1 DEF RunoutNext
<1>4. ~SettleShowdown
  BY DEF SettleShowdown
<1>5. \A pn \in Seated(np) : ~LeaveHand(pn)
  BY DEF LeaveHand
<1>6. ~BetweenHands
  <2>1. ASSUME NEW pn \in Seated(np), UndoRebuy(pn) PROVE FALSE
    BY <1>1, <2>1 DEF UndoRebuy, IInv, SeatsReady
  <2> QED BY <1>1, <2>1 DEF BetweenHands, Start, SettleSession, SeatPlayer, MoveSeat,
            ToggleReady, LeaveTable, Spectate, Bust, AtRest
<1> QED BY <1>2, <1>3, <1>4, <1>5, <1>6 DEF Next, PlayHand

\* While the showdown is displayed and nobody can leave, chips come only from
\* rebuys, and count as brought in.
LEMMA ShowdownKeepsChips ==
  ASSUME IInv, TurnInv, ~LeaveAtShowdown, PotPaidOut, [Next]_vars,
         stage = Showdown, stage' = Showdown
  PROVE  Sum(N, Stacks') <= Sum(N, dealt')
<1> USE DEF NotReady, PreFlop, Flop, Turn, River, Showdown
<1>0. 0 .. N - 1 = Pos /\ N \in Nat /\ players \in Table /\ dealt \in [Pos -> Nat]
  BY NAssumption DEF Pos, IInv, TypeOK, Table
<1>1. Sum(N, Stacks) <= Sum(N, dealt)
  BY DEF PotPaidOut
<1>2. \/ UNCHANGED vars
      \/ \E pn \in Seated(np), amt \in Rebuys : Rebuy(pn, amt)
  BY AtShowdown
<1>3. CASE UNCHANGED vars
  <2>1. players' = players /\ dealt' = dealt
    BY <1>3 DEF vars
  <2> QED BY <1>1, <2>1 DEF Stacks
<1>4. ASSUME NEW pn \in Seated(np), NEW amt \in Rebuys, Rebuy(pn, amt)
      PROVE  Sum(N, Stacks') <= Sum(N, dealt')
  <2>1. pn \in Pos /\ amt \in Nat
    BY <1>4, SeatedType, ConfigAssumption DEF IInv
  <2>2. CASE players[pn].in
    <3> DEFINE p == [players[pn] EXCEPT !.pendingBuyIn = @ + amt, !.totalBuyIn = @ + amt]
    <3>1. players' = [players EXCEPT ![pn] = p] /\ dealt' = dealt
      <4>1. [players EXCEPT ![pn].pendingBuyIn = @ + amt, ![pn].totalBuyIn = @ + amt]
              = [players EXCEPT ![pn] = p]
        BY <1>0, <2>1 DEF Table, Player
      <4> HIDE DEF p
      <4> QED BY <1>4, <2>2, <4>1 DEF Rebuy
    <3>2. p.stack = players[pn].stack
      BY <1>0, <2>1 DEF Table, Player
    <3> HIDE DEF p
    <3>3. \A i \in Pos : players'[i].stack = players[i].stack
      BY <1>0, <3>1, <3>2 DEF Table
    <3>4. Stacks' = Stacks
      BY <3>3 DEF Stacks
    <3> QED BY <1>1, <3>1, <3>4
  <2>3. CASE ~players[pn].in
    <3> DEFINE p == [players[pn] EXCEPT !.stack = @ + amt, !.totalBuyIn = @ + amt]
               more == [i \in Pos |-> IF i = pn THEN amt ELSE 0]
    <3>1. players' = [players EXCEPT ![pn] = p] /\ dealt' = [dealt EXCEPT ![pn] = @ + amt]
      <4>1. [players EXCEPT ![pn].stack = @ + amt, ![pn].totalBuyIn = @ + amt]
              = [players EXCEPT ![pn] = p]
        BY <1>0, <2>1 DEF Table, Player
      <4> HIDE DEF p
      <4> QED BY <1>4, <2>3, <4>1 DEF Rebuy, Running
    <3>2. p.stack = players[pn].stack + amt
      BY <1>0, <2>1 DEF Table, Player
    <3> HIDE DEF p
    <3>3. \A i \in Pos : /\ more[i] \in Int /\ Stacks[i] \in Int /\ dealt[i] \in Int
                         /\ Stacks'[i] = Stacks[i] + more[i]
                         /\ dealt'[i] = dealt[i] + more[i]
      <4> TAKE i \in Pos
      <4>1. players[i].stack \in Nat /\ dealt[i] \in Nat
        BY <1>0, Fields
      <4>2. players'[i].stack = players[i].stack + more[i]
        BY <1>0, <2>1, <3>1, <3>2, <4>1 DEF Table
      <4>3. dealt'[i] = dealt[i] + more[i]
        BY <1>0, <2>1, <3>1, <4>1
      <4> QED BY <2>1, <4>1, <4>2, <4>3 DEF Stacks
    <3> HIDE DEF more
    <3>4. Sum(N, Stacks') = Sum(N, Stacks) + Sum(N, more)
      BY <1>0, <3>3, SumAdd
    <3>5. Sum(N, dealt') = Sum(N, dealt) + Sum(N, more)
      BY <1>0, <3>3, SumAdd
    <3>6. Sum(N, Stacks) \in Int /\ Sum(N, dealt) \in Int /\ Sum(N, more) \in Int
      BY <1>0, <3>3, SumInt
    <3> QED BY <1>1, <3>4, <3>5, <3>6
  <2> QED BY <2>2, <2>3
<1> QED BY <1>2, <1>3, <1>4

\* When nobody leaves while the showdown is displayed, the pots never pay out
\* more than was bet: after a hand, whatever its all-ins, side pots, ties, odd
\* chips, folds and refunds, the players own together at most what they brought
\* into it.  (A player who leaves at the showdown can be paid a second time: the
\* hypothesis is what the code would have to ensure.)
THEOREM PotsPayOut == ~LeaveAtShowdown => (Spec => []PotPaidOut)
<1> SUFFICES ASSUME ~LeaveAtShowdown PROVE Spec => []PotPaidOut
  OBVIOUS
<1>1. Init => PotPaidOut
  BY DEF Init, PotPaidOut, NotReady, Showdown
<1>2. IInv /\ IInv' /\ SeatsInv /\ CleanBetweenHands /\ TurnInv /\ PotPaidOut /\ [Next]_vars
        => PotPaidOut'
  BY TurnSteps, ShowdownKeepsChips DEF TurnStep, PaysOut, ToShowdown, PotPaidOut
<1> QED BY <1>1, <1>2, TurnInvariance, SeatsInvariance, NothingSurvives, Invariance, PTL
        DEF Spec

\* Scores are known only while a showdown is displayed.
ScoreClear == stage # Showdown => score = NoScores

LEMMA UpdateKeepsScore ==
  ASSUME NEW STATE before, NEW STATE at, UpdateRoundInfo(before, at), stage' # Showdown
  PROVE  score' = score /\ at.stage # Showdown
<1> USE DEF NotReady, PreFlop, Flop, Turn, River, Showdown
<1> DEFINE ps == FoldDeparted(before)
<1>1. \/ Concede(ps, at) \/ MoveAction(ps, at) \/ ResolveShowdown(ps, at)
      \/ RunOut(ps, at) \/ DealStreet(ps, at) \/ FailToDeal(ps, at)
  BY DEF UpdateRoundInfo
<1> HIDE DEF ps
<1>2. ~Concede(ps, at) /\ ~ResolveShowdown(ps, at)
  BY DEF Concede, ResolveShowdown
<1> QED BY <1>1, <1>2 DEF MoveAction, RunOut, DealStreet, FailToDeal

LEMMA StepClearsScore == ScoreClear /\ [Next]_vars => ScoreClear'
<1> SUFFICES ASSUME ScoreClear, [Next]_vars, stage' # Showdown PROVE score' = NoScores
  BY DEF ScoreClear
<1> USE DEF NotReady, PreFlop, Flop, Turn, River, Showdown
<1>1. ASSUME stage' = stage, score' = score PROVE score' = NoScores
  BY <1>1 DEF ScoreClear
<1>2. ASSUME NEW STATE before, NEW STATE at, UpdateRoundInfo(before, at), at.stage = stage
      PROVE  score' = NoScores
  BY <1>2, UpdateKeepsScore DEF ScoreClear
<1>3. CASE UNCHANGED vars
  BY <1>1, <1>3 DEF vars
<1>4. CASE Act
  <2>1. Now.stage = stage /\ \A r : [Now EXCEPT !.minRaise = r].stage = stage
    BY DEF Now
  <2>2. ASSUME NEW pn, Fold(pn) PROVE score' = NoScores
    BY <1>2, <2>1, <2>2 DEF Fold
  <2>3. ASSUME NEW pn, NEW amt, Call(pn, amt) \/ ShortRaise(pn, amt) PROVE score' = NoScores
    BY <1>2, <2>1, <2>3 DEF Call, ShortRaise
  <2>4. ASSUME NEW pn, NEW amt, Raise(pn, amt) PROVE score' = NoScores
    BY <1>2, <2>1, <2>4 DEF Raise
  <2> QED BY <1>4, <2>2, <2>3, <2>4 DEF Act
<1>5. CASE RunoutNext
  BY <1>2, <1>5 DEF RunoutNext, InPlay, ScoreClear, Now
<1>6. CASE SettleShowdown
  BY <1>6 DEF SettleShowdown
<1>7. ASSUME NEW pn \in Seated(np), LeaveHand(pn) PROVE score' = NoScores
  BY <1>1, <1>2, <1>7 DEF LeaveHand, street, Now
<1>8. ASSUME NEW pn \in Seated(np), NEW amt \in Rebuys, Rebuy(pn, amt) PROVE score' = NoScores
  BY <1>1, <1>8 DEF Rebuy, street
<1>9. CASE Start
  BY <1>9, UpdateKeepsScore DEF Start, ScoreClear
<1>10. CASE BetweenHands /\ ~Start
  BY <1>1, <1>10 DEF BetweenHands, SettleSession, Reset, SeatPlayer, MoveSeat, ToggleReady,
       UndoRebuy, LeaveTable, Spectate, Bust, DropAndPause, Drop, street
<1> QED BY <1>3, <1>4, <1>5, <1>6, <1>7, <1>8, <1>9, <1>10 DEF Next, PlayHand

\* While the showdown is displayed and nobody can leave, nothing it paid by
\* changes, and nobody gains or loses.
LEMMA ShowdownStands ==
  ASSUME IInv, TurnInv, ~LeaveAtShowdown, [Next]_vars, stage = Showdown, stage' = Showdown
  PROVE  /\ score' = score /\ dealerNum' = dealerNum /\ np' = np
         /\ \A i \in Pos : /\ players'[i].in = players[i].in
                           /\ players'[i].left = players[i].left
                           /\ players'[i].totalBet = players[i].totalBet
                           /\ Collected(i)' = Collected(i)
         /\ \A i \in InHand(players) : /\ players'[i].stack = players[i].stack
                                       /\ dealt'[i] = dealt[i]
<1> USE DEF NotReady, PreFlop, Flop, Turn, River, Showdown
<1>0. players \in Table /\ dealt \in [Pos -> Nat]
  BY DEF IInv, TypeOK, Table
<1>1. \/ UNCHANGED vars
      \/ \E pn \in Seated(np), amt \in Rebuys : Rebuy(pn, amt)
  BY AtShowdown
<1>2. CASE UNCHANGED vars
  <2>1. /\ players' = players /\ dealt' = dealt /\ score' = score
        /\ dealerNum' = dealerNum /\ np' = np
    BY <1>2 DEF vars
  <2> QED BY <2>1 DEF Collected
<1>3. ASSUME NEW pn \in Seated(np), NEW amt \in Rebuys, Rebuy(pn, amt)
      PROVE  /\ score' = score /\ dealerNum' = dealerNum /\ np' = np
             /\ \A i \in Pos : /\ players'[i].in = players[i].in
                               /\ players'[i].left = players[i].left
                               /\ players'[i].totalBet = players[i].totalBet
                               /\ Collected(i)' = Collected(i)
             /\ \A i \in InHand(players) : /\ players'[i].stack = players[i].stack
                                           /\ dealt'[i] = dealt[i]
  <2> DEFINE later == [players[pn] EXCEPT !.pendingBuyIn = @ + amt, !.totalBuyIn = @ + amt]
             now   == [players[pn] EXCEPT !.stack = @ + amt, !.totalBuyIn = @ + amt]
  <2>1. pn \in Pos /\ players[pn] \in Player /\ amt \in Nat
    BY <1>0, SeatedType, Fields, ConfigAssumption DEF IInv
  <2>2. /\ \/ players[pn].in /\ dealt' = dealt /\ players' = [players EXCEPT ![pn] = later]
           \/ /\ ~players[pn].in /\ players' = [players EXCEPT ![pn] = now]
              /\ dealt' = [dealt EXCEPT ![pn] = @ + amt]
        /\ score' = score /\ dealerNum' = dealerNum /\ np' = np
    <3>1. [players EXCEPT ![pn].pendingBuyIn = @ + amt, ![pn].totalBuyIn = @ + amt]
            = [players EXCEPT ![pn] = later]
      BY <1>0, <2>1 DEF Table, Player
    <3>2. [players EXCEPT ![pn].stack = @ + amt, ![pn].totalBuyIn = @ + amt]
            = [players EXCEPT ![pn] = now]
      BY <1>0, <2>1 DEF Table, Player
    <3>3. Running
      BY DEF Running
    <3> HIDE DEF later, now
    <3> QED BY <1>3, <3>1, <3>2, <3>3 DEF Rebuy
  <2>3. /\ later.in = players[pn].in /\ later.left = players[pn].left
        /\ later.totalBet = players[pn].totalBet /\ later.stack = players[pn].stack
        /\ now.in = players[pn].in /\ now.left = players[pn].left
        /\ now.totalBet = players[pn].totalBet /\ now.stack = players[pn].stack + amt
    BY <2>1 DEF Player
  <2> HIDE DEF later, now
  <2>4. \A i \in Pos : /\ players'[i].in = players[i].in
                       /\ players'[i].left = players[i].left
                       /\ players'[i].totalBet = players[i].totalBet
    BY <1>0, <2>1, <2>2, <2>3 DEF Table
  <2>5. ASSUME NEW i \in InHand(players)
        PROVE  players'[i].stack = players[i].stack /\ dealt'[i] = dealt[i]
    <3>1. i \in Pos /\ players[i].in
      BY DEF InHand
    <3> QED BY <1>0, <2>1, <2>2, <2>3, <3>1 DEF Table
  <2>6. ASSUME NEW i \in Pos PROVE Collected(i)' = Collected(i)
    <3>1. players[i].stack \in Nat /\ players[i].totalBet \in Nat /\ dealt[i] \in Nat
      BY <1>0, Fields
    <3>2. \/ players'[i].stack = players[i].stack /\ dealt'[i] = dealt[i]
          \/ players'[i].stack = players[i].stack + amt /\ dealt'[i] = dealt[i] + amt
      BY <1>0, <2>1, <2>2, <2>3 DEF Table
    <3> QED BY <2>1, <2>4, <3>1, <3>2 DEF Collected
  <2> QED BY <2>2, <2>4, <2>5, <2>6
<1> QED BY <1>1, <1>2, <1>3

LEMMA ShowdownKeepsBest ==
  ASSUME IInv, TurnInv, ~LeaveAtShowdown, BestHandPaid, [Next]_vars,
         stage = Showdown, stage' = Showdown
  PROVE  BestHandPaid'
<1> USE DEF NotReady, PreFlop, Flop, Turn, River, Showdown
<1>1. /\ score' = score
      /\ \A i \in Pos : /\ players'[i].in = players[i].in
                        /\ players'[i].left = players[i].left
                        /\ players'[i].totalBet = players[i].totalBet
                        /\ Collected(i)' = Collected(i)
  BY ShowdownStands
<1>2. InHand(players') = InHand(players) /\ InHand(players) \in SUBSET Pos
  BY <1>1 DEF InHand
<1>3. (ShownDown <=> score # NoScores) /\ (ShownDown' <=> score # NoScores)
  BY <1>1 DEF ShownDown, NoScores
<1>4. ASSUME NEW i \in InHand(players)
      PROVE  /\ Collected(i)' = Collected(i) /\ Contested(i)' = Contested(i)
             /\ players'[i].left = players[i].left
  <2>1. [j \in Pos |-> AtMost(players'[j].totalBet, players'[i].totalBet)]
          = [j \in Pos |-> AtMost(players[j].totalBet, players[i].totalBet)]
    BY <1>1, <1>2
  <2> QED BY <1>1, <1>2, <2>1 DEF Contested
<1> QED BY <1>1, <1>2, <1>3, <1>4 DEF BestHandPaid

LEMMA ShowdownKeepsPaid ==
  ASSUME IInv, TurnInv, ~LeaveAtShowdown, PaidByPots, [Next]_vars,
         stage = Showdown, stage' = Showdown
  PROVE  PaidByPots'
<1>1. /\ score' = score /\ dealerNum' = dealerNum /\ np' = np
      /\ \A i \in Pos : /\ players'[i].in = players[i].in
                        /\ players'[i].left = players[i].left
                        /\ players'[i].totalBet = players[i].totalBet
                        /\ Collected(i)' = Collected(i)
      /\ \A i \in InHand(players) : dealt'[i] = dealt[i]
  BY ShowdownStands
<1>2. /\ InHand(players') = InHand(players) /\ Left(players') = Left(players)
      /\ Totals(players') = Totals(players) /\ InHand(players) \in SUBSET Pos
  BY <1>1 DEF InHand, Left, Totals
<1>3. {i \in InHand(players') : players'[i].totalBet = dealt'[i]}
        = {i \in InHand(players) : players[i].totalBet = dealt[i]}
  BY <1>1, <1>2
<1>4. ViewPots' = ViewPots /\ ViewPot' = ViewPot
  BY <1>2, <1>3 DEF ViewPots, ViewPot
<1>5. NoScores' = NoScores
  BY DEF NoScores
<1> QED BY <1>1, <1>2, <1>4, <1>5 DEF PaidByPots

\* At a showdown the best hand, if it is nobody else's, takes of every player's
\* bets as much as it put in, whatever all-ins, folds and refunds the pots were
\* built from; and nobody takes more.  (As above, if nobody leaves while the
\* showdown is displayed.)
THEOREM BestHandIsPaid == ~LeaveAtShowdown => (Spec => []BestHandPaid)
<1> SUFFICES ASSUME ~LeaveAtShowdown PROVE Spec => []BestHandPaid
  OBVIOUS
<1>1. Init => ScoreClear /\ BestHandPaid
  BY DEF Init, ScoreClear, BestHandPaid, ShownDown, NotReady, Showdown
<1>2. IInv /\ IInv' /\ SeatsInv /\ CleanBetweenHands /\ TurnInv /\ ScoreClear /\ BestHandPaid
        /\ [Next]_vars => BestHandPaid'
  <2> SUFFICES ASSUME IInv, IInv', SeatsInv, CleanBetweenHands, TurnInv, ScoreClear,
                      BestHandPaid, [Next]_vars
               PROVE  BestHandPaid'
    OBVIOUS
  <2>1. CASE stage' # Showdown
    BY <2>1 DEF BestHandPaid, ShownDown
  <2>2. CASE stage' = Showdown /\ stage = Showdown
    BY <2>2, ShowdownKeepsBest
  <2>3. CASE ToShowdown
    BY <2>3, TurnSteps DEF TurnStep, PaysOut, ToShowdown, ScoreClear
  <2> QED BY <2>1, <2>2, <2>3 DEF ToShowdown
<1> QED BY <1>1, <1>2, StepClearsScore, TurnInvariance, SeatsInvariance, NothingSurvives,
           Invariance, PTL DEF Spec

\* A street closes only when every bet is matched by whoever has chips, and an
\* uncalled bet is taken off the street it was bet on, in every step.
THEOREM StreetsStayInStep == Spec => StreetsAddUp
<1>1. IInv /\ IInv' /\ SeatsInv /\ CleanBetweenHands /\ TurnInv /\ [Next]_vars
        => [ClosesMatched /\ RefundsThisStreet]_vars
  BY TurnSteps DEF TurnStep
<1> QED BY <1>1, TurnInvariance, SeatsInvariance, NothingSurvives, Invariance, PTL
        DEF Spec, StreetsAddUp

(***************************************************************************)
(* PART 6.  What a browser makes of the table.                             *)
(***************************************************************************)

\* Of a pot that no winner who left would share, the browser announces what the
\* engine awards.
LEMMA ShownIsAwarded ==
  ASSUME TypeOK, score # NoScores, NEW STATE pot, pot \in PotType, ~SharedWithLeaver(pot),
         NEW STATE i, i \in Pos
  PROVE  ShownAward(pot, i) = Award(pot, score, Left(players), dealerNum, np, i)
<1> DEFINE W == Winners(pot, score)
           L == Left(players)
<1>1. BestHands(pot) = W /\ WinningNums(pot) = W \ L
  BY DEF BestHands, WinningNums
<1>2. pot.amt = 0 => W = {}
  BY DEF Winners
<1>3. W \in SUBSET Pos
  BY DEF Winners, PotType
<1>4. W \cap L = {} \/ W \ L = {}
  BY <1>1 DEF SharedWithLeaver
<1> HIDE DEF W, L
<1>5. CASE i \notin W \ L
  BY <1>1, <1>5 DEF ShownAward, Award, W, L
<1>6. CASE i \in W \ L
  <2>1. W \ L = W /\ pot.amt # 0 /\ i \in W
    BY <1>2, <1>4, <1>6
  <2>2. \A p \in W : (p - dealerNum - 1 + np) % np = FromButton(p, dealerNum, np)
    <3> TAKE p \in W
    <3>1. p \in Int /\ dealerNum \in Int /\ np \in Int
      BY <1>3, NAssumption DEF TypeOK, Pos
    <3>2. p - dealerNum - 1 + np = p + np - dealerNum - 1
      BY <3>1
    <3> QED BY <3>2 DEF FromButton
  <2> DEFINE shown == {p \in W : (p - dealerNum - 1 + np) % np < (i - dealerNum - 1 + np) % np}
             owed  == {q \in W : FromButton(q, dealerNum, np) < FromButton(i, dealerNum, np)}
             Pays(first) == pot.amt \div Cardinality(W) +
                            (IF Cardinality(first) < pot.amt % Cardinality(W) THEN 1 ELSE 0)
  <2>3. shown = owed
    BY <2>1, <2>2
  <2>4. ShownAward(pot, i) = Pays(shown)
    BY <1>1, <2>1 DEF ShownAward
  <2>5. Award(pot, score, Left(players), dealerNum, np, i) = Pays(owed)
    BY <1>6, <2>1 DEF Award, W, L
  <2> HIDE DEF shown, owed, Pays
  <2> QED BY <2>3, <2>4, <2>5
<1> QED BY <1>5, <1>6

\* Of a conceded hand it announces every pot for the last player, who stayed.
LEMMA ShownIsConceded ==
  ASSUME TypeOK, score = NoScores, Cardinality(InHand(players)) < 2,
         NEW STATE pot, pot \in PotType, NEW STATE i, i \in Pos
  PROVE  ShownAward(pot, i) = IF players[i].in /\ ~players[i].left THEN pot.amt ELSE 0
<1>1. WinningNums(pot) = InHand(players) \ Left(players)
  BY DEF WinningNums, BestHands
<1>2. InHand(players) \in SUBSET Pos /\ \A p, q \in InHand(players) : p = q
  BY ReadingTypes, FewIsOne DEF TypeOK, Table
<1>3. pot.amt \in Nat
  BY DEF PotType
<1>4. CASE ~(players[i].in /\ ~players[i].left)
  <2>1. i \notin WinningNums(pot)
    BY <1>1, <1>4 DEF InHand, Left
  <2> QED BY <1>4, <2>1 DEF ShownAward
<1>5. CASE players[i].in /\ ~players[i].left
  <2>1. WinningNums(pot) = {i}
    BY <1>1, <1>2, <1>5 DEF InHand, Left
  <2>2. Cardinality({i}) = 1
    BY FS_Singleton
  <2>3. pot.amt \div 1 = pot.amt /\ pot.amt % 1 = 0
    BY <1>3
  <2> DEFINE from(p) == (p - dealerNum - 1 + np) % np
             earlier == {p \in {i} : from(p) < from(i)}
  <2>4. ShownAward(pot, i) =
          IF pot.amt = 0 THEN 0
          ELSE pot.amt + (IF Cardinality(earlier) < 0 THEN 1 ELSE 0)
    BY <2>1, <2>2, <2>3 DEF ShownAward
  <2>5. ~(Cardinality(earlier) < 0)
    <3>1. earlier \in SUBSET Pos
      OBVIOUS
    <3> HIDE DEF earlier
    <3>2. Cardinality(earlier) \in Nat
      BY <3>1, PosFinite, NAssumption
    <3> QED BY <3>2
  <2> HIDE DEF earlier
  <2> QED BY <1>3, <1>5, <2>4, <2>5
<1> QED BY <1>4, <1>5

LEMMA PaidIsShown == ASSUME TypeOK, PaidByPots PROVE ShownIsPaid
<1> SUFFICES ASSUME stage = Showdown, \A k \in 0 .. N : ~SharedWithLeaver(ViewPots[k]),
                    NEW STATE i, i \in Seated(np)
             PROVE  Shown(ViewPots, i) = Collected(i)
  BY DEF ShownIsPaid
<1> DEFINE T == Totals(players)
           H == InHand(players)
           C == {j \in InHand(players) : players[j].totalBet = dealt[j]}
<1>1. i \in Pos /\ N \in Nat /\ (N + 1) - 1 = N
  BY SeatedType, NAssumption
<1>2. ViewPots \in [0 .. N -> PotType]
  <2>1. T \in [Pos -> Nat] /\ H \in SUBSET Pos /\ C \in SUBSET Pos
    BY ReadingTypes DEF TypeOK, Table
  <2>2. ViewPots = AllPots(T, H, C, C)
    BY DEF ViewPots
  <2> HIDE DEF T, H, C
  <2> QED BY <2>1, <2>2, AllPotsType
<1>3. CASE score # NoScores
  <2>1. \A k \in 0 .. N : ShownAward(ViewPots[k], i)
                            = Award(ViewPots[k], score, Left(players), dealerNum, np, i)
    BY <1>1, <1>2, <1>3, ShownIsAwarded
  <2>2. Shown(ViewPots, i) = Winnings(ViewPots, score, Left(players), dealerNum, np, i)
    BY <2>1 DEF Shown, Winnings
  <2> QED BY <1>1, <1>3, <2>2 DEF PaidByPots
<1>4. CASE score = NoScores
  <2>1. Cardinality(InHand(players)) < 2
    BY <1>4 DEF PaidByPots
  <2> DEFINE takes == players[i].in /\ ~players[i].left
             amts == [k \in 0 .. N |-> ViewPots[k].amt]
             f == [k \in 0 .. N |-> ShownAward(ViewPots[k], i)]
  <2>2. \A k \in 0 .. N : f[k] = IF takes THEN amts[k] ELSE 0
    BY <1>1, <1>2, <1>4, <2>1, ShownIsConceded
  <2>3. \A k \in 0 .. N : amts[k] \in Int
    BY <1>2 DEF PotType
  <2>4. Sum(N + 1, amts) = ViewPot
    <3>1. T \in [Pos -> Nat] /\ H \in SUBSET Pos /\ C \in SUBSET Pos
      BY ReadingTypes DEF TypeOK, Table
    <3>2. amts = [k \in 0 .. N |-> AllPots(T, H, C, C)[k].amt] /\ ViewPot = Sum(N, T)
      BY DEF ViewPots, ViewPot
    <3> HIDE DEF T, H, C, amts
    <3> QED BY <3>1, <3>2, PotsHoldBets
  <2>5. Shown(ViewPots, i) = Sum(N + 1, f)
    BY DEF Shown
  <2>6. Collected(i) = IF takes THEN ViewPot ELSE 0
    BY <1>1, <1>4 DEF PaidByPots
  <2> HIDE DEF takes, amts, f
  <2>7. CASE takes
    <3>1. \A k \in 0 .. (N + 1) - 1 : amts[k] \in Int /\ f[k] = amts[k]
      BY <1>1, <2>2, <2>3, <2>7
    <3>2. Sum(N + 1, f) = Sum(N + 1, amts)
      BY <1>1, <3>1, SumSame
    <3> QED BY <2>4, <2>5, <2>6, <2>7, <3>2
  <2>8. CASE ~takes
    <3>1. \A k \in 0 .. (N + 1) - 1 : f[k] = 0
      BY <1>1, <2>2, <2>8
    <3>2. Sum(N + 1, f) = 0
      BY <1>1, <3>1, SumZeros
    <3> QED BY <2>5, <2>6, <2>8, <3>2
  <2> QED BY <2>7, <2>8
<1> QED BY <1>3, <1>4

\* The winners and the amounts a browser announces are those the engine paid, at a
\* table of any size: though it builds its pots from who is chipless after the
\* uncalled bet came back, not from who was all-in before, and counts the odd chips
\* itself.  Left out are pots a winner who left would have shared.  (As above, if
\* nobody leaves while the showdown is displayed.)
THEOREM WinnersAreShown == ~LeaveAtShowdown => (Spec => []ShownIsPaid)
<1> SUFFICES ASSUME ~LeaveAtShowdown PROVE Spec => []ShownIsPaid
  OBVIOUS
<1>1. Init => ScoreClear /\ PaidByPots
  BY DEF Init, ScoreClear, PaidByPots, NotReady, Showdown
<1>2. IInv /\ IInv' /\ SeatsInv /\ CleanBetweenHands /\ TurnInv /\ ScoreClear /\ PaidByPots
        /\ [Next]_vars => PaidByPots'
  <2> SUFFICES ASSUME IInv, IInv', SeatsInv, CleanBetweenHands, TurnInv, ScoreClear,
                      PaidByPots, [Next]_vars
               PROVE  PaidByPots'
    OBVIOUS
  <2>1. CASE stage' # Showdown
    BY <2>1 DEF PaidByPots
  <2>2. CASE stage' = Showdown /\ stage = Showdown
    BY <2>2, ShowdownKeepsPaid
  <2>3. CASE ToShowdown
    BY <2>3, TurnSteps DEF TurnStep, PaysOut, ToShowdown, ScoreClear
  <2> QED BY <2>1, <2>2, <2>3 DEF ToShowdown
<1>3. IInv /\ PaidByPots => ShownIsPaid
  BY PaidIsShown DEF IInv
<1> QED BY <1>1, <1>2, <1>3, StepClearsScore, TurnInvariance, SeatsInvariance, NothingSurvives,
           Invariance, PTL DEF Spec

(***************************************************************************)
(* What a browser hears.                                                   *)
(***************************************************************************)

\* From ps to qs nobody comes in, only those who left go out, and chips move from
\* the pots to the players.
Onward(ps, qs) ==
  \A i \in Pos :
    /\ qs[i].in => ps[i].in
    /\ ps[i].in /\ ~ps[i].left => qs[i].in
    /\ qs[i].left = ps[i].left
    /\ qs[i].totalBet <= ps[i].totalBet
    /\ qs[i].stack + qs[i].totalBet >= ps[i].stack + ps[i].totalBet

LEMMA OnwardTrans ==
  ASSUME NEW ps \in Table, NEW qs \in Table, NEW rs \in Table, Onward(ps, qs), Onward(qs, rs)
  PROVE  Onward(ps, rs)
<1> SUFFICES ASSUME NEW i \in Pos
             PROVE  /\ rs[i].in => ps[i].in
                    /\ ps[i].in /\ ~ps[i].left => rs[i].in
                    /\ rs[i].left = ps[i].left
                    /\ rs[i].totalBet <= ps[i].totalBet
                    /\ rs[i].stack + rs[i].totalBet >= ps[i].stack + ps[i].totalBet
  BY DEF Onward
<1>1. /\ ps[i].stack \in Nat /\ ps[i].totalBet \in Nat
      /\ qs[i].stack \in Nat /\ qs[i].totalBet \in Nat
      /\ rs[i].stack \in Nat /\ rs[i].totalBet \in Nat
  BY Fields
<1>2. /\ rs[i].totalBet <= qs[i].totalBet /\ qs[i].totalBet <= ps[i].totalBet
      /\ rs[i].stack + rs[i].totalBet >= qs[i].stack + qs[i].totalBet
      /\ qs[i].stack + qs[i].totalBet >= ps[i].stack + ps[i].totalBet
  BY DEF Onward
<1>3. /\ rs[i].totalBet <= ps[i].totalBet
      /\ rs[i].stack + rs[i].totalBet >= ps[i].stack + ps[i].totalBet
  BY <1>1, <1>2
<1> QED BY <1>3 DEF Onward

LEMMA FoldDepartedOnward ==
  ASSUME NEW ps \in Table PROVE Onward(ps, FoldDeparted(ps))
<1> SUFFICES ASSUME NEW i \in Pos
             PROVE  LET q == FoldDeparted(ps)[i]
                    IN  /\ q.in => ps[i].in
                        /\ ps[i].in /\ ~ps[i].left => q.in
                        /\ q.left = ps[i].left
                        /\ q.totalBet = ps[i].totalBet /\ q.stack = ps[i].stack
  BY Fields DEF Onward
<1>1. ps[i] \in Player
  BY Fields
<1> QED BY <1>1 DEF FoldDeparted, Player

LEMMA SettledOnward ==
  ASSUME NEW ps \in Table PROVE Onward(ps, Settled(ps))
<1> SUFFICES ASSUME NEW i \in Pos
             PROVE  LET q == Settled(ps)[i]
                    IN  /\ q.in = ps[i].in /\ q.left = ps[i].left
                        /\ q.totalBet <= ps[i].totalBet
                        /\ q.stack + q.totalBet = ps[i].stack + ps[i].totalBet
  BY Fields, SettledKeeps DEF Onward
<1>0. ps[i].totalBet \in Nat /\ ps[i].stack \in Nat
  BY Fields
<1>1. CASE Settled(ps)[i] = ps[i]
  BY <1>0, <1>1
<1>2. CASE Settled(ps) = ReturnUncalled(ps) /\ ps[i].in /\ ~Matched(ps, i)
  <2>1. LET q   == ReturnUncalled(ps)[i]
            s   == SecondTotal(ps, i)
            amt == ps[i].totalBet - s
        IN  /\ s \in Nat /\ s < ps[i].totalBet
            /\ q.totalBet = s /\ q.stack = ps[i].stack + amt
            /\ q.in = ps[i].in /\ q.left = ps[i].left
    BY <1>2, RefundOne
  <2> QED BY <1>0, <1>2, <2>1
<1> QED BY <1>1, <1>2, RefundOthers DEF Settled

LEMMA ClearStreetOnward ==
  ASSUME NEW ps \in Table PROVE Onward(ps, ClearStreet(ps))
<1> SUFFICES ASSUME NEW i \in Pos
             PROVE  LET q == ClearStreet(ps)[i]
                    IN  /\ q.in = ps[i].in /\ q.left = ps[i].left
                        /\ q.totalBet = ps[i].totalBet /\ q.stack = ps[i].stack
  BY Fields DEF Onward
<1>1. ps[i] \in Player
  BY Fields
<1> QED BY <1>1 DEF ClearStreet, Player

LEMMA PayLastOnward ==
  ASSUME NEW ps \in Table PROVE Onward(ps, PayLastPlayer(ps))
<1> DEFINE pot == Sum(N, Totals(ps))
<1>1. pot \in Nat
  <2>1. \A k \in 0 .. N - 1 : Totals(ps)[k] \in Nat
    BY ReadingTypes DEF Pos
  <2> QED BY <2>1, SumNat, NAssumption
<1> SUFFICES ASSUME NEW i \in Pos
             PROVE  LET q == PayLastPlayer(ps)[i]
                    IN  /\ q.in = ps[i].in /\ q.left = ps[i].left
                        /\ q.totalBet = ps[i].totalBet
                        /\ q.stack \in Nat /\ q.stack >= ps[i].stack
  BY Fields DEF Onward
<1>2. PayLastPlayer(ps)[i] = IF ps[i].in /\ ~ps[i].left
                             THEN [ps[i] EXCEPT !.stack = ps[i].stack + pot] ELSE ps[i]
  BY DEF PayLastPlayer
<1> HIDE DEF pot
<1>3. ps[i] \in Player /\ ps[i].stack \in Nat
  BY Fields
<1>4. ps[i].stack + pot \in Nat /\ ps[i].stack + pot >= ps[i].stack
  BY <1>1, <1>3
<1> QED BY <1>2, <1>3, <1>4 DEF Player

LEMMA PayShowdownOnward ==
  ASSUME NEW ps \in Table, NEW allIns \in SUBSET Pos, NEW sc, NEW d, NEW n
  PROVE  Onward(ps, PayShowdown(ps, allIns, sc, d, n))
<1> DEFINE pots == AllPots(Totals(ps), InHand(ps), allIns, AllIns(ps))
           gain(i) == Winnings(pots, sc, Left(ps), d, n, i)
<1>1. pots \in [0 .. N -> PotType]
  BY ReadingTypes, AllPotsType
<1>2. ASSUME NEW i \in Pos PROVE gain(i) \in Nat
  <2> HIDE DEF pots
  <2> QED BY <1>1, WinningsType
<1>3. PayShowdown(ps, allIns, sc, d, n) = [i \in Pos |-> [ps[i] EXCEPT !.stack = @ + gain(i)]]
  BY DEF PayShowdown
<1> HIDE DEF gain
<1>4. ASSUME NEW i \in Pos
      PROVE  LET q == [ps[i] EXCEPT !.stack = @ + gain(i)]
             IN  /\ q.in = ps[i].in /\ q.left = ps[i].left
                 /\ q.totalBet = ps[i].totalBet /\ q.totalBet \in Nat
                 /\ q.stack = ps[i].stack + gain(i) /\ ps[i].stack \in Nat
  BY Fields DEF Player
<1>5. ASSUME NEW i \in Pos, NEW s \in Nat, NEW t \in Nat, NEW g \in Nat
      PROVE  t <= t /\ s + g + t >= s + t
  OBVIOUS
<1> QED BY <1>2, <1>3, <1>4, <1>5 DEF Onward

\* However updateRoundInfo ends.  And whoever acted is not on turn again: either the
\* turn is somebody else's, or the street or the betting ended.
LEMMA UpdateOnward ==
  ASSUME TypeOK, NEW STATE before, before \in Table, NEW STATE at, at \in Moment,
         UpdateRoundInfo(before, at)
  PROVE  /\ players' \in Table /\ Onward(before, players')
         /\ at.action \notin Waiting(before)
              => actionNum' # at.action \/ stage' # at.stage \/ ~betting'
<1> DEFINE ps == FoldDeparted(before)
<1>1. ps \in Table /\ Onward(before, ps)
  BY FoldDepartedKeeps, FoldDepartedOnward
<1>2. Waiting(ps) \subseteq Waiting(before)
  BY <1>1, FoldDepartedGoesOut, GoingOutReads
<1> HIDE DEF ps
<1>3. ASSUME NEW qs \in Table, Onward(ps, qs) PROVE Onward(before, qs)
  BY <1>1, <1>3, OnwardTrans
<1>4. players' \in Table
  BY UpdateRoundInfoKeeps DEF UpdateResult
<1>5. CASE Concede(ps, at)
  BY <1>1, <1>3, <1>4, <1>5, PayLastOnward DEF Concede
<1>6. CASE MoveAction(ps, at)
  <2>1. actionNum' \in Waiting(ps)
    <3>1. Waiting(ps) \in SUBSET Pos /\ Waiting(ps) # {} /\ at.action \in Pos
      BY <1>1, <1>6, ReadingTypes DEF MoveAction, Moment
    <3>2. at.action \in 0 .. N /\ np \in 0 .. N
      BY <3>1, NAssumption DEF TypeOK, Pos
    <3> QED BY <1>6, <3>1, <3>2, NextFromType DEF MoveAction
  <2> QED BY <1>1, <1>2, <1>4, <1>6, <2>1 DEF MoveAction
<1>7. CASE ResolveShowdown(ps, at)
  <2>1. PICK qs \in {Settled(ps)} : players' = PayShowdown(qs, AllIns(ps), score', dealerNum, np)
    BY <1>7 DEF ResolveShowdown
  <2>2. qs \in Table /\ Onward(ps, qs) /\ AllIns(ps) \in SUBSET Pos
    BY <1>1, <2>1, SettledKeeps, SettledOnward, ReadingTypes
  <2>3. Onward(qs, players')
    BY <2>1, <2>2, PayShowdownOnward
  <2>4. Onward(before, players')
    BY <1>3, <1>1, <1>4, <2>2, <2>3, OnwardTrans
  <2> QED BY <1>4, <1>7, <2>4 DEF ResolveShowdown
<1>8. CASE RunOut(ps, at)
  BY <1>1, <1>3, <1>4, <1>8, SettledOnward DEF RunOut
<1>9. CASE DealStreet(ps, at)
  <2>1. stage' # at.stage
    BY <1>9 DEF DealStreet, PreFlop, Turn
  <2> QED BY <1>1, <1>3, <1>4, <1>9, <2>1, ClearStreetOnward DEF DealStreet
<1>10. CASE FailToDeal(ps, at)
  BY <1>1, <1>3, <1>4, <1>10, ClearStreetOnward DEF FailToDeal
<1> QED BY <1>5, <1>6, <1>7, <1>8, <1>9, <1>10 DEF UpdateRoundInfo, ps

\* What a step in which pn checks or puts chips in does to the table.
Played(pn) ==
  /\ pn = actionNum /\ LiveStreet /\ Moved
  /\ SameHand /\ np' = np /\ dealt' = dealt
  /\ players[pn].in /\ players'[pn].in
  /\ players[pn].stack + players[pn].totalBet = dealt[pn]
  /\ \A i \in Pos : /\ players'[i].left = players[i].left
                    /\ players[i].in /\ ~players[i].left => players'[i].in
  /\ \A i \in Pos \ {pn} : ~(Committed(i) > 0)
  /\ Committed(pn) <= players[pn].stack
  /\ players'[pn].stack + Committed(pn) >= players[pn].stack

\* Before the engine looks for the next player, the one who bet is called.
LEMMA WagerIsCalled ==
  ASSUME NEW ps \in Table, NEW pn \in Pos, ps[pn].in, NEW amt \in Nat, amt <= ps[pn].stack,
         amt = ps[pn].stack \/ amt >= ToCall(ps) - ps[pn].bet
  PROVE  pn \notin Waiting(Wager(ps, pn, amt))
<1> DEFINE qs == Wager(ps, pn, amt)
<1>1. /\ qs \in Table
      /\ \A i \in Pos \ {pn} : qs[i] = ps[i]
      /\ qs[pn].bet = ps[pn].bet + amt /\ qs[pn].stack = ps[pn].stack - amt
      /\ qs[pn].called /\ qs[pn].in
  BY WagerReads
<1> HIDE DEF qs
<1>2. /\ ps[pn].stack \in Nat /\ ps[pn].bet \in Nat
      /\ \A i \in Pos : qs[i].bet \in Nat
  BY <1>1, Fields
<1>3. CASE amt = ps[pn].stack
  <2>1. qs[pn].stack = 0
    BY <1>1, <1>2, <1>3
  <2> QED BY <1>1, <2>1 DEF Waiting, IsCalled, AllIn, qs
<1>4. CASE amt >= ToCall(ps) - ps[pn].bet
  <2>1. ToCall(ps) \in Nat /\ \A i \in Pos : ps[i].bet <= ToCall(ps)
    BY ToCallBounds
  <2>2. qs[pn].bet >= ToCall(ps)
    BY <1>1, <1>2, <1>4, <2>1
  <2>3. \A i \in Pos : qs[i].bet <= qs[pn].bet
    <3> SUFFICES ASSUME NEW i \in Pos, i # pn PROVE qs[i].bet <= qs[pn].bet
      BY <1>2
    <3>1. qs[i].bet = ps[i].bet /\ ps[i].bet <= ToCall(ps)
      BY <1>1, <2>1
    <3> QED BY <1>2, <2>1, <2>2, <3>1
  <2>4. ToCall(qs) = 0 \/ \E i \in Pos : ToCall(qs) = qs[i].bet
    BY <1>1, ToCallBounds
  <2>5. qs[pn].bet >= ToCall(qs)
    BY <1>2, <2>3, <2>4
  <2> QED BY <1>1, <2>5 DEF Waiting, IsCalled, qs
<1> QED BY <1>3, <1>4

LEMMA WagerTells ==
  ASSUME IInv, TurnInv, NEW pn \in Seated(np), NEW amt \in Nat, OnTurn(pn),
         amt <= players[pn].stack, amt = players[pn].stack \/ amt >= Owed(pn),
         NEW STATE before, before \in Table,
         \A i \in Pos : /\ before[i].in = players[i].in /\ before[i].left = players[i].left
                        /\ before[i].stack = players[i].stack /\ before[i].bet = players[i].bet
                        /\ before[i].totalBet = players[i].totalBet,
         NEW STATE at, at \in Moment, at.action = actionNum, at.stage = stage,
         UpdateRoundInfo(Wager(before, pn, amt), at),
         np' = np, handsPlayed' = handsPlayed, dealt' = dealt
  PROVE  Played(pn)
<1> DEFINE qs == Wager(before, pn, amt)
<1>1. /\ pn \in Pos /\ InPlay /\ betting /\ players[pn].in /\ players \in Table
      /\ pn = actionNum /\ ~players[pn].left
      /\ players[pn].stack + players[pn].totalBet = dealt[pn]
  BY OnTurnReads DEF OnTurn, TurnInv, ActorCanAct
<1>2. /\ qs \in Table
      /\ \A i \in Pos \ {pn} : qs[i] = before[i]
      /\ qs[pn].totalBet = before[pn].totalBet + amt
      /\ qs[pn].stack = before[pn].stack - amt
      /\ qs[pn].in = before[pn].in /\ qs[pn].left = before[pn].left
  BY <1>1, WagerReads
<1>3. at.action \notin Waiting(qs)
  <2>1. [i \in Pos |-> before[i].bet] = [i \in Pos |-> players[i].bet]
    OBVIOUS
  <2>2. ToCall(before) - before[pn].bet = Owed(pn)
    BY <1>1, <2>1 DEF ToCall, Owed
  <2> QED BY <1>1, <2>2, WagerIsCalled
<1> HIDE DEF qs
<1>4. /\ players' \in Table /\ Onward(qs, players')
      /\ actionNum' # actionNum \/ stage' # stage \/ ~betting'
  <2>1. UpdateRoundInfo(qs, at)
    BY DEF qs
  <2> QED BY <1>2, <1>3, <2>1, UpdateOnward DEF IInv
<1>5. \A i \in Pos : /\ players[i].totalBet \in Nat /\ players'[i].totalBet \in Nat
                     /\ players[i].stack \in Nat /\ players'[i].stack \in Nat
  BY <1>1, <1>4, Fields
<1>6. \A i \in Pos : /\ players'[i].left = players[i].left
                     /\ players[i].in /\ ~players[i].left => players'[i].in
  BY <1>2, <1>4 DEF Onward
<1>7. ASSUME NEW i \in Pos \ {pn} PROVE ~(Committed(i) > 0)
  <2>1. players'[i].totalBet <= players[i].totalBet
    BY <1>2, <1>4 DEF Onward
  <2> QED BY <1>5, <2>1 DEF Committed
<1>8. /\ Committed(pn) <= players[pn].stack
      /\ players'[pn].stack + Committed(pn) >= players[pn].stack
  <2>1. /\ players'[pn].totalBet <= players[pn].totalBet + amt
        /\ players'[pn].stack + players'[pn].totalBet
             >= (players[pn].stack - amt) + (players[pn].totalBet + amt)
    BY <1>1, <1>2, <1>4 DEF Onward
  <2> QED BY <1>1, <1>5, <2>1 DEF Committed
<1> QED BY <1>1, <1>4, <1>6, <1>7, <1>8 DEF Played, LiveStreet, InPlay, Moved, SameHand

LEMMA PlaysTells ==
  ASSUME IInv, TurnInv, NEW pn \in Seated(np), NEW amt \in Nat, Plays(pn, amt)
  PROVE  Played(pn)
<1>1. OnTurn(pn) /\ np' = np /\ handsPlayed' = handsPlayed /\ dealt' = dealt
  BY DEF Plays, Call, Raise, ShortRaise
<1>2. /\ pn \in Pos /\ Running /\ players \in Table
      /\ players[pn].stack \in Nat /\ players[pn].bet \in Nat
      /\ Owed(pn) \in Int /\ minRaise \in Nat
  <2>1. pn \in Pos /\ Running /\ players \in Table
    BY <1>1, OnTurnReads
  <2> QED BY <2>1, Fields, ToCallBounds DEF Owed, IInv, TypeOK
<1>3. /\ Now \in Moment /\ Now.stage = stage /\ Now.action = actionNum
      /\ \A m \in Nat : LET at == [Now EXCEPT !.minRaise = m]
                        IN  at \in Moment /\ at.stage = stage /\ at.action = actionNum
  BY <1>2, NowMoment DEF Now
<1>4. CASE Call(pn, amt) \/ ShortRaise(pn, amt)
  <2>1. /\ UpdateRoundInfo(Wager(players, pn, amt), Now)
        /\ amt <= players[pn].stack /\ (amt = players[pn].stack \/ amt >= Owed(pn))
    BY <1>2, <1>4 DEF Call, ShortRaise
  <2> QED BY <1>1, <1>2, <1>3, <2>1, WagerTells
<1>5. CASE Raise(pn, amt)
  <2> DEFINE reopened == [i \in Pos |-> [players[i] EXCEPT !.called = FALSE]]
             at == [Now EXCEPT !.minRaise = amt - Owed(pn)]
  <2>1. /\ UpdateRoundInfo(Wager(reopened, pn, amt), at)
        /\ amt <= players[pn].stack /\ amt - Owed(pn) >= minRaise
    BY <1>5 DEF Raise
  <2>2. amt - Owed(pn) \in Nat /\ amt >= Owed(pn)
    BY <1>2, <2>1
  <2>3. at \in Moment /\ at.stage = stage /\ at.action = actionNum
    BY <1>3, <2>2
  <2>4. reopened \in Table
    BY <1>2 DEF Table, Player
  <2>5. \A i \in Pos : /\ reopened[i].in = players[i].in /\ reopened[i].left = players[i].left
                       /\ reopened[i].stack = players[i].stack
                       /\ reopened[i].bet = players[i].bet
                       /\ reopened[i].totalBet = players[i].totalBet
    BY <1>2 DEF Table, Player
  <2> HIDE DEF reopened, at
  <2> QED BY <1>1, <2>1, <2>2, <2>3, <2>4, <2>5, WagerTells
<1> QED BY <1>4, <1>5 DEF Plays

\* What a step in which pn folds does to it.
Folded(pn) ==
  /\ pn = actionNum /\ betting /\ SameHand /\ np' = np
  /\ players[pn].in /\ ~players'[pn].in /\ ~players'[pn].left
  /\ \A i \in Pos : /\ players'[i].left = players[i].left
                    /\ i # pn /\ players[i].in /\ ~players[i].left => players'[i].in
                    /\ ~(Committed(i) > 0)

LEMMA FoldTells ==
  ASSUME IInv, TurnInv, NEW pn \in Seated(np), Fold(pn)
  PROVE  Folded(pn)
<1> DEFINE q == [players[pn] EXCEPT !.in = FALSE, !.ready = TRUE]
           qs == [players EXCEPT ![pn].in = FALSE, ![pn].ready = TRUE]
<1>1. OnTurn(pn) /\ UpdateRoundInfo(qs, Now) /\ np' = np /\ handsPlayed' = handsPlayed
  BY DEF Fold
<1>2. /\ pn \in Pos /\ Running /\ betting /\ players[pn].in /\ players \in Table
      /\ pn = actionNum /\ ~players[pn].left
  BY <1>1, OnTurnReads DEF OnTurn, TurnInv, ActorCanAct
<1>3. /\ q \in Player /\ ~q.in /\ q.left = players[pn].left
      /\ q.totalBet = players[pn].totalBet
  BY <1>2 DEF Table, Player
<1>4. qs = [i \in Pos |-> IF i = pn THEN q ELSE players[i]]
  BY <1>2 DEF Table, Player
<1> HIDE DEF q, qs
<1>5. /\ qs \in Table /\ ~qs[pn].in
      /\ \A i \in Pos : /\ qs[i].left = players[i].left /\ qs[i].totalBet = players[i].totalBet
                        /\ i # pn => qs[i].in = players[i].in
  BY <1>2, <1>3, <1>4 DEF Table
<1>6. players' \in Table /\ Onward(qs, players')
  BY <1>1, <1>2, <1>5, NowMoment, UpdateOnward DEF IInv
<1>7. ASSUME NEW i \in Pos PROVE ~(Committed(i) > 0)
  <2>1. players'[i].totalBet <= players[i].totalBet
    BY <1>5, <1>6 DEF Onward
  <2>2. players'[i].totalBet \in Nat /\ players[i].totalBet \in Nat
    BY <1>2, <1>6, Fields
  <2> QED BY <2>1, <2>2 DEF Committed
<1> QED BY <1>1, <1>2, <1>5, <1>6, <1>7 DEF Folded, SameHand, Onward

\* The players who fold in this step, and those who check or put chips in.
Folders == {i \in Seated(np) : Fold(i)}
Bettors == {i \in Seated(np) : BetsNow(i) /\ Committed(i) >= 0}
Tells   == Heard(N) = {<<pn, "fold">> : pn \in Folders} \union {<<pn, Made(pn)>> : pn \in Bettors}

LEMMA HeardIsTold ==
  ASSUME (FoldEvents \union BetEvents \union CheckEvents) \ {N} = Folders \union Bettors,
         \A i \in Folders : Sound(i) = "fold",
         \A i \in Bettors : Sound(i) = Made(i)
  PROVE  Tells
BY DEF Tells, Heard

\* Only the player on turn acts, in the way that the table shows.
LEMMA WhoActs ==
  ASSUME IInv, TurnInv
  PROVE  /\ \A i \in Folders : i \in Seated(np) /\ Folded(i)
         /\ \A i \in Seated(np) : BetsNow(i) => Played(i)
<1>1. \A i \in Folders : i \in Seated(np) /\ Folded(i)
  BY FoldTells DEF Folders
<1>2. ASSUME NEW i \in Seated(np), BetsNow(i) PROVE Played(i)
  BY <1>2, AmountsNat, PlaysTells DEF BetsNow, IInv
<1> QED BY <1>1, <1>2

\* Those who go out while a hand goes on without anybody acting have left.
LEMMA QuietTells ==
  ASSUME IInv, TurnInv,
         SameHand => \A i \in Seated(np') : players[i].in /\ ~players'[i].in => players'[i].left,
         LiveStreet => \A i \in Seated(np') : ~(Committed(i) > 0),
         betting => \/ ~Moved /\ players'[actionNum].in
                    \/ players'[actionNum].left /\ ~players[actionNum].left
  PROVE  Tells
<1>1. FoldEvents = {} /\ BetEvents = {} /\ CheckEvents = {}
  BY DEF FoldEvents, BetEvents, CheckEvents, LiveStreet
<1>2. Folders = {}
  <2> SUFFICES ASSUME NEW i \in Folders PROVE FALSE
    OBVIOUS
  <2>1. Folded(i)
    BY WhoActs
  <2> QED BY <2>1 DEF Folded
<1>3. Bettors = {}
  <2> SUFFICES ASSUME NEW i \in Bettors PROVE FALSE
    OBVIOUS
  <2>1. i \in Pos /\ Played(i)
    BY WhoActs, SeatedType DEF Bettors, IInv
  <2> QED BY <2>1 DEF Played, LiveStreet
<1> QED BY <1>1, <1>2, <1>3, HeardIsTold

LEMMA FoldIsHeard ==
  ASSUME IInv, TurnInv, NEW pn \in Seated(np), Fold(pn) PROVE Tells
<1>1. Folded(pn)
  BY FoldTells
<1>2. Seated(np') = Seated(np) /\ Seated(np) \subseteq Pos /\ N \notin Pos
  BY <1>1, SeatedType, NAssumption DEF Folded, Pos, IInv
<1>3. FoldEvents = {pn} /\ BetEvents = {} /\ CheckEvents = {}
  BY <1>1, <1>2 DEF Folded, FoldEvents, BetEvents, CheckEvents
<1>4. Folders = {pn}
  BY WhoActs, <1>1 DEF Folders, Folded
<1>5. Bettors = {}
  <2> SUFFICES ASSUME NEW i \in Bettors PROVE FALSE
    OBVIOUS
  <2>1. Played(i)
    BY WhoActs DEF Bettors
  <2> QED BY <1>1, <2>1 DEF Played, Folded
<1>6. Sound(pn) = "fold"
  BY <1>3 DEF Sound
<1>7. pn # N
  BY <1>2
<1> QED BY <1>3, <1>4, <1>5, <1>6, <1>7, HeardIsTold

LEMMA PlayIsHeard ==
  ASSUME IInv, IInv', TurnInv, NEW pn \in Seated(np), BetsNow(pn) PROVE Tells
<1>1. Played(pn)
  BY WhoActs
<1>2. Seated(np') = Seated(np) /\ Seated(np) \subseteq Pos /\ N \notin Pos /\ pn \in Pos
  BY <1>1, SeatedType, NAssumption DEF Played, Pos, IInv
<1>3. /\ players[pn].stack \in Nat /\ players[pn].totalBet \in Nat
      /\ players'[pn].stack \in Nat /\ players'[pn].totalBet \in Nat
  <2>1. players \in Table /\ players' \in Table
    BY DEF IInv, TypeOK, Table
  <2> QED BY <1>2, <2>1, Fields
<1>4. Committed(pn) \in Int
  BY <1>3 DEF Committed
<1>5. Folders = {}
  <2> SUFFICES ASSUME NEW i \in Folders PROVE FALSE
    OBVIOUS
  <2>1. Folded(i)
    BY WhoActs
  <2> QED BY <1>1, <2>1 DEF Played, Folded
<1>6. Bettors = IF Committed(pn) >= 0 THEN {pn} ELSE {}
  <2>1. \A i \in Bettors : i = pn
    <3> SUFFICES ASSUME NEW i \in Bettors PROVE i = pn
      OBVIOUS
    <3>1. Played(i)
      BY WhoActs DEF Bettors
    <3> QED BY <1>1, <3>1 DEF Played
  <2>2. pn \in Bettors <=> Committed(pn) >= 0
    BY DEF Bettors
  <2> QED BY <2>1, <2>2
<1>7. /\ FoldEvents = {}
      /\ BetEvents = IF Committed(pn) > 0 THEN {pn} ELSE {}
      /\ CheckEvents = IF Committed(pn) = 0 THEN {pn} ELSE {}
  <2>1. FoldEvents = {}
    BY <1>1, <1>2 DEF Played, FoldEvents
  <2>2. BetEvents = IF Committed(pn) > 0 THEN {pn} ELSE {}
    BY <1>1, <1>2 DEF Played, BetEvents
  <2>3. ~players'[pn].left
    BY <1>1, <1>2 DEF Played, TurnInv, ActorCanAct, LiveStreet
  <2>4. CheckEvents = IF Committed(pn) = 0 THEN {pn} ELSE {}
    BY <1>1, <1>2, <2>3 DEF Played, CheckEvents
  <2> QED BY <2>1, <2>2, <2>4
<1>8. (FoldEvents \union BetEvents \union CheckEvents) \ {N} = Folders \union Bettors
  <2>1. pn # N
    BY <1>2
  <2>2. Committed(pn) >= 0 <=> Committed(pn) > 0 \/ Committed(pn) = 0
    BY <1>4
  <2>3. ~(Committed(pn) > 0 /\ Committed(pn) = 0)
    BY <1>4
  <2> QED BY <1>5, <1>6, <1>7, <2>1, <2>2, <2>3
<1>9. Committed(pn) >= 0 => Sound(pn) = Made(pn)
  <2>1. CASE Committed(pn) = 0
    BY <1>7, <2>1 DEF Sound, Made
  <2>2. CASE Committed(pn) > 0
    <3>1. players'[pn].stack = 0 <=> Committed(pn) = players[pn].stack /\ Collected(pn)' = 0
      <4>1. Collected(pn)' = players'[pn].stack + players'[pn].totalBet - dealt'[pn]
        BY DEF Collected
      <4>2. dealt'[pn] = players[pn].stack + players[pn].totalBet
        BY <1>1 DEF Played
      <4>3. Collected(pn)' = players'[pn].stack + Committed(pn) - players[pn].stack
        BY <1>3, <4>1, <4>2 DEF Committed
      <4>4. /\ Committed(pn) <= players[pn].stack
            /\ players'[pn].stack + Committed(pn) >= players[pn].stack
        BY <1>1 DEF Played
      <4>5. \A a, s \in Nat, c \in Int :
              c <= s /\ a + c >= s => (a = 0 <=> c = s /\ a + c - s = 0)
        OBVIOUS
      <4>6. players'[pn].stack = 0
              <=> /\ Committed(pn) = players[pn].stack
                  /\ players'[pn].stack + Committed(pn) - players[pn].stack = 0
        BY <1>3, <1>4, <4>4, <4>5
      <4> QED BY <4>3, <4>6
    <3>2. pn \notin FoldEvents /\ pn \notin CheckEvents /\ players'[pn].in /\ Committed(pn) # 0
      BY <1>1, <1>4, <1>7, <2>2 DEF Played
    <3> QED BY <3>1, <3>2 DEF Sound, Made
  <2> QED BY <1>4, <2>1, <2>2
<1> QED BY <1>5, <1>6, <1>8, <1>9, HeardIsTold

\* A player who leaves on turn folds unheard; else the turn stays where it is.
LEMMA LeaveHandTells ==
  ASSUME IInv, TurnInv, NEW pn \in Seated(np), LeaveHand(pn) PROVE Tells
<1> DEFINE p     == players[pn]
           folds == p.in /\ ~AllIn(p) /\ pn = actionNum
           g == [players[pn] EXCEPT !.left = TRUE]
           o == [g EXCEPT !.in = FALSE, !.ready = FALSE]
           gone == [players EXCEPT ![pn] = g]
           out  == [players EXCEPT ![pn] = o]
<1>1. /\ players \in Table /\ pn \in Pos /\ Running /\ ~p.left
      /\ Seated(np) \subseteq Pos /\ p.in \in BOOLEAN
  <2>1. players \in Table /\ pn \in Pos /\ Running /\ ~p.left /\ Seated(np) \subseteq Pos
    BY SeatedType DEF IInv, TypeOK, Table, LeaveHand
  <2> QED BY <2>1, Fields
<1>2. /\ g \in Player /\ g.in = p.in /\ g.left /\ g.totalBet = p.totalBet
      /\ o \in Player /\ ~o.in /\ o.left /\ o.totalBet = p.totalBet
  BY <1>1 DEF Table, Player
<1>3. /\ [players EXCEPT ![pn].left = TRUE] = gone
      /\ [gone EXCEPT ![pn].in = FALSE, ![pn].ready = FALSE] = out
  BY <1>1 DEF Table, Player
<1>4. /\ \/ folds /\ UpdateRoundInfo(out, Now)
         \/ ~folds /\ p.in /\ players' = gone /\ UNCHANGED street
         \/ ~p.in /\ players' = out /\ UNCHANGED street
      /\ np' = np
  <2> HIDE DEF out, g, o
  <2> QED BY <1>3 DEF LeaveHand, gone
<1> HIDE DEF g, o
<1>5. /\ gone = [i \in Pos |-> IF i = pn THEN g ELSE players[i]]
      /\ out = [i \in Pos |-> IF i = pn THEN o ELSE players[i]]
  BY <1>1 DEF Table
<1> HIDE DEF gone, out
<1>6. gone \in Table /\ out \in Table
  BY <1>1, <1>2, <1>5 DEF Table
<1>7. CASE folds /\ UpdateRoundInfo(out, Now)
  <2>1. players' \in Table /\ Onward(out, players')
    BY <1>1, <1>6, <1>7, NowMoment, UpdateOnward DEF IInv
  <2>2. \A i \in Pos : /\ players[i].in /\ ~players'[i].in => players'[i].left
                       /\ players'[i].totalBet <= players[i].totalBet
    BY <1>1, <1>2, <1>5, <2>1 DEF Onward
  <2>3. \A i \in Pos : ~(Committed(i) > 0)
    <3> SUFFICES ASSUME NEW i \in Pos PROVE ~(Committed(i) > 0)
      OBVIOUS
    <3>1. players'[i].totalBet \in Nat /\ players[i].totalBet \in Nat
      BY <1>1, <2>1, Fields
    <3> QED BY <2>2, <3>1 DEF Committed
  <2>4. actionNum = pn /\ players'[pn].left
    BY <1>1, <1>2, <1>5, <1>7, <2>1 DEF Onward
  <2> QED BY <1>1, <1>4, <2>2, <2>3, <2>4, QuietTells
<1>8. CASE (players' = gone \/ (~p.in /\ players' = out)) /\ UNCHANGED street
  <2>1. \A i \in Pos : /\ players'[i].in <=> players[i].in
                       /\ players'[i].totalBet = players[i].totalBet
    BY <1>1, <1>2, <1>5, <1>8
  <2>2. \A i \in Pos : ~(Committed(i) > 0)
    <3> SUFFICES ASSUME NEW i \in Pos PROVE ~(Committed(i) > 0)
      OBVIOUS
    <3>1. players[i].totalBet \in Nat
      BY <1>1, Fields
    <3> QED BY <2>1, <3>1 DEF Committed
  <2>3. betting => ~Moved /\ players'[actionNum].in
    BY <1>8, <2>1 DEF Moved, street, TurnInv, ActorCanAct, IInv, TypeOK
  <2> QED BY <1>1, <1>4, <2>1, <2>2, <2>3, QuietTells
<1> QED BY <1>4, <1>7, <1>8

\* While the board runs out, only departed players go out.
LEMMA RunoutTells == ASSUME IInv, TurnInv, RunoutNext PROVE Tells
<1>1. /\ InPlay /\ ~betting /\ Running /\ players \in Table /\ np' = np
      /\ Seated(np) \subseteq Pos
  BY SeatedType DEF RunoutNext, InPlay, Running, IInv, TypeOK, Table, PreFlop, River, Showdown
<1>2. CASE UpdateRoundInfo(players, Now)
  <2>1. Onward(players, players')
    BY <1>1, <1>2, NowMoment, UpdateOnward DEF IInv
  <2> QED BY <1>1, <2>1, QuietTells DEF Onward, LiveStreet
<1>3. CASE players' = players
  BY <1>1, <1>3, QuietTells DEF LiveStreet
<1> QED BY <1>2, <1>3 DEF RunoutNext

\* The next hand counts as another, but at a table that everybody left.
LEMMA SettleTells == ASSUME IInv, TurnInv, SettleShowdown PROVE Tells
<1>1. ~betting
  BY DEF SettleShowdown, TurnInv, ActorCanAct, InPlay, River, Showdown, PreFlop
<1>2. \/ np' = 0
      \/ handsPlayed' = handsPlayed + 1
  BY DEF SettleShowdown
<1>3. CASE np' = 0
  BY <1>1, <1>3, QuietTells DEF LiveStreet, Seated
<1>4. CASE handsPlayed' = handsPlayed + 1
  <2>1. ~SameHand
    BY <1>4 DEF SameHand, IInv, TypeOK
  <2> QED BY <1>1, <2>1, QuietTells DEF LiveStreet
<1> QED BY <1>2, <1>3, <1>4

LEMMA RebuyTells ==
  ASSUME IInv, TurnInv, NEW pn \in Seated(np), NEW amt \in Nat, Rebuy(pn, amt)
  PROVE  Tells
<1> DEFINE later == [players[pn] EXCEPT !.pendingBuyIn = @ + amt, !.totalBuyIn = @ + amt]
           now   == [players[pn] EXCEPT !.stack = @ + amt, !.totalBuyIn = @ + amt]
<1>1. players \in Table /\ pn \in Pos /\ Seated(np) \subseteq Pos /\ UNCHANGED <<street, np>>
  BY SeatedType DEF IInv, TypeOK, Table, Rebuy
<1>2. players' = [players EXCEPT ![pn] = later] \/ players' = [players EXCEPT ![pn] = now]
  <2>1. /\ [players EXCEPT ![pn].pendingBuyIn = @ + amt, ![pn].totalBuyIn = @ + amt]
             = [players EXCEPT ![pn] = later]
        /\ [players EXCEPT ![pn].stack = @ + amt, ![pn].totalBuyIn = @ + amt]
             = [players EXCEPT ![pn] = now]
    BY <1>1 DEF Table, Player
  <2> HIDE DEF later, now
  <2> QED BY <2>1 DEF Rebuy
<1>3. /\ later.in = players[pn].in /\ later.totalBet = players[pn].totalBet
      /\ now.in = players[pn].in /\ now.totalBet = players[pn].totalBet
  BY <1>1 DEF Table, Player
<1> HIDE DEF later, now
<1>4. \A i \in Pos : players'[i].in = players[i].in /\ players'[i].totalBet = players[i].totalBet
  BY <1>1, <1>2, <1>3 DEF Table
<1>5. \A i \in Pos : ~(Committed(i) > 0)
  <2> SUFFICES ASSUME NEW i \in Pos PROVE ~(Committed(i) > 0)
    OBVIOUS
  <2>1. players[i].totalBet \in Nat
    BY <1>1, Fields
  <2> QED BY <1>4, <2>1 DEF Committed
<1>6. betting => ~Moved /\ players'[actionNum].in
  BY <1>1, <1>4 DEF Moved, street, TurnInv, ActorCanAct, IInv, TypeOK
<1> QED BY <1>1, <1>4, <1>5, <1>6, QuietTells

\* Between hands nobody is in, so nobody is heard.
LEMMA RestTells == ASSUME IInv, IInv', TurnInv, BetweenHands PROVE Tells
<1>1. stage = NotReady
  <2>1. ASSUME NEW pn \in Seated(np), UndoRebuy(pn) PROVE stage = NotReady
    <3>1. ~Running
      BY <2>1 DEF IInv, SeatsReady, UndoRebuy
    <3> QED BY <3>1 DEF IInv, TypeOK, Running, NotReady, PreFlop, Showdown
  <2> QED BY <2>1 DEF BetweenHands, Start, SettleSession, SeatPlayer, MoveSeat, ToggleReady,
                      LeaveTable, Spectate, Bust, AtRest
<1>2. ~betting /\ ~LiveStreet
  BY <1>1 DEF TurnInv, ActorCanAct, InPlay, LiveStreet, NotReady, PreFlop, River
<1>3. \A i \in Seated(np') : ~players[i].in
  <2>1. Seated(np') \subseteq Pos
    <3>1. np' \in 0 .. N
      BY DEF IInv, TypeOK
    <3>2. \A n \in 0 .. N : 0 .. n - 1 \subseteq 0 .. N - 1
      BY NAssumption
    <3> QED BY <3>1, <3>2 DEF Seated, Pos
  <2> QED BY <1>1, <2>1 DEF IInv, HandCleared
<1> QED BY <1>2, <1>3, QuietTells

LEMMA NextTells == ASSUME IInv, IInv', TurnInv, Next PROVE Tells
<1>1. Rebuys \subseteq Nat
  BY AmountsNat DEF IInv
<1>2. CASE Act
  BY <1>2, FoldIsHeard, PlayIsHeard DEF Act, BetsNow, Plays
<1>3. CASE PlayHand /\ ~Act
  BY <1>1, <1>3, RunoutTells, SettleTells, LeaveHandTells, RebuyTells DEF PlayHand
<1>4. CASE BetweenHands
  BY <1>4, RestTells
<1> QED BY <1>2, <1>3, <1>4 DEF Next

\* Two snapshots are enough: at a table of any size, and with any blinds and stacks,
\* a spectator hears the action that was taken and nobody else's, though the same
\* step may deal the next street, refund a bet, pay the pots and fold those who left.
THEOREM ActionsAreHeard == Spec => SnapshotsTellActions
<1>1. IInv /\ IInv' /\ TurnInv /\ [Next]_vars => [Tells]_vars
  <2> SUFFICES ASSUME IInv, IInv', TurnInv, [Next]_vars PROVE [Tells]_vars
    OBVIOUS
  <2> QED BY NextTells
<1>2. SnapshotsTellActions <=> [][Tells]_vars
  BY DEF SnapshotsTellActions, Tells, Folders, Bettors
<1> QED BY <1>1, <1>2, Invariance, TurnInvariance, PTL DEF Spec
=================================================================================
