---------------------------------- MODULE Pots ----------------------------------
(***************************************************************************)
(* Main pot and side pots, as functions of what every player has put in.   *)
(*                                                                         *)
(* The engine builds its pots with a loop (Game.rebuildPots) and pays them *)
(* with another (Game.resolveShowdown).  This module gives the same result *)
(* in closed form: the pots are the layers between consecutive all-in      *)
(* totals.  Module SidePots models the two loops step by step and checks   *)
(* that they compute exactly this.                                         *)
(***************************************************************************)
EXTENDS Sums, FiniteSets

CONSTANT N    \* seats of the table: players are at positions 0 .. N-1

ASSUME NAssumption == N \in Nat /\ N >= 2

Pos == 0 .. N - 1

\* The part of a contribution x that lies between the levels lo and hi.
Slice(x, lo, hi) == AtMost(x, hi) - AtMost(x, lo)

\* The highest all-in total below player i's: where i's own layer starts.
Floor(total, allIns, i) ==
  Highest(N, [j \in Pos |-> IF j \in allIns /\ total[j] < total[i] THEN total[j] ELSE 0])

\* Where the last pot, contested by the players with chips left, starts.
Roof(total, allIns) == Highest(N, [j \in Pos |-> IF j \in allIns THEN total[j] ELSE 0])

\* Player i opens a layer: an all-in whose total no earlier all-in shares.
OpensLayer(total, allIns, i) ==
  /\ i \in allIns
  /\ total[i] > 0
  /\ \A j \in allIns : total[j] = total[i] => i <= j

\* Pot i (i < N) is the layer that all-in player i caps; pot N is the last
\* one.  A pot holding no chips is EmptyPot.
EmptyPot == [amt |-> 0, eligible |-> {}]

\* Mutant: every layer is open to everyone in.
LayerOpenToAll(total, inHand, allIns, i) ==
  LET lo == Floor(total, allIns, i)
  IN  [amt      |-> Sum(N, [j \in Pos |-> Slice(total[j], lo, total[i])]),
       eligible |-> inHand]

Layer(total, inHand, allIns, i) ==
  LET lo == Floor(total, allIns, i)
  IN  [amt      |-> Sum(N, [j \in Pos |-> Slice(total[j], lo, total[i])]),
       eligible |-> {j \in inHand : total[j] >= total[i]}]

LastPot(total, inHand, allIns, chipless) ==
  LET lo == Roof(total, allIns)
  IN  [amt      |-> Sum(N, [j \in Pos |-> total[j] - AtMost(total[j], lo)]),
       eligible |-> inHand \ chipless]

AllPots(total, inHand, allIns, chipless) ==
  [i \in 0 .. N |->
     IF i = N THEN LastPot(total, inHand, allIns, chipless)
     ELSE IF OpensLayer(total, allIns, i) THEN Layer(total, inHand, allIns, i)
     ELSE EmptyPot]

---------------------------------------------------------------------------------
(***************************************************************************)
(* Paying one pot.  score[p] is p's hand, lower is better.  The pot is     *)
(* split between the best eligible hands; a winner who has left forfeits   *)
(* the share; odd chips go to the winners who stayed, clockwise from the   *)
(* seat after the button.                                                  *)
(***************************************************************************)
Winners(pot, score) ==
  IF pot.amt = 0 THEN {}
  ELSE {p \in pot.eligible : \A q \in pot.eligible : score[p] <= score[q]}

\* Clockwise distance from the first seat after the button, n players seated.
FromButton(p, dealer, n) == (p + n - dealer - 1) % n

\* Mutant: one odd chip too many.
AwardOneTooMany(pot, score, left, dealer, n, p) ==
  LET winners == Winners(pot, score)
      legit   == winners \ left
      odd     == pot.amt % Cardinality(winners)
      before  == {q \in legit : FromButton(q, dealer, n) < FromButton(p, dealer, n)}
  IN  IF p \in legit
      THEN pot.amt \div Cardinality(winners) + (IF Cardinality(before) <= odd THEN 1 ELSE 0)
      ELSE 0

Award(pot, score, left, dealer, n, p) ==
  LET winners == Winners(pot, score)
      legit   == winners \ left
      share   == pot.amt \div Cardinality(winners)
      odd     == pot.amt % Cardinality(winners)
      before  == {q \in legit : FromButton(q, dealer, n) < FromButton(p, dealer, n)}
  IN  IF p \in legit
      THEN share + (IF Cardinality(before) < odd THEN 1 ELSE 0)
      ELSE 0

\* Everything p collects from the pots at the showdown.
Winnings(pots, score, left, dealer, n, p) ==
  Sum(N + 1, [i \in 0 .. N |-> Award(pots[i], score, left, dealer, n, p)])
=================================================================================
