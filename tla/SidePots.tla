-------------------------------- MODULE SidePots --------------------------------
(***************************************************************************)
(* The two loops that turn bets into winnings, step by step: rebuildPots   *)
(* peels one layer per all-in player off a copy of the players, in order   *)
(* of what they put in; resolveShowdown then goes through the pots and     *)
(* pays the winners of each one by one.  Shown to implement module Payout, *)
(* the closed form the engine's model (PokerGame) uses.                    *)
(***************************************************************************)
EXTENDS Pots, Sequences, Functions

CONSTANTS
  MaxTotal,   \* bound: chips one player has put into the hand
  Scores      \* hand scores, lower is better

ASSUME BoundsAssumption == MaxTotal \in Nat /\ Scores \subseteq Nat \ {0} /\ Scores # {}

VARIABLES
  hand,      \* the players as the loops find them; never changes
  rest,      \* TotalBet of tmpPlayers: what no pot has taken yet
  queue,     \* all-in players still to be given a layer
  pots,      \* Game.pots
  phase,     \* "build", "award" or "done"
  current,   \* number of the pot being awarded
  unpaid,    \* its winners still to be paid, from the button on
  share,     \* what each of them gets
  remainder, \* odd chips left
  won        \* chips each player has received

vars == <<hand, rest, queue, pots, phase, current, unpaid, share, remainder, won>>

\* The hands a river or an all-in showdown can bring: at least two players are
\* in.  listed are the players who were all-in before an uncalled bet went back;
\* at most one of them, the top bettor, then has chips again.  A player with
\* chips left has matched every bet.  Whoever left and was not all-in has folded.
Hands ==
  {h \in [total : [Pos -> 0 .. MaxTotal], inHand : SUBSET Pos, listed : SUBSET Pos,
          chipless : SUBSET Pos, left : SUBSET Pos, score : [Pos -> Scores \cup {0}],
          dealer : Pos] :
     /\ Cardinality(h.inHand) >= 2
     /\ h.left \subseteq h.listed /\ h.listed \subseteq h.inHand
     /\ h.chipless \subseteq h.listed /\ Cardinality(h.listed \ h.chipless) <= 1
     /\ \A i \in h.inHand \ h.chipless : \A j \in Pos : h.total[j] <= h.total[i]
     /\ \A i \in Pos : h.score[i] = 0 <=> i \notin h.inHand}

\* The ways to list the positions in S.
Listings(S) == Bijection(1 .. Cardinality(S), S)

Init ==
  /\ hand \in Hands
  /\ rest = hand.total
  /\ queue \in {q \in Listings(hand.listed) :
                  \A a, b \in 1 .. Len(q) : a < b => rest[q[a]] <= rest[q[b]]}
  /\ pots = <<>> /\ phase = "build"
  /\ current = 1 /\ unpaid = <<>> /\ share = 0 /\ remainder = 0
  /\ won = [p \in Pos |-> 0]

---------------------------------------------------------------------------------
(* rebuildPots                                                             *)

\* An earlier pot already covers this all-in.
SkipCovered ==
  /\ phase = "build" /\ queue # <<>>
  /\ rest[Head(queue)] = 0
  /\ queue' = Tail(queue)
  /\ UNCHANGED <<hand, rest, pots, phase, current, unpaid, share, remainder, won>>

\* Mutant: chips of players who folded stay behind.
TakeLayerOfThoseIn ==
  /\ phase = "build" /\ queue # <<>>
  /\ LET top     == rest[Head(queue)]
         paid(i) == AtMost(rest[i], top)
     IN  /\ top > 0
         /\ pots' = Append(pots, [amt      |-> Sum(N, [i \in Pos |-> paid(i)]),
                                  eligible |-> {i \in hand.inHand : rest[i] >= top}])
         /\ rest' = [i \in Pos |-> IF i \in hand.inHand THEN rest[i] - paid(i) ELSE rest[i]]
  /\ queue' = Tail(queue)
  /\ UNCHANGED <<hand, phase, current, unpaid, share, remainder, won>>

\* A pot of what the next all-in can match: everyone pays up to that much in.
TakeLayer ==
  /\ phase = "build" /\ queue # <<>>
  /\ LET top     == rest[Head(queue)]
         paid(i) == AtMost(rest[i], top)
     IN  /\ top > 0
         /\ pots' = Append(pots, [amt      |-> Sum(N, [i \in Pos |-> paid(i)]),
                                  eligible |-> {i \in hand.inHand : rest[i] >= top}])
         /\ rest' = [i \in Pos |-> rest[i] - paid(i)]
  /\ queue' = Tail(queue)
  /\ UNCHANGED <<hand, phase, current, unpaid, share, remainder, won>>

\* The rest makes the last pot, which is kept when it holds chips or is alone.
CloseLastPot ==
  /\ phase = "build" /\ queue = <<>>
  /\ LET amt == Sum(N, rest)
     IN  pots' = IF amt > 0 \/ pots = <<>>
                 THEN Append(pots, [amt |-> amt, eligible |-> hand.inHand \ hand.chipless])
                 ELSE pots
  /\ phase' = "award"
  /\ UNCHANGED <<hand, rest, queue, current, unpaid, share, remainder, won>>

---------------------------------------------------------------------------------
(* resolveShowdown                                                         *)

Best(pot) == {p \in pot.eligible : \A q \in pot.eligible : hand.score[p] <= hand.score[q]}

\* Mutant: odd chips go round from the first seat.
OddChipOrderBySeat(S) ==
  CHOOSE q \in Listings(S) : \A a, b \in 1 .. Len(q) : a < b => q[a] < q[b]

\* oddChipOrder: clockwise from the first seat after the button.
OddChipOrder(S) ==
  CHOOSE q \in Listings(S) :
    \A a, b \in 1 .. Len(q) :
      a < b => FromButton(q[a], hand.dealer, N) < FromButton(q[b], hand.dealer, N)

\* Find the winners of the next pot.  Those who left count for the split only:
\* their share vanishes, but an odd chip goes to the next winner who stayed.
OpenPot ==
  /\ phase = "award" /\ unpaid = <<>> /\ current <= Len(pots)
  /\ LET pot  == pots[current]
         best == Best(pot)
     IN  IF pot.amt = 0 \/ best = {}
         THEN UNCHANGED <<unpaid, share, remainder>>
         ELSE /\ unpaid' = OddChipOrder(best \ hand.left)
              /\ share' = pot.amt \div Cardinality(best)
              /\ remainder' = pot.amt % Cardinality(best)
  /\ current' = current + 1
  /\ UNCHANGED <<hand, rest, queue, pots, phase, won>>

\* Pay the next winner of the pot, with an odd chip while there is one.
PayWinner ==
  /\ phase = "award" /\ unpaid # <<>>
  /\ LET odd == AtMost(remainder, 1)
     IN  /\ won' = [won EXCEPT ![Head(unpaid)] = @ + share + odd]
         /\ remainder' = remainder - odd
  /\ unpaid' = Tail(unpaid)
  /\ UNCHANGED <<hand, rest, queue, pots, phase, current, share>>

Finish ==
  /\ phase = "award" /\ unpaid = <<>> /\ current > Len(pots)
  /\ phase' = "done"
  /\ UNCHANGED <<hand, rest, queue, pots, current, unpaid, share, remainder, won>>

Next == SkipCovered \/ TakeLayer \/ CloseLastPot \/ OpenPot \/ PayWinner \/ Finish

Spec == Init /\ [][Next]_vars

---------------------------------------------------------------------------------
(* Properties.                                                             *)

Amounts(ps) == [k \in 0 .. Len(ps) - 1 |-> ps[k + 1].amt]

\* rebuildPots neither loses nor invents a chip: at every turn of its loop the
\* pots and what is still untaken add up to what was bet.
PotsHoldAllBets ==
  Sum(Len(pots), Amounts(pots)) + (IF phase = "build" THEN Sum(N, rest) ELSE 0)
    = Sum(N, hand.total)

\* The loops compute the closed form: the showdown the engine's model performs
\* in one step.
Promise == INSTANCE Payout WITH
             won      <- IF phase = "done" THEN won ELSE [p \in Pos |-> 0],
             resolved <- phase = "done"
ImplementsPayout == Promise!Spec
=================================================================================
