------------------------------- MODULE HandNames --------------------------------
(***************************************************************************)
(* The name the browser gives the player's own hand (handEval.ts), from    *)
(* the cards it sees: two before the flop, five to seven after it.  Rank 0 *)
(* is the deuce and 12 the ace.                                            *)
(***************************************************************************)
EXTENDS Integers, FiniteSets, FiniteSetsExt

ORDER ==
  [name \in {"high card", "one pair", "two pair", "three of a kind", "straight", "flush",
             "full house", "four of a kind", "straight flush", "royal flush"} |->
     CASE name = "high card" -> 0      [] name = "one pair" -> 1
       [] name = "two pair" -> 2       [] name = "three of a kind" -> 3
       [] name = "straight" -> 4       [] name = "flush" -> 5
       [] name = "full house" -> 6     [] name = "four of a kind" -> 7
       [] name = "straight flush" -> 8 [] name = "royal flush" -> 9]

\* A deck: four cards of each of thirteen ranks.
Cards == 0 .. 51

Rank(card) == card \div 4
Suit(card) == card % 4

Ranks(cards)  == {Rank(c) : c \in cards}
Count(cards, rank) == Cardinality({c \in cards : Rank(c) = rank})
Groups(cards, k) == {r \in Ranks(cards) : Count(cards, r) = k}
Wheel == {0, 1, 2, 3, 12}

\* By how often ranks occur, which is all two to four cards can have.
CategorizePartial(cards) ==
  IF Groups(cards, 4) # {} THEN "four of a kind"
  ELSE IF Groups(cards, 3) # {} THEN "three of a kind"
  ELSE IF Cardinality(Groups(cards, 2)) = 2 THEN "two pair"
  ELSE IF Groups(cards, 2) # {} THEN "one pair"
  ELSE "high card"

IsFlush(cards) == \A c, d \in cards : Suit(c) = Suit(d)
IsStraight(cards) ==
  LET ranks == Ranks(cards)
  IN  Cardinality(ranks) = 5 /\ (Max(ranks) - Min(ranks) = 4 \/ ranks = Wheel)

\* Mutant: the highest rank of a wheel is its ace.
StraightHighAce(ranks) == Max(ranks)

StraightHigh(ranks) == IF ranks = Wheel THEN 3 ELSE Max(ranks)

\* The category of exactly five cards.
CategorizeFive(cards) ==
  IF IsStraight(cards) /\ IsFlush(cards)
  THEN IF StraightHigh(Ranks(cards)) = 12 THEN "royal flush" ELSE "straight flush"
  ELSE IF Groups(cards, 4) # {} THEN "four of a kind"
  ELSE IF Groups(cards, 3) # {} /\ Groups(cards, 2) # {} THEN "full house"
  ELSE IF IsFlush(cards) THEN "flush"
  ELSE IF IsStraight(cards) THEN "straight"
  ELSE CategorizePartial(cards)

\* A single card has no name.
NoName == "null"

\* The best of all five-card hands.
BestHandName(cards) ==
  IF Cardinality(cards) < 2 THEN NoName
  ELSE IF Cardinality(cards) < 5 THEN CategorizePartial(cards)
  ELSE LET names == {CategorizeFive(five) : five \in kSubset(5, cards)}
       IN  CHOOSE best \in names : \A name \in names : ORDER[name] <= ORDER[best]

---------------------------------------------------------------------------------
(* What the names mean, of all the cards at once.                          *)

OfAKind(cards, k) == {r \in Ranks(cards) : Count(cards, r) >= k}
Suited(cards)     == {{c \in cards : Suit(c) = Suit(d)} : d \in cards}

\* Five ranks in a row; an ace is also below the deuce.
Runs(cards) ==
  LET ranks == Ranks(cards) \union (IF 12 \in Ranks(cards) THEN {-1} ELSE {})
  IN  {low \in -1 .. 8 : low .. low + 4 \subseteq ranks}

Holds(cards, name) ==
  CASE name = "royal flush"     -> \E s \in Suited(cards) : 8 \in Runs(s)
    [] name = "straight flush"  -> \E s \in Suited(cards) : Runs(s) # {}
    [] name = "four of a kind"  -> OfAKind(cards, 4) # {}
    [] name = "full house"      -> \E r \in OfAKind(cards, 3) : OfAKind(cards, 2) # {r}
    [] name = "flush"           -> \E s \in Suited(cards) : Cardinality(s) >= 5
    [] name = "straight"        -> Runs(cards) # {}
    [] name = "three of a kind" -> OfAKind(cards, 3) # {}
    [] name = "two pair"        -> Cardinality(OfAKind(cards, 2)) >= 2
    [] name = "one pair"        -> OfAKind(cards, 2) # {}
    [] name = "high card"       -> TRUE

IsBestHand(cards, name) ==
  /\ Holds(cards, name)
  /\ \A better \in DOMAIN ORDER : ORDER[better] > ORDER[name] => ~Holds(cards, better)
=================================================================================
