------------------------------ MODULE MCPokerGame -------------------------------
(***************************************************************************)
(* Instances of PokerGame for TLC.  A session starts at an empty table; a  *)
(* hand starts at a table where everyone is ready, with any of the stacks  *)
(* StartStacks and any button, which sessions reach by rebuys and play.    *)
(***************************************************************************)
EXTENDS TableView

CONSTANT StartStacks    \* bound: the stacks players may bring into a hand

SeatedInit ==
  /\ np \in 2 .. N
  /\ \E s \in [Pos -> StartStacks] :
       players = [i \in Pos |-> IF i < np
                                THEN [Vacant EXCEPT !.seatID = i + 1, !.ready = TRUE, !.stack = s[i],
                                       !.totalBuyIn = IF s[i] < BuyIn THEN BuyIn ELSE MaxBuy]
                                ELSE Vacant]
  /\ dealerNum \in Seated(np)
  /\ actionNum = 0 /\ departed = 0 /\ handsPlayed = 0
  /\ stage = NotReady /\ betting = FALSE /\ board = 0 /\ minRaise = 0
  /\ score = NoScores /\ dealt = NoChips /\ button = 0

HandNext == (stage = NotReady /\ Start) \/ PlayHand

HandSpec     == SeatedInit /\ [][HandNext]_vars
FairHandSpec == HandSpec /\ Fairness
=================================================================================
