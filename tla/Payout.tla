--------------------------------- MODULE Payout ---------------------------------
(***************************************************************************)
(* What resolving a showdown promises: in one step every player receives   *)
(* what the pots of module Pots award.                                     *)
(***************************************************************************)
EXTENDS Pots

VARIABLES
  hand,      \* the hand shown down: see Hands in module SidePots
  won,       \* chips each player has received
  resolved   \* the pots have been paid

vars == <<hand, won, resolved>>

HandPots(h) == AllPots(h.total, h.inHand, h.listed, h.chipless)

Due(h) == [p \in Pos |-> Winnings(HandPots(h), h.score, h.left, h.dealer, N, p)]

Init == won = [p \in Pos |-> 0] /\ resolved = FALSE

Resolve ==
  /\ ~resolved
  /\ won' = Due(hand)
  /\ resolved' = TRUE
  /\ UNCHANGED hand

Spec == Init /\ [][Resolve]_vars
=================================================================================
