------------------------------- MODULE Showdowns --------------------------------
(***************************************************************************)
(* How a browser announces the end of hands (Table.tsx).  It renders every *)
(* snapshot, and an effect runs when the stage or the number of pots has   *)
(* changed; shownHandRef keeps it from announcing a hand twice.  The hands *)
(* themselves go on by the server's watchdog or some browser's request,    *)
(* whatever is announced.                                                  *)
(***************************************************************************)
EXTENDS MCPokerGame

VARIABLES
  cleared,    \* the engine's pots are empty: no hand was dealt since a pause
  shownHand,  \* shownHandRef: what was announced last, NoHand if nothing
  announced   \* the announcement on screen is of the hand of the snapshot

viewVars == <<vars, cleared, shownHand, announced>>

NoHand == {}

\* game.pots.length: rebuildPots keeps a last pot without chips only if it is
\* the only one.
Count(pots) ==
  LET chips == Cardinality({k \in 0 .. N : pots[k].amt > 0})
  IN  IF chips = 0 THEN 1 ELSE chips
PotCount == IF cleared THEN 0 ELSE Count(ViewPots)

\* The signature of a decided hand: who is announced with what, or, for the
\* position of nobody, what is forfeited.  NoHand as long as nothing is decided.
Announcement(pots) ==
  LET full    == {k \in 0 .. N : pots[k].amt > 0}
      winners == UNION {WinningNums(pots[k]) : k \in full}
  IN  IF winners # {} THEN {<<i, Shown(pots, i)>> : i \in winners}
      ELSE IF full # {} THEN {<<N, Sum(N + 1, [k \in 0 .. N |-> pots[k].amt])>>}
      ELSE NoHand
Signature ==
  IF stage = Showdown /\ ~cleared THEN Announcement(ViewPots) ELSE NoHand

\* What the snapshot after a step makes the effect note, when it runs.
Noted ==
  IF cleared' THEN NoHand ELSE IF Signature' # NoHand THEN Signature' ELSE shownHand

\* Mutant: a forfeited hand is not announced.
RenderWinners ==
  /\ shownHand' = IF \E note \in Noted : note[1] = N THEN shownHand ELSE Noted
  /\ announced' = (stage' = Showdown /\ (announced \/ shownHand' # shownHand))

\* The snapshot is rendered; the effect runs if the stage or the pots changed.
Render ==
  /\ shownHand' = IF stage' # stage \/ PotCount' # PotCount THEN Noted ELSE shownHand
  /\ announced' = (stage' = Showdown /\ (announced \/ shownHand' # shownHand))

\* The engine empties the pots when it pauses or resets, and at the deal, where
\* updateRoundInfo fills them again before anybody sees it.
ViewNext ==
  /\ HandNext
  /\ cleared' = (cleared /\ stage' = NotReady)
  /\ Render

\* One hand looks the same from every button: positions go round the table.
ViewSpec ==
  /\ SeatedInit /\ dealerNum = 0
  /\ cleared = TRUE /\ shownHand = NoHand /\ announced = FALSE
  /\ [][ViewNext]_viewVars

FairViewSpec == ViewSpec /\ Fairness

---------------------------------------------------------------------------------
(* Properties.                                                             *)

\* The end of every hand is announced: cards turned, winners or forfeit named.
ShowdownIsShown == Signature # NoHand => announced
=================================================================================
