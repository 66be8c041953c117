------------------------------- MODULE TableView --------------------------------
(***************************************************************************)
(* What a browser makes of the table (web/components): the keys it offers  *)
(* to the player on turn, the events it hears and animates from two        *)
(* snapshots, and the winners it announces.  All of it is recomputed from  *)
(* the snapshots the server broadcasts after every operation of the        *)
(* engine, with rules of its own that have to agree with the engine's.     *)
(***************************************************************************)
EXTENDS PokerGame

---------------------------------------------------------------------------------
(* Input.tsx and RaiseInput.tsx: the keys of the player on turn.           *)

Actor   == players[actionNum]
MaxBet  == Highest(N, [i \in Pos |-> players[i].bet])
ViewPot == Sum(N, Totals(players))

CallAmount == AtMost(MaxBet - Actor.bet, Actor.stack)

\* Mutant: whoever acted is not held to a call.
CallOnlyNever == FALSE

\* Who already acted and is behind faces a short all-in: no raise.
CallOnly == Actor.called /\ Actor.bet < MaxBet

\* The floor of the slider: a call and one minimum raise, or the stack.
MinAmount == AtMost(MaxBet + minRaise - Actor.bet, Actor.stack)

\* raisePresetAmounts: half the pot, the pot and twice the pot after a call.
Clamped(v) == IF v < MinAmount THEN MinAmount ELSE AtMost(v, Actor.stack)
Presets ==
  LET owed == MaxBet - Actor.bet
      pot  == ViewPot + owed
  IN  {Clamped(MinAmount), Clamped(owed + (pot + 1) \div 2),
       Clamped(owed + pot), Clamped(owed + 2 * pot)}

\* What the keys send: a check or call and, unless CallOnly, ALL-IN; and what the
\* raise panel does, from its slider or presets.
Keys  == {CallAmount} \union IF CallOnly THEN {} ELSE {Actor.stack}
Panel == IF CallOnly THEN {} ELSE (MinAmount .. Actor.stack) \union Presets
Offered == Keys \union Panel

---------------------------------------------------------------------------------
(* tableFx.ts: what happened between two snapshots, before and after a     *)
(* step.  A position keeps its player for the whole hand.                  *)

SameHand   == handsPlayed' = handsPlayed
LiveStreet == betting /\ stage \in PreFlop .. River

\* An uncalled bet that came back makes it smaller, even negative.
Committed(i) == players'[i].totalBet - players[i].totalBet

\* Mutant: a player who goes is seen folding.
FoldEventsOfAll ==
  {i \in Seated(np') : SameHand /\ players[i].in /\ ~players'[i].in}

FoldEvents ==
  {i \in Seated(np') : SameHand /\ players[i].in /\ ~players'[i].in /\ ~players'[i].left}

BetEvents ==
  {i \in Seated(np') : SameHand /\ LiveStreet /\ Committed(i) > 0 /\ players'[i].in}

\* The player on turn put nothing in, and the turn moved on.
Moved == actionNum' # actionNum \/ stage' # stage \/ ~betting'
CheckEvents ==
  {i \in Seated(np') :
     /\ SameHand /\ LiveStreet /\ i = actionNum /\ Moved
     /\ players[i].in /\ players'[i].in /\ ~players'[i].left
     /\ Committed(i) = 0}

\* TableFx.tsx: what is heard of it, by everybody but the player who acted and
\* hears the own key.  Chips fly for what is heard as a bet or an all-in.
Sound(i) ==
  IF i \in FoldEvents THEN "fold"
  ELSE IF i \in CheckEvents THEN "check"
  ELSE IF players'[i].in /\ players'[i].stack = 0 THEN "allin"
  ELSE "otherBet"
Heard(hero) ==
  {<<i, Sound(i)>> : i \in (FoldEvents \union BetEvents \union CheckEvents) \ {hero}}

---------------------------------------------------------------------------------
(* Table.tsx: the winners announced at the showdown, from the pots of the  *)
(* snapshot.  Before the pots were paid, a player was all-in with all the  *)
(* chips of the hand in them; one who was refunded caps the same pots.     *)

ViewPots ==
  LET chipless == {i \in InHand(players) : players[i].totalBet = dealt[i]}
  IN  AllPots(Totals(players), InHand(players), chipless, chipless)

\* winningPlayerNums: of a conceded hand the last player, else the best hands,
\* without those who left.
BestHands(pot)   == IF score = NoScores THEN InHand(players) ELSE Winners(pot, score)
WinningNums(pot) == BestHands(pot) \ Left(players)

\* Mutant: the odd chips start at the button.
ShownAwardFromDealer(pot, i) ==
  LET winners  == WinningNums(pot)
      from(p)  == (p + np - dealerNum) % np
      earlier  == {p \in winners : from(p) < from(i)}
      odd      == pot.amt % Cardinality(winners)
  IN  IF pot.amt = 0 \/ i \notin winners THEN 0
      ELSE pot.amt \div Cardinality(winners) + (IF Cardinality(earlier) < odd THEN 1 ELSE 0)

\* getWinners: even shares, odd chips clockwise from the seat after the button.
ShownAward(pot, i) ==
  LET winners  == WinningNums(pot)
      from(p)  == (p - dealerNum - 1 + np) % np
      earlier  == {p \in winners : from(p) < from(i)}
      odd      == pot.amt % Cardinality(winners)
  IN  IF pot.amt = 0 \/ i \notin winners THEN 0
      ELSE pot.amt \div Cardinality(winners) + (IF Cardinality(earlier) < odd THEN 1 ELSE 0)

Shown(pots, i) == Sum(N + 1, [k \in 0 .. N |-> ShownAward(pots[k], i)])

---------------------------------------------------------------------------------
(* Properties.                                                             *)

\* The keys offer what the engine accepts, all of it and nothing else.
Plays(pn, amt) == Call(pn, amt) \/ Raise(pn, amt) \/ ShortRaise(pn, amt)
Accepted == {amt \in Amounts : ENABLED Plays(actionNum, amt)}
OffersExactly == betting => Offered = Accepted

\* From two snapshots a spectator hears what the player on turn did, though a
\* step also deals, refunds, pays and folds others: a fold, a check, or chips put
\* in, all of the stack or less, net of what came back (more may come back).  An
\* all-in that wins the hand at once sounds like any bet: the winner has chips.
BetsNow(pn) == \E amt \in Amounts : Plays(pn, amt)
Made(pn) ==
  IF Committed(pn) = 0 THEN "check"
  ELSE IF Committed(pn) = players[pn].stack /\ Collected(pn)' = 0 THEN "allin"
  ELSE "otherBet"
SnapshotsTellActions ==
  [][Heard(N) = {<<pn, "fold">> : pn \in {i \in Seated(np) : Fold(i)}} \union
                {<<pn, Made(pn)>> : pn \in {i \in Seated(np) : BetsNow(i) /\ Committed(i) >= 0}}]_vars

\* The winners and amounts announced are those that were paid.  Left out are
\* pots that a winner who left would have shared: the engine splits them with
\* that winner, the browser without.
SharedWithLeaver(pot) ==
  BestHands(pot) \cap Left(players) # {} /\ WinningNums(pot) # {}
ShownIsPaid ==
  stage = Showdown =>
    \A pots \in {ViewPots} :
      (\A k \in 0 .. N : ~SharedWithLeaver(pots[k])) =>
        \A i \in Seated(np) : Shown(pots, i) = Collected(i)
=================================================================================
