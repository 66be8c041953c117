------------------------------- MODULE PokerGame --------------------------------
(***************************************************************************)
(* The poker engine (backend/poker): one table's Game, driven through the  *)
(* operations the server calls.  Every operation holds Game.mtx from start *)
(* to end, so each is one action; an operation that returns an error       *)
(* leaves the game unchanged and is no step.                               *)
(*                                                                         *)
(* Game.players is the function players over the positions 0 .. N-1: the   *)
(* first np hold the seated players in seat order, the rest are Vacant.    *)
(* Cards are abstract: how many board cards are out, and, at the showdown, *)
(* a score for every hand still in (any combination of scores can be       *)
(* dealt).                                                                 *)
(***************************************************************************)
EXTENDS Pots

CONSTANTS
  SmallBlind, BigBlind,   \* config.SmallBlind, config.BigBlind
  BuyIn,                  \* config.BuyIn: what taking a seat costs
  MaxBuy,                 \* config.MaxBuy: most chips one seat may buy, 0 for no cap
  Rebuys,                 \* the amounts players rebuy
  Scores,                 \* hand scores that can be dealt, lower is better
  HandsLimit,             \* bound: hands before the session is settled
  SeatLimit,              \* bound: players seated in one session
  LeaveAtShowdown         \* may a player leave while the showdown is displayed?

ASSUME ConfigAssumption ==
  /\ SmallBlind \in Nat /\ BigBlind \in Nat /\ BuyIn \in Nat /\ MaxBuy \in Nat
  /\ 0 < SmallBlind /\ SmallBlind < BigBlind /\ BigBlind <= BuyIn
  /\ MaxBuy = 0 \/ BuyIn <= MaxBuy
  /\ Rebuys \subseteq Nat \ {0}
  /\ Scores \subseteq Nat \ {0} /\ Scores # {}
  /\ HandsLimit \in Nat /\ SeatLimit \in Nat
  /\ LeaveAtShowdown \in BOOLEAN

VARIABLES
  players,      \* Game.players
  np,           \* len(Game.players)
  dealerNum,    \* position of the button
  actionNum,    \* position whose turn it is
  stage,        \* the stage bits of Game.flags
  betting,      \* the betting bit of Game.flags
  board,        \* community cards revealed: 0, 3, 4 or 5
  minRaise,     \* smallest full raise on this street
  handsPlayed,  \* hands finished this session
  departed,     \* len(Game.departedPlayers)
  score,        \* hand scores shown down, 0 outside a contested showdown
  dealt,        \* history: the chips each player brought into this hand
  button        \* history: the seat that dealt the latest hand, 0 if none

table  == <<players, np, dealerNum, departed>>
street == <<actionNum, stage, betting, board, minRaise>>
vars   == <<players, np, dealerNum, actionNum, stage, betting, board, minRaise,
            handsPlayed, departed, score, dealt, button>>

\* GameStage, numbered as in the code: dealing a street is stage + 1.
NotReady == 1
PreFlop  == 2
Flop     == 3
Turn     == 4
River    == 5
Showdown == 6

Player ==
  [seatID : Nat, ready : BOOLEAN, in : BOOLEAN, called : BOOLEAN, left : BOOLEAN,
   totalBuyIn : Nat, pendingBuyIn : Nat, stack : Nat, bet : Nat, totalBet : Nat]

Vacant ==
  [seatID |-> 0, ready |-> FALSE, in |-> FALSE, called |-> FALSE, left |-> FALSE,
   totalBuyIn |-> 0, pendingBuyIn |-> 0, stack |-> 0, bet |-> 0, totalBet |-> 0]

NoScores == [i \in Pos |-> 0]
NoChips  == [i \in Pos |-> 0]

---------------------------------------------------------------------------------
(* Reading the table.  ps stands for a value of players.                   *)

Seated(n)   == 0 .. n - 1
InHand(ps)  == {i \in Pos : ps[i].in}
Ready(ps)   == {i \in Pos : ps[i].ready}
Left(ps)    == {i \in Pos : ps[i].left}
AllIn(p)    == p.in /\ p.stack = 0
AllIns(ps)  == {i \in Pos : AllIn(ps[i])}
CanAct(ps)  == InHand(ps) \ AllIns(ps)
Totals(ps)  == [i \in Pos |-> ps[i].totalBet]
ToCall(ps)  == Highest(N, [i \in Pos |-> ps[i].bet])
Running     == stage \in PreFlop .. Showdown
InPlay      == stage \in PreFlop .. River

\* Mutant: whoever has acted is called, whatever was bet since.
IsCalledOnceActed(ps, i) == AllIn(ps[i]) \/ ps[i].called

\* Nothing left to do on this street: all-in, or acted and matching.
IsCalled(ps, i) == AllIn(ps[i]) \/ (ps[i].called /\ ps[i].bet >= ToCall(ps))

\* Players the street still waits for.
Waiting(ps) == {i \in InHand(ps) : ~IsCalled(ps, i)}

\* The first position of S met clockwise from a (a itself counts); a if S is
\* empty: the code's bounded loops then come back to where they started.
Clockwise(a, n, i) == IF i >= a THEN i - a ELSE i + n - a
NextFrom(a, n, S) ==
  IF S = {} THEN a
  ELSE CHOOSE i \in S : \A j \in S : Clockwise(a, n, i) <= Clockwise(a, n, j)
After(a, n) == IF a + 1 = n THEN 0 ELSE a + 1

---------------------------------------------------------------------------------
(* Moving chips.                                                           *)

PutInChips(p, amt) ==
  LET paid == AtMost(amt, p.stack)
  IN  [p EXCEPT !.bet = @ + paid, !.totalBet = @ + paid, !.stack = @ - paid]

\* Mutant: the refund stays in the total.
ReturnChipsKeepingTotal(p, amt) == [p EXCEPT !.stack = @ + amt, !.bet = @ - AtMost(amt, p.bet)]

ReturnChips(p, amt) ==
  [p EXCEPT !.totalBet = @ - amt, !.stack = @ + amt, !.bet = @ - AtMost(amt, p.bet)]

\* The most any other player has put into this hand.
SecondTotal(ps, i) == Highest(N, [j \in Pos |-> IF j = i THEN 0 ELSE ps[j].totalBet])

\* A top bettor nobody can match takes the excess back.
ReturnUncalled(ps) ==
  [i \in Pos |->
     IF ps[i].in /\ ps[i].totalBet > SecondTotal(ps, i)
     THEN ReturnChips(ps[i], ps[i].totalBet - SecondTotal(ps, i))
     ELSE ps[i]]

\* The last player in collects everything; one who has left forfeits it.
PayLastPlayer(ps) ==
  [i \in Pos |->
     IF ps[i].in /\ ~ps[i].left
     THEN [ps[i] EXCEPT !.stack = @ + Sum(N, Totals(ps))]
     ELSE ps[i]]

\* The showdown: every pot to its best hands.  allIns are the players who
\* were all-in before the uncalled bet went back.
PayShowdown(ps, allIns, sc, d, n) ==
  LET pots == AllPots(Totals(ps), InHand(ps), allIns, AllIns(ps))
  IN  [i \in Pos |->
         [ps[i] EXCEPT !.stack = @ + Winnings(pots, sc, Left(ps), d, n, i)]]

---------------------------------------------------------------------------------
(* updateRoundInfo: what follows every action of a player.                 *)

\* Departed players who are not all-in fold as soon as the hand moves on.
FoldDeparted(ps) ==
  [i \in Pos |-> IF ps[i].in /\ ps[i].left /\ ~AllIn(ps[i])
                 THEN [ps[i] EXCEPT !.in = FALSE, !.ready = FALSE]
                 ELSE ps[i]]

\* Mutant: only players still in have their street bet reset.
ClearStreetOfThoseIn(ps) ==
  [i \in Pos |-> IF ps[i].in THEN [ps[i] EXCEPT !.bet = 0, !.called = FALSE] ELSE ps[i]]

\* deal() resets every player's street bet before it looks at the stage.
ClearStreet(ps) == [i \in Pos |-> [ps[i] EXCEPT !.bet = 0, !.called = FALSE]]

\* updateRoundInfo ends in one of five ways.  at holds the action position,
\* stage, betting flag, minimum raise and board it starts from.
Now == [action |-> actionNum, stage |-> stage, betting |-> betting,
        minRaise |-> minRaise, board |-> board]

\* Fewer than two players are in: the hand is conceded.
Concede(ps, at) ==
  /\ Cardinality(InHand(ps)) < 2
  /\ players' = PayLastPlayer(ps)
  /\ stage' = Showdown /\ betting' = FALSE
  /\ actionNum' = at.action /\ minRaise' = at.minRaise /\ board' = at.board
  /\ UNCHANGED score

\* Mutant: the action moves to the next player in, all-in or not.
MoveActionToAnyoneIn(ps, at) ==
  /\ Cardinality(InHand(ps)) >= 2 /\ Waiting(ps) # {}
  /\ players' = ps
  /\ actionNum' = NextFrom(After(at.action, np), np, InHand(ps))
  /\ stage' = at.stage /\ betting' = at.betting
  /\ minRaise' = at.minRaise /\ board' = at.board
  /\ UNCHANGED score

\* Somebody still has to act.
MoveAction(ps, at) ==
  /\ Cardinality(InHand(ps)) >= 2 /\ Waiting(ps) # {}
  /\ players' = ps
  /\ actionNum' = NextFrom(at.action, np, Waiting(ps))
  /\ stage' = at.stage /\ betting' = at.betting
  /\ minRaise' = at.minRaise /\ board' = at.board
  /\ UNCHANGED score

\* Everyone is called.  With at most one player able to act, an uncalled bet
\* goes back before anything else.
AllCalled(ps) == Cardinality(InHand(ps)) >= 2 /\ Waiting(ps) = {}
Few(ps)       == Cardinality(CanAct(ps)) < 2
Settled(ps)   == IF Few(ps) THEN ReturnUncalled(ps) ELSE ps

\* River betting is over: the pots are paid.  allIns are the players who were
\* all-in before the uncalled bet went back.
ResolveShowdown(ps, at) ==
  /\ AllCalled(ps) /\ at.stage = River
  /\ \E sc \in [InHand(ps) -> Scores] :
       score' = [i \in Pos |-> IF i \in InHand(ps) THEN sc[i] ELSE 0]
  /\ \E qs \in {Settled(ps)} : players' = PayShowdown(qs, AllIns(ps), score', dealerNum, np)
  /\ stage' = Showdown /\ betting' = FALSE
  /\ actionNum' = at.action /\ minRaise' = at.minRaise /\ board' = at.board

\* No more betting is possible: the board is run out card by card.
RunOut(ps, at) ==
  /\ AllCalled(ps) /\ at.stage # River /\ Few(ps)
  /\ players' = Settled(ps)
  /\ stage' = at.stage /\ betting' = FALSE
  /\ actionNum' = at.action /\ minRaise' = at.minRaise /\ board' = at.board
  /\ UNCHANGED score

\* The next street is dealt.
DealStreet(ps, at) ==
  /\ AllCalled(ps) /\ at.stage \in PreFlop .. Turn /\ ~Few(ps)
  /\ players' = ClearStreet(ps)
  /\ stage' = at.stage + 1 /\ betting' = TRUE
  /\ board' = (CASE at.stage = PreFlop -> 3 [] at.stage = Flop -> 4 [] at.stage = Turn -> 5)
  /\ actionNum' = NextFrom(After(dealerNum, np), np, CanAct(ps))
  /\ minRaise' = BigBlind
  /\ UNCHANGED score

\* From the showdown window deal() fails, but only after it has cleared the
\* street bets.
FailToDeal(ps, at) ==
  /\ AllCalled(ps) /\ at.stage = Showdown /\ ~Few(ps)
  /\ players' = ClearStreet(ps)
  /\ stage' = at.stage /\ betting' = FALSE
  /\ actionNum' = at.action /\ minRaise' = BigBlind /\ board' = at.board
  /\ UNCHANGED score

UpdateRoundInfo(before, at) ==
  \E ps \in {FoldDeparted(before)} :
      \/ Concede(ps, at)
      \/ MoveAction(ps, at)
      \/ ResolveShowdown(ps, at)
      \/ RunOut(ps, at)
      \/ DealStreet(ps, at)
      \/ FailToDeal(ps, at)

---------------------------------------------------------------------------------
(* Dealing a hand: Game.Start, and deal() from NotReady.                   *)

\* updateBlindNums with at least two players ready; heads-up the button posts
\* the small blind and acts first.
HeadsUp       == Cardinality(Ready(players)) = 2
SmallBlindNum == IF HeadsUp THEN dealerNum
                 ELSE NextFrom(After(dealerNum, np), np, Ready(players))
BigBlindNum   == NextFrom(After(SmallBlindNum, np), np, Ready(players))
UnderTheGun   == IF HeadsUp THEN dealerNum
                 ELSE NextFrom(After(BigBlindNum, np), np, Ready(players))

\* The ready players are dealt in, and the blinds go in.
DealIn ==
  LET dealtIn == [i \in Pos |-> [players[i] EXCEPT !.bet = 0, !.called = FALSE,
                                   !.in = @ \/ players[i].ready]]
      small == [dealtIn EXCEPT ![SmallBlindNum] = PutInChips(@, SmallBlind)]
  IN  [small EXCEPT ![BigBlindNum] = PutInChips(@, BigBlind)]

\* Game.Start: everyone who has not left is ready, and at least two are.
Start ==
  /\ stage = NotReady
  /\ handsPlayed < HandsLimit
  /\ \A i \in Seated(np) : players[i].left \/ players[i].ready
  /\ Cardinality(Ready(players)) >= 2
  /\ UpdateRoundInfo(DealIn, [action |-> UnderTheGun, stage |-> PreFlop,
                              betting |-> TRUE, minRaise |-> BigBlind, board |-> 0])
  /\ dealt' = [i \in Pos |-> players[i].stack]
  /\ button' = players[dealerNum].seatID
  /\ UNCHANGED <<np, dealerNum, handsPlayed, departed>>

---------------------------------------------------------------------------------
(* Betting.                                                                *)

\* The guards common to Bet and Fold: pn is on turn and has chips to act with.
OnTurn(pn) ==
  /\ betting /\ pn = actionNum
  /\ players[pn].in /\ ~AllIn(players[pn])

Owed(pn) == ToCall(players) - players[pn].bet

Wager(ps, pn, amt) == [ps EXCEPT ![pn] = [PutInChips(@, amt) EXCEPT !.called = TRUE]]

\* A check, a call, or an all-in for no more than a call.
Call(pn, amt) ==
  /\ OnTurn(pn)
  /\ amt <= players[pn].stack
  /\ amt = Owed(pn) \/ (amt = players[pn].stack /\ amt <= Owed(pn))
  /\ UpdateRoundInfo(Wager(players, pn, amt), Now)
  /\ UNCHANGED <<np, dealerNum, handsPlayed, departed, dealt, button>>

\* A full raise sets the minimum raise and reopens the betting for everyone.
Raise(pn, amt) ==
  /\ OnTurn(pn)
  /\ amt <= players[pn].stack
  /\ ~players[pn].called
  /\ amt - Owed(pn) >= minRaise
  /\ LET reopened == [i \in Pos |-> [players[i] EXCEPT !.called = FALSE]]
     IN  UpdateRoundInfo(Wager(reopened, pn, amt), [Now EXCEPT !.minRaise = amt - Owed(pn)])
  /\ UNCHANGED <<np, dealerNum, handsPlayed, departed, dealt, button>>

\* An all-in above a call but below a full raise does not reopen the betting.
ShortRaise(pn, amt) ==
  /\ OnTurn(pn)
  /\ amt = players[pn].stack
  /\ ~players[pn].called
  /\ amt > Owed(pn) /\ amt - Owed(pn) < minRaise
  /\ UpdateRoundInfo(Wager(players, pn, amt), Now)
  /\ UNCHANGED <<np, dealerNum, handsPlayed, departed, dealt, button>>

\* A folded player stays ready for the next hand.
Fold(pn) ==
  /\ OnTurn(pn)
  /\ UpdateRoundInfo([players EXCEPT ![pn].in = FALSE, ![pn].ready = TRUE], Now)
  /\ UNCHANGED <<np, dealerNum, handsPlayed, departed, dealt, button>>

---------------------------------------------------------------------------------
(* Leaving, the runout and the end of a hand.                              *)

\* toggleReady passes the button on when its holder is no longer ready.
PassButton(ps, pn) == IF pn = dealerNum THEN NextFrom(dealerNum, np, Ready(ps)) ELSE dealerNum

\* LeaveHand while a hand runs (evictPlayer): a player out of the hand is
\* unreadied; one on turn folds; any other stays in until the hand moves on.
LeaveHand(pn) ==
  /\ Running /\ pn \in Seated(np) /\ ~players[pn].left
  /\ LeaveAtShowdown \/ stage # Showdown
  /\ LET p     == players[pn]
         folds == p.in /\ ~AllIn(p) /\ pn = actionNum
         gone  == [players EXCEPT ![pn].left = TRUE]
         out   == [gone EXCEPT ![pn].in = FALSE, ![pn].ready = FALSE]
     IN  \/ /\ folds
            /\ UpdateRoundInfo(out, Now)
            /\ UNCHANGED dealerNum
         \/ /\ ~folds /\ p.in
            /\ players' = gone
            /\ UNCHANGED <<street, score, dealerNum>>
         \/ /\ ~p.in
            /\ players' = out
            /\ dealerNum' = IF p.ready THEN PassButton(out, pn) ELSE dealerNum
            /\ UNCHANGED <<street, score>>
  /\ UNCHANGED <<np, handsPlayed, departed, dealt, button>>

\* RunoutNext, called (advanceGame) when betting is over before the showdown.
RunoutNext ==
  /\ InPlay /\ ~betting
  /\ \/ /\ board = 5
        /\ UpdateRoundInfo(players, Now)
     \/ /\ board < 5
        /\ board' = IF board = 0 THEN 3 ELSE board + 1
        /\ stage' = (CASE board = 0 -> Flop [] board = 3 -> Turn [] board = 4 -> River)
        /\ betting' = FALSE
        /\ UNCHANGED <<players, actionNum, minRaise, score>>
  /\ UNCHANGED <<np, dealerNum, handsPlayed, departed, dealt, button>>

---------------------------------------------------------------------------------
(* Removing seats.                                                         *)

Rank(S, i) == Cardinality({j \in S : j < i})

\* The players of keep move down to fill the gaps, in the same order.
Compact(ps, keep) ==
  [k \in Pos |-> IF \E i \in keep : Rank(keep, i) = k
                 THEN ps[CHOOSE i \in keep : Rank(keep, i) = k]
                 ELSE Vacant]

\* What dropPlayer does to a position that pointed at i; the position of a
\* dropped player becomes 0.
Shift(keep, i) == IF i \in keep THEN Rank(keep, i) ELSE 0

\* Mutant: the bets of the last hand stay.
UnreadyKeepingTotal(p) == [p EXCEPT !.ready = FALSE, !.in = FALSE, !.bet = 0]

\* The hand state cleared off a player between hands.
Unready(p) == [p EXCEPT !.ready = FALSE, !.in = FALSE, !.bet = 0, !.totalBet = 0]

\* resetForNextHand puts pending rebuys into the stacks.
Credit(p) == [p EXCEPT !.stack = @ + p.pendingBuyIn, !.pendingBuyIn = 0]

\* The first player clockwise after the button who has not left.
NextButton == NextFrom(After(dealerNum, np), np, Seated(np) \ Left(players))

\* SettleShowdown (resetForNextHand): departed players are dropped, the button
\* moves on, rebuys arrive, and the table pauses if someone left or is broke.
SettleShowdown ==
  /\ stage = Showdown
  /\ LET keep   == Seated(np) \ Left(players)
         seats  == Compact(players, keep)
         funded == [i \in Pos |-> Credit(seats[i])]
         n      == Cardinality(keep)
         paused == n < np \/ \E i \in Seated(n) : funded[i].stack = 0
     IN  /\ np' = n
         /\ departed' = departed + np - n
         /\ actionNum' = Shift(keep, actionNum)
         /\ \/ /\ n = 0
               /\ players' = seats
               /\ dealerNum' = 0
               /\ UNCHANGED handsPlayed
            \/ /\ n > 0 /\ paused
               /\ players' = [i \in Pos |-> [Unready(funded[i]) EXCEPT !.called = FALSE]]
               /\ dealerNum' = Rank(keep, NextButton)
               /\ handsPlayed' = handsPlayed + 1
            \/ /\ n > 0 /\ ~paused
               /\ players' = [i \in Pos |-> [Unready(funded[i]) EXCEPT !.ready = funded[i].ready]]
               /\ dealerNum' = NextFrom(Rank(keep, NextButton), n, Ready(players'))
               /\ handsPlayed' = handsPlayed + 1
  /\ stage' = NotReady /\ betting' = FALSE
  /\ score' = NoScores /\ dealt' = NoChips
  /\ UNCHANGED <<board, minRaise, button>>

---------------------------------------------------------------------------------
(* Between hands.  The server's callers hold seatMu and have seen NotReady. *)

AtRest == stage = NotReady

\* setSeatID sorts the players by seat; dealerNum keeps its index.
SeatRank(ps, n, i) == Cardinality({j \in Seated(n) : ps[j].seatID < ps[i].seatID})

\* Mutant: players stay in the order they came.
BySeatUnsorted(ps, n) == [k \in Pos |-> IF k < n THEN ps[k] ELSE Vacant]

BySeat(ps, n) ==
  [k \in Pos |-> IF \E i \in Seated(n) : SeatRank(ps, n, i) = k
                 THEN ps[CHOOSE i \in Seated(n) : SeatRank(ps, n, i) = k]
                 ELSE Vacant]

FreeSeat(s) == \A i \in Seated(np) : players[i].seatID # s

\* Game.SeatPlayer: people arrive not ready, bots ready.
SeatPlayer(s, ready) ==
  /\ AtRest /\ np < N /\ FreeSeat(s)
  /\ np + departed < SeatLimit
  /\ players' = BySeat([players EXCEPT ![np] =
                   [Vacant EXCEPT !.seatID = s, !.ready = ready,
                                  !.stack = BuyIn, !.totalBuyIn = BuyIn]], np + 1)
  /\ np' = np + 1
  /\ UNCHANGED <<dealerNum, street, handsPlayed, departed, score, dealt, button>>

\* SetSeatID (moveSeat): only a player who is not ready may move.
MoveSeat(pn, s) ==
  /\ AtRest /\ pn \in Seated(np) /\ ~players[pn].ready /\ FreeSeat(s)
  /\ players' = BySeat([players EXCEPT ![pn].seatID = s], np)
  /\ button' = IF button = players[pn].seatID THEN s ELSE button
  /\ UNCHANGED <<np, dealerNum, street, handsPlayed, departed, score, dealt>>

\* ToggleReady: a broke player cannot get ready; the button does not rest on
\* a player who is not ready while somebody is.
ToggleReady(pn) ==
  /\ AtRest /\ pn \in Seated(np)
  /\ players[pn].ready \/ players[pn].stack > 0
  /\ players' = [players EXCEPT ![pn].ready = ~@, ![pn].in = FALSE, ![pn].left = FALSE]
  /\ dealerNum' = PassButton(players', pn)
  /\ UNCHANGED <<np, street, handsPlayed, departed, score, dealt, button>>

\* BuyIn (rebuy): a player in the hand gets the chips when it ends, any other
\* at once.
Rebuy(pn, amt) ==
  /\ pn \in Seated(np) /\ ~players[pn].left
  /\ MaxBuy # 0 => players[pn].totalBuyIn + amt <= MaxBuy
  /\ IF players[pn].in
     THEN /\ players' = [players EXCEPT ![pn].pendingBuyIn = @ + amt, ![pn].totalBuyIn = @ + amt]
          /\ UNCHANGED dealt
     ELSE /\ players' = [players EXCEPT ![pn].stack = @ + amt, ![pn].totalBuyIn = @ + amt]
          /\ dealt' = IF Running THEN [dealt EXCEPT ![pn] = @ + amt] ELSE dealt
  /\ UNCHANGED <<np, dealerNum, street, handsPlayed, departed, score, button>>

\* UndoBuyIn (undoRebuy): one buy-in back, before the player is ready.
UndoRebuy(pn) ==
  /\ pn \in Seated(np) /\ ~players[pn].left
  /\ ~players[pn].in /\ ~players[pn].ready
  /\ players[pn].stack >= BuyIn
  /\ players' = [players EXCEPT ![pn].stack = @ - BuyIn,
                                ![pn].totalBuyIn = @ - AtMost(BuyIn, @)]
  /\ UNCHANGED <<np, dealerNum, street, handsPlayed, departed, score, dealt, button>>

\* Game.Reset: an empty table, keeping the configuration.
Reset ==
  /\ players' = [i \in Pos |-> Vacant]
  /\ np' = 0 /\ dealerNum' = 0 /\ actionNum' = 0 /\ departed' = 0 /\ handsPlayed' = 0
  /\ stage' = NotReady /\ betting' = FALSE /\ board' = 0 /\ minRaise' = 0
  /\ score' = NoScores /\ dealt' = NoChips /\ button' = 0

\* RemovePlayer (dropPlayer), the button being at d.
Stay(pn) == Seated(np) \ {pn}

Drop(pn, d) ==
  /\ np' = np - 1
  /\ departed' = departed + 1
  /\ dealerNum' = Shift(Stay(pn), d)
  /\ actionNum' = Shift(Stay(pn), actionNum)
  /\ UNCHANGED <<stage, betting, board, minRaise, handsPlayed, score, dealt, button>>

\* Pause: everyone becomes not ready.
Pause(ps) == [i \in Pos |-> Unready(ps[i])]

\* The last player out leaves an empty table, otherwise the others pause.
DropAndPause(pn, d) ==
  IF Stay(pn) = {}
  THEN Reset
  ELSE players' = Pause(Compact(players, Stay(pn))) /\ Drop(pn, d)

\* evictPlayer between hands: LeaveHand, RemovePlayer, then Pause or Reset.
LeaveTable(pn) ==
  /\ AtRest /\ pn \in Seated(np)
  /\ DropAndPause(pn, IF players[pn].ready
                      THEN PassButton([players EXCEPT ![pn].ready = FALSE], pn)
                      ELSE dealerNum)

\* applySpectate: RemovePlayer, then Pause or Reset.  Its callers read NotReady
\* before they take seatMu; a Start in between is left to a model of the locks.
Spectate(pn) == AtRest /\ pn \in Seated(np) /\ DropAndPause(pn, dealerNum)

\* autoSpectateBusted: a broke player with no buy-in left is removed, without
\* a pause; the last one leaves an empty table behind.
Bust(pn) ==
  /\ AtRest /\ pn \in Seated(np)
  /\ players[pn].stack = 0 /\ MaxBuy > 0 /\ players[pn].totalBuyIn >= MaxBuy
  /\ players' = Compact(players, Stay(pn))
  /\ Drop(pn, dealerNum)

\* settleLocked and resetWithRefunds: every seat is paid out, then Reset.
SettleSession == AtRest /\ np > 0 /\ Reset

---------------------------------------------------------------------------------
\* NewGame, then Configure.
Init ==
  /\ players = [i \in Pos |-> Vacant]
  /\ np = 0 /\ dealerNum = 0 /\ actionNum = 0 /\ departed = 0 /\ handsPlayed = 0
  /\ stage = NotReady /\ betting = FALSE /\ board = 0 /\ minRaise = 0
  /\ score = NoScores /\ dealt = NoChips /\ button = 0

Amounts == 0 .. players[actionNum].stack

\* What the player on turn may do.
Act ==
  \E pn \in Seated(np) :
     \/ \E amt \in Amounts : Call(pn, amt) \/ Raise(pn, amt) \/ ShortRaise(pn, amt)
     \/ Fold(pn)

PlayHand ==
  \/ Act
  \/ RunoutNext
  \/ SettleShowdown
  \/ \E pn \in Seated(np) : LeaveHand(pn)
  \/ \E pn \in Seated(np), amt \in Rebuys : Rebuy(pn, amt)

BetweenHands ==
  \/ Start
  \/ SettleSession
  \/ \E s \in 1 .. N, ready \in BOOLEAN : SeatPlayer(s, ready)
  \/ \E pn \in Seated(np), s \in 1 .. N : MoveSeat(pn, s)
  \/ \E pn \in Seated(np) : ToggleReady(pn) \/ UndoRebuy(pn)
  \/ \E pn \in Seated(np) : LeaveTable(pn) \/ Spectate(pn) \/ Bust(pn)

Next == PlayHand \/ BetweenHands

Spec == Init /\ [][Next]_vars

\* enforceActionClock acts for a player who does nothing: check when that is
\* free, else fold.
TimeOut == \E pn \in Seated(np) : IF Owed(pn) = 0 THEN Call(pn, 0) ELSE Fold(pn)

\* The action clock runs for every turn, and the progression watchdog runs for
\* every stage without betting.
Fairness == WF_vars(TimeOut) /\ WF_vars(RunoutNext) /\ WF_vars(SettleShowdown)

---------------------------------------------------------------------------------
(* Properties.                                                             *)

\* Every variable has its type.
TypeOK ==
  /\ players \in [Pos -> Player]
  /\ np \in 0 .. N /\ dealerNum \in Pos /\ actionNum \in Pos
  /\ stage \in NotReady .. Showdown /\ betting \in BOOLEAN /\ board \in {0, 3, 4, 5}
  /\ minRaise \in Nat /\ handsPlayed \in Nat /\ departed \in Nat /\ button \in Nat
  /\ score \in [Pos -> Nat] /\ dealt \in [Pos -> Nat]

\* Until the pots are paid, nobody has gained or lost a chip: what a player has
\* bet and what is left of the stack make up what the player brought into the
\* hand, whatever was bet, refunded, left or rebought in between.
StakesIntact ==
  InPlay => \A i \in Pos : players[i].stack + players[i].totalBet = dealt[i]

Stacks == [i \in Pos |-> players[i].stack]

\* Paying the pots never creates chips: after the hand the players own at most
\* what they brought into it.
PotPaidOut == stage = Showdown => Sum(N, Stacks) <= Sum(N, dealt)

\* In a hand nobody left, every chip that was bet is won by somebody.
ChipsConserved ==
  stage = Showdown /\ Left(players) = {} => Sum(N, Stacks) = Sum(N, dealt)

\* What player i can win at most: from each player as much as i put in.
Contested(i) == Sum(N, [j \in Pos |-> AtMost(players[j].totalBet, players[i].totalBet)])
Collected(i) == players[i].stack + players[i].totalBet - dealt[i]
ShownDown    == stage = Showdown /\ score # NoScores

\* At a showdown the best hand, if it is nobody else's, takes all it contests,
\* whatever all-ins and folds the pots were built from; and nobody takes more.
BestHandPaid ==
  ShownDown =>
    \A i \in InHand(players) :
      /\ Collected(i) <= Contested(i)
      /\ (~players[i].left /\ \A j \in InHand(players) \ {i} : score[i] < score[j])
           => Collected(i) = Contested(i)

\* The player the table waits for can really act.
ActorCanAct ==
  betting => /\ InPlay
             /\ actionNum < np
             /\ players[actionNum].in /\ players[actionNum].stack > 0
             /\ ~players[actionNum].left
             /\ ~IsCalled(players, actionNum)

\* handleCall computes what a call costs from the bets of the whole hand, the
\* engine from those of the street: they agree for whoever is on turn.
CallAmountAgrees ==
  betting => Highest(N, Totals(players)) - players[actionNum].totalBet = Owed(actionNum)

\* Once betting has stopped nobody is waited for, but a player whose blind took
\* the last chip and came back in part: chips again, and no bet to match yet.
RefundedBlind(i) == dealt[i] <= BigBlind /\ ~players[i].called /\ players[i].stack > 0
NoOneWaitsOnDeadBetting ==
  InPlay /\ ~betting => \A i \in Waiting(players) : RefundedBlind(i)

\* During a hand everyone dealt in stays ready, so that deal() finds the two
\* ready players it wants on every street.
ReadyWhileIn == Running => \A i \in Seated(np) : players[i].in => players[i].ready

\* The turn is right: whoever the table waits for can act, at a price on which
\* its two computations agree; nobody is waited for once betting has stopped; and
\* the next street finds its players ready.
TurnIsRight ==
  ActorCanAct /\ CallAmountAgrees /\ NoOneWaitsOnDeadBetting /\ ReadyWhileIn

\* Between hands nothing of the last one survives: nobody is in, nothing is bet
\* or pending, nobody who left is still seated, and whoever is ready has chips.
CleanBetweenHands ==
  stage = NotReady =>
    \A i \in Seated(np) :
      LET p == players[i]
      IN  /\ ~p.in /\ ~p.left /\ p.totalBet = 0 /\ p.bet = 0 /\ p.pendingBuyIn = 0
          /\ p.ready => p.stack > 0

\* Positions follow the seats around the table, one player a seat and nobody
\* behind the last one, and the button is at an occupied position.
SeatsInOrder ==
  /\ \A i \in Pos : i >= np <=> players[i] = Vacant
  /\ \A i, j \in Seated(np) : i < j => players[i].seatID < players[j].seatID
  /\ np > 0 => dealerNum < np

\* The hand moves on only when every bet is matched: a player with less in
\* than another has put everything in.
ClosesStreet ==
  /\ stage \in PreFlop .. River /\ stage' > stage
  /\ Cardinality(InHand(players')) > 1
ClosesMatched ==
  ClosesStreet =>
    \A i \in InHand(players'), j \in Pos :
      \/ Totals(players')[i] = dealt'[i]
      \/ Totals(players')[i] >= Totals(players')[j]

\* An uncalled bet is money of the current street: refunding it takes as much
\* off the street bet as off the total.
SameStreet == InPlay /\ (stage' = stage \/ (betting /\ stage' = Showdown))
Bets(ps)   == [i \in Pos |-> ps[i].bet]
RefundsThisStreet ==
  SameStreet =>
    \A i \in Pos : Totals(players')[i] - Totals(players)[i]
                    = Bets(players')[i] - Bets(players)[i]

\* Street bets and totals stay in step: streets close with every bet matched,
\* and what comes back is taken off the street it was bet on.
StreetsAddUp == [][ClosesMatched /\ RefundsThisStreet]_vars

\* A hand that was dealt ends, whoever sleeps, folds or leaves; but for one way
\* to get stuck: the river waits for a refunded blind.
StuckOnBlind == stage = River /\ ~betting /\ \E i \in Waiting(players) : RefundedBlind(i)
HandEndsOrSticks == Running ~> (stage = NotReady \/ StuckOnBlind)
=================================================================================
