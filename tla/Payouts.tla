-------------------------------- MODULE Payouts ---------------------------------
(***************************************************************************)
(* How a table gives chips back (server/payout.go, table.go, events.go).   *)
(* A seat is paid out when its player leaves, moves to the spectators, or  *)
(* when the session settles or is reset.  The write to the account may     *)
(* fail; a timer then tries again, and a settlement keeps the table frozen *)
(* until it has paid everybody.                                            *)
(*                                                                         *)
(* seatMu serialises departures, settlements, resets and starts; hands are *)
(* played without it.  payoutMu is held for one flushSeat or one           *)
(* retryPayouts, so each of these is one step, and steps of a settlement   *)
(* interleave with the retry timer.  The engine is reduced to what moves   *)
(* chips (module PokerGame has the rest): bets go into a pot, the pot goes *)
(* to players who have not left.  A seat is identified by its UUID, used   *)
(* for one stay and numbered here, and its account by the seat.  Reading a *)
(* stack and marking its player as left are one step here, though bets     *)
(* need no seatMu.                                                         *)
(***************************************************************************)
EXTENDS Sums, FiniteSets

CONSTANTS
  SeatsGiven,    \* seat UUIDs given out in the life of the table
  BuyIn,         \* config.BuyIn
  ResetsFail     \* may a refund of resetWithRefunds fail?

ASSUME PayoutsAssumption ==
  SeatsGiven \in Nat /\ BuyIn \in Nat /\ ResetsFail \in BOOLEAN

Seats == 0 .. SeatsGiven - 1

\* f summed over the seats of S.
Total(S, f) == Sum(SeatsGiven, [s \in Seats |-> IF s \in S THEN f[s] ELSE 0])

VARIABLES
  seat,          \* "away", "seated", "left" (during a hand) or "gone"
  stack,         \* the seat's stack in the engine
  hand,          \* a hand is running
  pot,           \* chips bet in it
  forfeited,     \* history: pots nobody stayed for
  payout,        \* "queued" (pendingPayouts), "paid" (paidSeats) or "none"
  due,           \* the amount a queued payout was asked for
  wallet,        \* chips of the account
  seatMu,        \* who holds seatMu: an operation, its seats to go, its snapshot
  payoutTimer,   \* table.payoutRetry is set
  settling,      \* table.settlementPending
  settleTimer,   \* table.settlementRetry is set
  recycling      \* destroyIfEmpty: "no", "checked", "stopping" or "stopped"

engine == <<seat, stack, hand, pot, forfeited>>
money  == <<payout, due, wallet, payoutTimer>>
vars   == <<engine, money, seatMu, settling, settleTimer, recycling>>

Free       == [op |-> "free", todo |-> {}, refund |-> 0]
SeatMuFree == seatMu.op = "free"
Seated     == {s \in Seats : seat[s] = "seated"}
AtTable    == {s \in Seats : seat[s] \in {"seated", "left"}}
Queued     == {s \in Seats : payout[s] = "queued"}
Stopped    == recycling = "stopped"

Init ==
  /\ seat = [s \in Seats |-> "away"] /\ stack = [s \in Seats |-> 0]
  /\ hand = FALSE /\ pot = 0 /\ forfeited = 0
  /\ payout = [s \in Seats |-> "none"] /\ due = [s \in Seats |-> 0]
  /\ wallet = [s \in Seats |-> BuyIn]
  /\ seatMu = Free /\ payoutTimer = FALSE
  /\ settling = FALSE /\ settleTimer = FALSE /\ recycling = "no"

---------------------------------------------------------------------------------
(* Sitting down and playing.                                               *)

\* seatHumanLocked: the account is debited, then the engine seats the player.
Sit(s) ==
  /\ SeatMuFree /\ ~settling /\ ~hand /\ ~Stopped
  /\ seat[s] = "away" /\ wallet[s] >= BuyIn
  /\ wallet' = [wallet EXCEPT ![s] = @ - BuyIn]
  /\ seat' = [seat EXCEPT ![s] = "seated"]
  /\ stack' = [stack EXCEPT ![s] = BuyIn]
  /\ UNCHANGED <<hand, pot, forfeited, payout, due, payoutTimer,
                 seatMu, settling, settleTimer, recycling>>

\* Mutant: a hand starts on a frozen table.
StartHandSettling ==
  /\ SeatMuFree /\ ~hand
  /\ Cardinality(Seated) >= 2
  /\ hand' = TRUE
  /\ UNCHANGED <<seat, stack, pot, forfeited, money, seatMu, settling, settleTimer, recycling>>

\* autoStartIfReady, handleStartGame.
StartHand ==
  /\ SeatMuFree /\ ~settling /\ ~hand
  /\ Cardinality(Seated) >= 2
  /\ hand' = TRUE
  /\ UNCHANGED <<seat, stack, pot, forfeited, money, seatMu, settling, settleTimer, recycling>>

Bet(s, k) ==
  /\ hand /\ seat[s] = "seated" /\ k <= stack[s]
  /\ stack' = [stack EXCEPT ![s] = @ - k]
  /\ pot' = pot + k
  /\ UNCHANGED <<seat, hand, forfeited, money, seatMu, settling, settleTimer, recycling>>

\* The pot is split among players still there and resetForNextHand drops whoever
\* left; what a player who left would have won is forfeited.
EndHand ==
  /\ hand
  /\ \E won \in [Seated -> 0 .. pot] :
       LET awarded == Total(Seated, won)
       IN  /\ awarded <= pot
           /\ AtTable = Seated => awarded = pot
           /\ stack' = [s \in Seats |-> IF s \in Seated THEN stack[s] + won[s] ELSE 0]
           /\ forfeited' = forfeited + (pot - awarded)
  /\ seat' = [s \in Seats |-> IF seat[s] = "left" THEN "gone" ELSE seat[s]]
  /\ hand' = FALSE /\ pot' = 0
  /\ UNCHANGED <<money, seatMu, settling, settleTimer, recycling>>

---------------------------------------------------------------------------------
(* Paying one seat.                                                        *)

\* Mutant: a paid seat is not remembered.
FlushForgetting(s, amt, ok) ==
  LET owed == IF payout[s] = "queued" THEN due[s] ELSE amt
  IN  IF ok
      THEN /\ wallet' = [wallet EXCEPT ![s] = @ + owed]
           /\ payout' = [payout EXCEPT ![s] = "none"]
           /\ due' = [due EXCEPT ![s] = 0]
           /\ payoutTimer' = (payoutTimer /\ Queued \ {s} # {})
      ELSE /\ payout' = [payout EXCEPT ![s] = "queued"]
           /\ due' = [due EXCEPT ![s] = owed]
           /\ payoutTimer' = TRUE
           /\ UNCHANGED wallet

\* flushSeat: a seat is paid once; a write that fails keeps the amount it was
\* first asked for and sets the retry timer.
FlushSeat(s, amt, ok) ==
  LET owed == IF payout[s] = "queued" THEN due[s] ELSE amt
  IN  IF payout[s] = "paid" THEN ok /\ UNCHANGED money
      ELSE IF ok
      THEN /\ wallet' = [wallet EXCEPT ![s] = @ + owed]
           /\ payout' = [payout EXCEPT ![s] = "paid"]
           /\ due' = [due EXCEPT ![s] = 0]
           /\ payoutTimer' = (payoutTimer /\ Queued \ {s} # {})
      ELSE /\ payout' = [payout EXCEPT ![s] = "queued"]
           /\ due' = [due EXCEPT ![s] = owed]
           /\ payoutTimer' = TRUE
           /\ UNCHANGED wallet

\* Mutant: what a retry paid stays in the queue.
RetryPayoutsKeeping(S) ==
  /\ payoutTimer /\ ~Stopped
  /\ wallet' = [s \in Seats |-> IF s \in S THEN wallet[s] + due[s] ELSE wallet[s]]
  /\ payoutTimer' = (Queued \ S # {})
  /\ UNCHANGED <<payout, due>>
  /\ UNCHANGED <<engine, seatMu, settling, settleTimer, recycling>>

\* retryPayouts: the writes for the seats of S succeed this time.
RetryPayouts(S) ==
  /\ payoutTimer /\ ~Stopped
  /\ wallet' = [s \in Seats |-> IF s \in S THEN wallet[s] + due[s] ELSE wallet[s]]
  /\ payout' = [s \in Seats |-> IF s \in S THEN "paid" ELSE payout[s]]
  /\ due' = [s \in Seats |-> IF s \in S THEN 0 ELSE due[s]]
  /\ payoutTimer' = (Queued \ S # {})
  /\ UNCHANGED <<engine, seatMu, settling, settleTimer, recycling>>

---------------------------------------------------------------------------------
(* Leaving.                                                                *)

\* evictPlayer: the stack is noted and the player marked as left ...
EvictPlayer(s) ==
  /\ SeatMuFree /\ ~settling /\ seat[s] = "seated"
  /\ seat' = [seat EXCEPT ![s] = "left"]
  /\ seatMu' = [op |-> "evict", todo |-> {s}, refund |-> stack[s]]
  /\ UNCHANGED <<stack, hand, pot, forfeited, money, settling, settleTimer, recycling>>

\* ... then the stack is paid ...
EvictFlush(s, ok) ==
  /\ seatMu.op = "evict" /\ s \in seatMu.todo
  /\ FlushSeat(s, seatMu.refund, ok)
  /\ seatMu' = [seatMu EXCEPT !.op = "evicted"]
  /\ UNCHANGED <<engine, settling, settleTimer, recycling>>

\* ... and between hands the seat is removed at once.
EvictRemove(s) ==
  /\ seatMu.op = "evicted" /\ s \in seatMu.todo
  /\ IF hand THEN UNCHANGED <<seat, stack>>
     ELSE /\ seat' = [seat EXCEPT ![s] = "gone"]
          /\ stack' = [stack EXCEPT ![s] = 0]
  /\ seatMu' = Free
  /\ UNCHANGED <<hand, pot, forfeited, money, settling, settleTimer, recycling>>

\* applySpectate, between hands: removed first, paid next.
Spectate(s) ==
  /\ SeatMuFree /\ ~settling /\ ~hand /\ seat[s] = "seated"
  /\ seat' = [seat EXCEPT ![s] = "gone"]
  /\ stack' = [stack EXCEPT ![s] = 0]
  /\ seatMu' = [op |-> "spectate", todo |-> {s}, refund |-> stack[s]]
  /\ UNCHANGED <<hand, pot, forfeited, money, settling, settleTimer, recycling>>

SpectateFlush(s, ok) ==
  /\ seatMu.op = "spectate" /\ s \in seatMu.todo
  /\ FlushSeat(s, seatMu.refund, ok)
  /\ seatMu' = Free
  /\ UNCHANGED <<engine, settling, settleTimer, recycling>>

---------------------------------------------------------------------------------
(* Settling and resetting: every seat, one after the other, under seatMu.  *)

\* maybeSettle, maybeSettleAfterHand: settleLocked freezes the table.  A vote or
\* the hand limit may ask for it between any two hands.
Settle ==
  /\ SeatMuFree /\ ~settling /\ ~hand /\ AtTable # {}
  /\ settling' = TRUE
  /\ seatMu' = [op |-> "settle", todo |-> AtTable, refund |-> 0]
  /\ UNCHANGED <<engine, money, settleTimer, recycling>>

\* Mutant: a seat that could not be paid is passed over.
SettleFlushPassingOver(s, ok) ==
  /\ seatMu.op = "settle" /\ s \in seatMu.todo
  /\ FlushSeat(s, stack[s], ok)
  /\ seatMu' = [seatMu EXCEPT !.todo = @ \ {s}]
  /\ UNCHANGED settleTimer
  /\ UNCHANGED <<engine, settling, recycling>>

\* Mutant: a settlement that stops sets no timer.
SettleFlushNoTimer(s, ok) ==
  /\ seatMu.op = "settle" /\ s \in seatMu.todo
  /\ FlushSeat(s, stack[s], ok)
  /\ seatMu' = IF ok THEN [seatMu EXCEPT !.todo = @ \ {s}] ELSE Free
  /\ UNCHANGED <<engine, settling, settleTimer, recycling>>

\* A seat that cannot be paid stops the settlement until its timer fires.
SettleFlush(s, ok) ==
  /\ seatMu.op = "settle" /\ s \in seatMu.todo
  /\ FlushSeat(s, stack[s], ok)
  /\ \/ /\ ok
        /\ seatMu' = [seatMu EXCEPT !.todo = @ \ {s}]
        /\ UNCHANGED settleTimer
     \/ /\ ~ok
        /\ seatMu' = Free
        /\ settleTimer' = TRUE
  /\ UNCHANGED <<engine, settling, recycling>>

\* Everybody is paid: the scoreboard is saved, then the table is reset.
SettleFinish(ok) ==
  /\ seatMu.op = "settle" /\ seatMu.todo = {}
  /\ \/ /\ ok
        /\ seat' = [s \in Seats |-> IF s \in AtTable THEN "gone" ELSE seat[s]]
        /\ stack' = [s \in Seats |-> 0]
        /\ settling' = FALSE /\ settleTimer' = FALSE
     \/ /\ ~ok
        /\ settleTimer' = TRUE
        /\ UNCHANGED <<seat, stack, settling>>
  /\ seatMu' = Free
  /\ UNCHANGED <<hand, pot, forfeited, money, recycling>>

RetrySettlement ==
  /\ settleTimer /\ SeatMuFree /\ ~Stopped
  /\ settleTimer' = FALSE
  /\ seatMu' = [op |-> "settle", todo |-> AtTable, refund |-> 0]
  /\ UNCHANGED <<engine, money, settling, recycling>>

\* resetWithRefunds: each seat is removed once it is paid; the first that
\* cannot be ends the reset.
ResetWithRefunds ==
  /\ SeatMuFree /\ ~settling /\ ~hand /\ AtTable # {}
  /\ seatMu' = [op |-> "reset", todo |-> AtTable, refund |-> 0]
  /\ UNCHANGED <<engine, money, settling, settleTimer, recycling>>

ResetFlush(s, ok) ==
  /\ seatMu.op = "reset" /\ s \in seatMu.todo
  /\ ok \/ ResetsFail
  /\ FlushSeat(s, stack[s], ok)
  /\ \/ /\ ok
        /\ seat' = [seat EXCEPT ![s] = "gone"]
        /\ stack' = [stack EXCEPT ![s] = 0]
        /\ seatMu' = IF seatMu.todo = {s} THEN Free ELSE [seatMu EXCEPT !.todo = @ \ {s}]
     \/ /\ ~ok
        /\ seatMu' = Free
        /\ UNCHANGED <<seat, stack>>
  /\ UNCHANGED <<hand, pot, forfeited, settling, settleTimer, recycling>>

---------------------------------------------------------------------------------
(* Destroying an empty room: two checks, then shutdown.                    *)

\* destroyIfEmpty: nobody is connected, and whoever still has a seat has left.
CheckEmpty ==
  /\ recycling = "no" /\ Seated = {}
  /\ recycling' = "checked"
  /\ UNCHANGED <<engine, money, seatMu, settling, settleTimer>>

\* destroyTable: an unpaid refund keeps the room.
CheckUnpaid ==
  /\ recycling = "checked"
  /\ recycling' = IF settling \/ Queued # {} THEN "no" ELSE "stopping"
  /\ UNCHANGED <<engine, money, seatMu, settling, settleTimer>>

\* shutdown stops every timer.
Shutdown ==
  /\ recycling = "stopping" /\ SeatMuFree
  /\ recycling' = "stopped"
  /\ payoutTimer' = FALSE /\ settleTimer' = FALSE
  /\ UNCHANGED <<engine, payout, due, wallet, seatMu, settling>>

Recycle == CheckEmpty \/ CheckUnpaid \/ Shutdown

---------------------------------------------------------------------------------
Play ==
  \/ \E s \in Seats : Sit(s)
  \/ StartHand
  \/ \E s \in Seats : \E k \in 1 .. stack[s] : Bet(s, k)
  \/ EndHand

Depart ==
  \/ \E s \in Seats : EvictPlayer(s) \/ EvictRemove(s) \/ Spectate(s)
  \/ \E s \in Seats, ok \in BOOLEAN : EvictFlush(s, ok) \/ SpectateFlush(s, ok)

Close ==
  \/ Settle \/ RetrySettlement \/ ResetWithRefunds
  \/ \E s \in Seats, ok \in BOOLEAN : SettleFlush(s, ok) \/ ResetFlush(s, ok)
  \/ \E ok \in BOOLEAN : SettleFinish(ok)

Retry == \E S \in SUBSET Queued : RetryPayouts(S)

Next == Play \/ Depart \/ Close \/ Retry \/ Recycle

Spec == Init /\ [][Next]_vars

\* Whoever holds seatMu goes on.
HolderStep ==
  \E s \in Seats, ok \in BOOLEAN :
    EvictFlush(s, ok) \/ EvictRemove(s) \/ SpectateFlush(s, ok)
      \/ SettleFlush(s, ok) \/ SettleFinish(ok) \/ ResetFlush(s, ok)

\* Goroutines run and timers fire.  A write that is tried again and again
\* succeeds some time, and whoever waits for seatMu gets it some time (Go's
\* mutexes do not starve a waiter): strong fairness.
Fairness ==
  /\ WF_vars(HolderStep)
  /\ WF_vars(RetryPayouts(Queued))
  /\ SF_vars(RetrySettlement)
  /\ SF_vars(\E s \in Seats : payout[s] # "paid" /\ SettleFlush(s, TRUE))
  /\ SF_vars(SettleFinish(TRUE))

FairSpec == Spec /\ Fairness

---------------------------------------------------------------------------------
(* Properties.                                                             *)

\* What the table owes the account of a seat: a queued refund, nothing after
\* it is paid, the amount a departure noted, or the stack.
InFlight(s) == seatMu.op \in {"evict", "spectate"} /\ s \in seatMu.todo
Owed(s) ==
  CASE payout[s] = "queued" -> due[s]
    [] payout[s] = "paid"   -> 0
    [] payout[s] = "none" /\ InFlight(s) -> seatMu.refund
    [] payout[s] = "none" /\ ~InFlight(s) -> stack[s]

\* No chip is created or lost, whatever writes fail, are retried or overtaken:
\* wallets, debts, the pot and forfeited pots are what was brought.
ChipsKept ==
  Sum(SeatsGiven, [s \in Seats |-> wallet[s] + Owed(s)]) + pot + forfeited
    = SeatsGiven * BuyIn

\* A stack that has been refunded, or is about to be, is not played with.
RefundedNeverPlays == hand => \A s \in Seated : payout[s] = "none"

\* A settlement pays everybody or changes nothing: while it is pending no seat
\* and no stack changes, and it ends with every seat paid.
SettlesAllOrNothing ==
  [][settling => \/ UNCHANGED <<seat, stack>> /\ settling'
                 \/ ~settling' /\ \A s \in AtTable : payout[s] = "paid"]_vars

\* A refund that failed is paid in the end, and a settlement ends, unless the
\* room had passed the checks of its destruction before.
Kept == recycling \in {"no", "checked"}
RefundsArrive  == \A s \in Seats : (payout[s] = "queued" /\ Kept) ~> payout[s] = "paid"
SettlementEnds == (settling /\ Kept) ~> ~settling
PaysInTheEnd   == RefundsArrive /\ SettlementEnds

\* Every payout is of the exact amount, and made once: a step of the table is a
\* step of the ledger.
InPlay(s) == seat[s] = "seated" /\ payout[s] = "none"
Promise == INSTANCE Ledger WITH
             credit <- [s \in Seats |-> Owed(s)],
             open   <- [s \in Seats |-> InPlay(s)]
ImplementsLedger == Promise!Spec
=================================================================================
