----------------------------- MODULE PayoutsProofs ------------------------------
(***************************************************************************)
(* Proofs about module Payouts, for any number of seats and any buy-in.    *)
(*   1. Whoever holds seatMu finds the table as left (LockInv): that       *)
(*      is what makes a settlement all or nothing (SettlementsAreWhole),   *)
(*      even if resets fail.                                               *)
(*   2. If resets do not fail, nobody plays with a stack that has been or  *)
(*      is to be paid out (RefundedStandAside) ...                         *)
(*   3. ... so every step is one of Ledger (TableKeepsTheLedger) ...       *)
(*   4. ... and no chip is created or lost (ChipsStay).                    *)
(***************************************************************************)
EXTENDS Payouts, SumTheorems

SeatStates == {"away", "seated", "left", "gone"}
PayStates  == {"none", "queued", "paid"}
Holders    == {"free", "evict", "evicted", "spectate", "settle", "reset"}

Types ==
  /\ seat \in [Seats -> SeatStates] /\ stack \in [Seats -> Nat]
  /\ hand \in BOOLEAN /\ pot \in Nat /\ forfeited \in Nat
  /\ payout \in [Seats -> PayStates] /\ due \in [Seats -> Nat] /\ wallet \in [Seats -> Nat]
  /\ seatMu \in [op : Holders, todo : SUBSET Seats, refund : Nat]
  /\ payoutTimer \in BOOLEAN /\ settling \in BOOLEAN /\ settleTimer \in BOOLEAN

\* A pending settlement keeps the table as it is: no hand runs, nobody else holds
\* seatMu, and whom it no longer has to pay is paid.
FrozenWhileSettling ==
  /\ settleTimer => settling
  /\ settling => ~hand /\ seatMu.op \in {"free", "settle"}
  /\ seatMu.op = "settle" => settling /\ \A s \in AtTable \ seatMu.todo : payout[s] = "paid"

\* A reset refunds between hands; it and a settlement refund who is there.
RefundsBetweenHands ==
  /\ seatMu.op = "reset" => ~hand
  /\ seatMu.op \in {"reset", "settle"} => seatMu.todo \subseteq AtTable

\* Who is being paid out has left, alone, and is paid or queued before the removal.
Departing ==
  /\ seatMu.op \in {"evict", "evicted", "spectate"} =>
       \A s, t \in seatMu.todo : s = t /\ seat[s] \in {"left", "gone"}
  /\ seatMu.op = "evicted" => \A s \in seatMu.todo : payout[s] # "none"

\* Nothing is owed to who is not there, but what a payout was asked for.
NothingBehind ==
  \A s \in Seats :
    /\ seat[s] = "away" => payout[s] = "none"
    /\ seat[s] \in {"away", "gone"} => stack[s] = 0
    /\ seat[s] = "left" => payout[s] # "none" \/ InFlight(s)

LockInv == Types /\ FrozenWhileSettling /\ RefundsBetweenHands /\ Departing /\ NothingBehind

(***************************************************************************)
(* Paying one seat.                                                        *)
(***************************************************************************)

FlushResult(s, amt, ok) ==
  LET owed == IF payout[s] = "queued" THEN due[s] ELSE amt
  IN  /\ payout' \in [Seats -> PayStates] /\ due' \in [Seats -> Nat] /\ wallet' \in [Seats -> Nat]
      /\ payoutTimer' \in BOOLEAN
      /\ \A t \in Seats \ {s} : /\ payout'[t] = payout[t] /\ due'[t] = due[t]
                                /\ wallet'[t] = wallet[t]
      /\ ok => payout'[s] = "paid"
      /\ \/ payout[s] = "paid" /\ payout'[s] = "paid" /\ wallet'[s] = wallet[s]
         \/ /\ payout[s] # "paid" /\ payout'[s] = "paid"
            /\ wallet'[s] = wallet[s] + owed
         \/ /\ payout[s] # "paid" /\ payout'[s] = "queued"
            /\ due'[s] = owed /\ wallet'[s] = wallet[s]

LEMMA FlushPays ==
  ASSUME Types, NEW s \in Seats, NEW amt \in Nat, NEW ok \in BOOLEAN, FlushSeat(s, amt, ok)
  PROVE  FlushResult(s, amt, ok)
<1> DEFINE owed == IF payout[s] = "queued" THEN due[s] ELSE amt
<1>1. owed \in Nat
  BY DEF Types
<1>2. CASE payout[s] = "paid"
  BY <1>2 DEF FlushSeat, FlushResult, Types, money
<1>3. CASE payout[s] # "paid" /\ ok
  <2>1. /\ wallet' = [wallet EXCEPT ![s] = @ + owed]
        /\ payout' = [payout EXCEPT ![s] = "paid"]
        /\ due' = [due EXCEPT ![s] = 0]
        /\ payoutTimer' = (payoutTimer /\ Queued \ {s} # {})
    BY <1>3 DEF FlushSeat
  <2> HIDE DEF owed
  <2>2. wallet' \in [Seats -> Nat] /\ payout' \in [Seats -> PayStates] /\ due' \in [Seats -> Nat]
    BY <1>1, <2>1 DEF Types, PayStates
  <2>3. payoutTimer' \in BOOLEAN
    BY <2>1
  <2> QED BY <1>3, <2>1, <2>2, <2>3 DEF FlushResult, Types, owed
<1>4. CASE payout[s] # "paid" /\ ~ok
  <2>1. /\ payout' = [payout EXCEPT ![s] = "queued"]
        /\ due' = [due EXCEPT ![s] = owed]
        /\ payoutTimer' = TRUE /\ wallet' = wallet
    BY <1>4 DEF FlushSeat
  <2> HIDE DEF owed
  <2>2. payout' \in [Seats -> PayStates] /\ due' \in [Seats -> Nat]
    BY <1>1, <2>1 DEF Types, PayStates
  <2> QED BY <1>4, <2>1, <2>2 DEF FlushResult, Types, owed
<1> QED BY <1>2, <1>3, <1>4

(***************************************************************************)
(* Every step keeps LockInv.                                               *)
(***************************************************************************)

LEMMA InitLock == Init => LockInv
<1> SUFFICES ASSUME Init PROVE LockInv
  OBVIOUS
<1>1. Types
  BY PayoutsAssumption DEF Init, Types, SeatStates, PayStates, Holders, Free
<1>2. seatMu.op = "free" /\ ~settleTimer /\ ~settling
  BY DEF Init, Free
<1>3. NothingBehind
  BY DEF Init, NothingBehind
<1> QED BY <1>1, <1>2, <1>3 DEF LockInv, FrozenWhileSettling, RefundsBetweenHands, Departing, AtTable

LEMMA SitLock == ASSUME LockInv, NEW s \in Seats, Sit(s) PROVE LockInv'
<1> USE DEF LockInv, Types
<1>1. /\ seatMu.op = "free" /\ ~settling /\ ~hand /\ seat[s] = "away" /\ wallet[s] >= BuyIn
      /\ wallet' = [wallet EXCEPT ![s] = @ - BuyIn]
      /\ seat' = [seat EXCEPT ![s] = "seated"]
      /\ stack' = [stack EXCEPT ![s] = BuyIn]
      /\ UNCHANGED <<hand, pot, forfeited, payout, due, payoutTimer, seatMu, settling, settleTimer>>
  BY DEF Sit, SeatMuFree
<1>2. wallet[s] - BuyIn \in Nat /\ BuyIn \in Nat
  BY <1>1, PayoutsAssumption
<1>3. Types'
  BY <1>1, <1>2 DEF SeatStates
<1>4. FrozenWhileSettling' /\ RefundsBetweenHands' /\ Departing'
  BY <1>1 DEF FrozenWhileSettling, RefundsBetweenHands, Departing, AtTable
<1>5. NothingBehind'
  BY <1>1, <1>2 DEF NothingBehind, InFlight
<1> QED BY <1>3, <1>4, <1>5

LEMMA PlayLock ==
  ASSUME LockInv, StartHand \/ (\E s \in Seats : \E k \in 1 .. stack[s] : Bet(s, k))
  PROVE  LockInv'
<1> USE DEF LockInv, Types
<1>1. CASE StartHand
  BY <1>1 DEF StartHand, SeatMuFree, FrozenWhileSettling, RefundsBetweenHands, Departing,
              NothingBehind, InFlight, money, AtTable
<1>2. ASSUME NEW s \in Seats, NEW k \in 1 .. stack[s], Bet(s, k) PROVE LockInv'
  <2>1. /\ hand /\ seat[s] = "seated" /\ k <= stack[s] /\ k \in Nat
        /\ stack' = [stack EXCEPT ![s] = @ - k] /\ pot' = pot + k
        /\ UNCHANGED <<seat, hand, forfeited, payout, due, wallet, payoutTimer, seatMu,
                       settling, settleTimer>>
    BY <1>2 DEF Bet, money
  <2>2. stack[s] - k \in Nat
    BY <2>1
  <2>3. Types'
    BY <2>1, <2>2
  <2>4. FrozenWhileSettling' /\ RefundsBetweenHands' /\ Departing' /\ NothingBehind'
    BY <2>1 DEF FrozenWhileSettling, RefundsBetweenHands, Departing, NothingBehind, InFlight, AtTable
  <2> QED BY <2>3, <2>4
<1> QED BY <1>1, <1>2

LEMMA EndHandLock == ASSUME LockInv, EndHand PROVE LockInv'
<1> USE DEF LockInv, Types
<1>1. PICK won \in [Seated -> 0 .. pot] :
        /\ Total(Seated, won) <= pot
        /\ stack' = [s \in Seats |-> IF s \in Seated THEN stack[s] + won[s] ELSE 0]
        /\ forfeited' = forfeited + (pot - Total(Seated, won))
  BY DEF EndHand
<1>2. /\ hand /\ seat' = [s \in Seats |-> IF seat[s] = "left" THEN "gone" ELSE seat[s]]
      /\ hand' = FALSE /\ pot' = 0
      /\ UNCHANGED <<payout, due, wallet, payoutTimer, seatMu, settling, settleTimer>>
  BY DEF EndHand, money
<1>3. stack' \in [Seats -> Nat]
  BY <1>1 DEF Seated
<1>4. Total(Seated, won) \in Nat
  <2> DEFINE f == [s \in Seats |-> IF s \in Seated THEN won[s] ELSE 0]
  <2>1. \A s \in 0 .. SeatsGiven - 1 : f[s] \in Nat
    BY DEF Seats
  <2> HIDE DEF f
  <2>2. Sum(SeatsGiven, f) \in Nat
    BY <2>1, SumNat, PayoutsAssumption
  <2> QED BY <2>2 DEF Total, f
<1>5. Types'
  <2>1. forfeited' \in Nat
    BY <1>1, <1>4
  <2> QED BY <1>2, <1>3, <2>1 DEF SeatStates
<1>6. FrozenWhileSettling' /\ RefundsBetweenHands' /\ Departing'
  BY <1>2 DEF FrozenWhileSettling, RefundsBetweenHands, Departing, AtTable
<1>7. NothingBehind'
  BY <1>1, <1>2 DEF NothingBehind, InFlight, Seated, SeatStates
<1> QED BY <1>5, <1>6, <1>7

LEMMA DepartLock == ASSUME LockInv, Depart PROVE LockInv'
<1> USE DEF LockInv, Types
<1>1. ASSUME NEW s \in Seats, EvictPlayer(s) \/ Spectate(s) PROVE LockInv'
  <2>1. /\ seatMu.op = "free" /\ ~settling /\ seat[s] = "seated"
        /\ seatMu' \in [op : {"evict", "spectate"}, todo : {{s}}, refund : {stack[s]}]
        /\ \/ /\ seatMu'.op = "evict" /\ stack' = stack
              /\ seat' = [seat EXCEPT ![s] = "left"]
           \/ /\ seatMu'.op = "spectate" /\ stack' = [stack EXCEPT ![s] = 0]
              /\ seat' = [seat EXCEPT ![s] = "gone"]
        /\ UNCHANGED <<hand, pot, forfeited, payout, due, wallet, payoutTimer, settling, settleTimer>>
    BY <1>1 DEF EvictPlayer, Spectate, SeatMuFree, money
  <2>2. Types'
    BY <2>1 DEF SeatStates, Holders
  <2>3. FrozenWhileSettling' /\ RefundsBetweenHands' /\ Departing'
    BY <2>1 DEF FrozenWhileSettling, RefundsBetweenHands, Departing, AtTable
  <2>4. NothingBehind'
    BY <2>1 DEF NothingBehind, InFlight
  <2> QED BY <2>2, <2>3, <2>4
<1>2. ASSUME NEW s \in Seats, NEW ok \in BOOLEAN, EvictFlush(s, ok) \/ SpectateFlush(s, ok)
      PROVE  LockInv'
  <2>1. /\ s \in seatMu.todo /\ seatMu.op \in {"evict", "spectate"}
        /\ FlushSeat(s, seatMu.refund, ok)
        /\ \/ seatMu.op = "evict" /\ seatMu' = [seatMu EXCEPT !.op = "evicted"]
           \/ seatMu.op = "spectate" /\ seatMu' = Free
        /\ UNCHANGED <<seat, stack, hand, pot, forfeited, settling, settleTimer>>
    BY <1>2 DEF EvictFlush, SpectateFlush, engine
  <2>2. FlushResult(s, seatMu.refund, ok)
    BY <2>1, FlushPays
  <2>3. payout'[s] # "none" /\ \A t \in Seats \ {s} : payout'[t] = payout[t]
    BY <2>2 DEF FlushResult
  <2>4. Types'
    BY <2>1, <2>2 DEF FlushResult, Holders, Free
  <2>5. FrozenWhileSettling' /\ RefundsBetweenHands'
    BY <2>1 DEF FrozenWhileSettling, RefundsBetweenHands, Free, AtTable
  <2>6. Departing'
    BY <2>1, <2>3 DEF Departing, Free
  <2>7. NothingBehind'
    <3> SUFFICES ASSUME NEW t \in Seats
                 PROVE  /\ seat'[t] = "away" => payout'[t] = "none"
                        /\ seat'[t] \in {"away", "gone"} => stack'[t] = 0
                        /\ seat'[t] = "left" => payout'[t] # "none" \/ InFlight(t)'
      BY DEF NothingBehind
    <3>1. CASE t = s
      BY <2>1, <2>3, <3>1 DEF NothingBehind, Departing
    <3>2. CASE t # s
      <4>1. ~InFlight(t)
        BY <2>1, <3>2 DEF InFlight, Departing
      <4> QED BY <2>1, <2>3, <3>2, <4>1 DEF NothingBehind
    <3> QED BY <3>1, <3>2
  <2> QED BY <2>4, <2>5, <2>6, <2>7
<1>3. ASSUME NEW s \in Seats, EvictRemove(s) PROVE LockInv'
  <2>1. /\ seatMu.op = "evicted" /\ s \in seatMu.todo /\ seatMu' = Free
        /\ \/ hand /\ seat' = seat /\ stack' = stack
           \/ ~hand /\ seat' = [seat EXCEPT ![s] = "gone"] /\ stack' = [stack EXCEPT ![s] = 0]
        /\ UNCHANGED <<hand, pot, forfeited, payout, due, wallet, payoutTimer, settling, settleTimer>>
    BY <1>3 DEF EvictRemove, money
  <2>2. Types'
    BY <2>1 DEF SeatStates, Holders, Free
  <2>3. FrozenWhileSettling' /\ RefundsBetweenHands' /\ Departing'
    BY <2>1 DEF FrozenWhileSettling, RefundsBetweenHands, Departing, Free, AtTable
  <2>4. NothingBehind'
    BY <2>1 DEF NothingBehind, InFlight, Departing, Free
  <2> QED BY <2>2, <2>3, <2>4
<1> QED BY <1>1, <1>2, <1>3 DEF Depart

LEMMA CloseLock == ASSUME LockInv, Close PROVE LockInv'
<1> USE DEF LockInv, Types
<1>1. CASE Settle \/ RetrySettlement
  <2>1. /\ seatMu.op = "free" /\ ~hand /\ settling' = TRUE /\ settleTimer' \in BOOLEAN
        /\ seatMu' = [op |-> "settle", todo |-> AtTable, refund |-> 0]
        /\ UNCHANGED <<seat, stack, hand, pot, forfeited, payout, due, wallet, payoutTimer>>
    BY <1>1 DEF Settle, RetrySettlement, SeatMuFree, engine, money, FrozenWhileSettling
  <2>2. AtTable \subseteq Seats /\ AtTable' = AtTable
    BY <2>1 DEF AtTable
  <2>3. Types'
    BY <2>1, <2>2 DEF Holders
  <2>4. FrozenWhileSettling' /\ RefundsBetweenHands' /\ Departing'
    BY <2>1, <2>2 DEF FrozenWhileSettling, RefundsBetweenHands, Departing, AtTable
  <2>5. NothingBehind'
    BY <2>1 DEF NothingBehind, InFlight
  <2> QED BY <2>3, <2>4, <2>5
<1>2. CASE ResetWithRefunds
  <2>1. /\ seatMu.op = "free" /\ ~hand /\ ~settling
        /\ seatMu' = [op |-> "reset", todo |-> AtTable, refund |-> 0]
        /\ UNCHANGED <<seat, stack, hand, pot, forfeited, payout, due, wallet, payoutTimer,
                       settling, settleTimer>>
    BY <1>2 DEF ResetWithRefunds, SeatMuFree, engine, money
  <2>2. AtTable \subseteq Seats
    BY DEF AtTable
  <2>3. Types'
    BY <2>1, <2>2 DEF Holders
  <2>4. FrozenWhileSettling' /\ RefundsBetweenHands' /\ Departing'
    BY <2>1 DEF FrozenWhileSettling, RefundsBetweenHands, Departing, AtTable
  <2>5. NothingBehind'
    BY <2>1 DEF NothingBehind, InFlight
  <2> QED BY <2>3, <2>4, <2>5
<1>3. ASSUME NEW s \in Seats, NEW ok \in BOOLEAN, SettleFlush(s, ok) PROVE LockInv'
  <2>1. /\ seatMu.op = "settle" /\ s \in seatMu.todo /\ FlushSeat(s, stack[s], ok)
        /\ \/ ok /\ seatMu' = [seatMu EXCEPT !.todo = @ \ {s}] /\ settleTimer' = settleTimer
           \/ ~ok /\ seatMu' = Free /\ settleTimer' = TRUE
        /\ UNCHANGED <<seat, stack, hand, pot, forfeited, settling>>
    BY <1>3 DEF SettleFlush, engine
  <2>2. FlushResult(s, stack[s], ok)
    BY <2>1, FlushPays
  <2>3. /\ payout'[s] # "none" /\ (ok => payout'[s] = "paid")
        /\ \A t \in Seats \ {s} : payout'[t] = payout[t]
    BY <2>2 DEF FlushResult
  <2>4. Types'
    <3>1. seatMu' \in [op : Holders, todo : SUBSET Seats, refund : Nat] /\ settleTimer' \in BOOLEAN
      <4>1. CASE seatMu' = Free /\ settleTimer' = TRUE
        BY <4>1 DEF Holders, Free
      <4>2. CASE seatMu' = [seatMu EXCEPT !.todo = @ \ {s}] /\ settleTimer' = settleTimer
        BY <4>2
      <4> QED BY <2>1, <4>1, <4>2
    <3> QED BY <2>1, <2>2, <3>1 DEF FlushResult
  <2>5. FrozenWhileSettling'
    BY <2>1, <2>3 DEF FrozenWhileSettling, Free, AtTable
  <2>6. RefundsBetweenHands' /\ Departing'
    BY <2>1 DEF RefundsBetweenHands, Departing, Free, AtTable
  <2>7. NothingBehind'
    BY <2>1, <2>3 DEF NothingBehind, InFlight, RefundsBetweenHands, AtTable
  <2> QED BY <2>4, <2>5, <2>6, <2>7
<1>4. ASSUME NEW ok \in BOOLEAN, SettleFinish(ok) PROVE LockInv'
  <2>1. /\ seatMu.op = "settle" /\ seatMu.todo = {} /\ seatMu' = Free
        /\ \/ /\ seat' = [s \in Seats |-> IF s \in AtTable THEN "gone" ELSE seat[s]]
              /\ stack' = [s \in Seats |-> 0]
              /\ settling' = FALSE /\ settleTimer' = FALSE
           \/ settleTimer' = TRUE /\ UNCHANGED <<seat, stack, settling>>
        /\ UNCHANGED <<hand, pot, forfeited, payout, due, wallet, payoutTimer>>
    BY <1>4 DEF SettleFinish, money
  <2>2. Types'
    <3>1. seat' \in [Seats -> SeatStates] /\ stack' \in [Seats -> Nat]
      BY <2>1 DEF SeatStates
    <3>2. /\ seatMu' \in [op : Holders, todo : SUBSET Seats, refund : Nat]
          /\ settling' \in BOOLEAN /\ settleTimer' \in BOOLEAN
      BY <2>1 DEF Holders, Free
    <3> QED BY <2>1, <3>1, <3>2
  <2>3. FrozenWhileSettling' /\ RefundsBetweenHands' /\ Departing'
    BY <2>1 DEF FrozenWhileSettling, RefundsBetweenHands, Departing, Free, AtTable
  <2>4. NothingBehind'
    BY <2>1 DEF NothingBehind, InFlight, AtTable
  <2> QED BY <2>2, <2>3, <2>4
<1>5. ASSUME NEW s \in Seats, NEW ok \in BOOLEAN, ResetFlush(s, ok) PROVE LockInv'
  <2>1. /\ seatMu.op = "reset" /\ s \in seatMu.todo /\ FlushSeat(s, stack[s], ok)
        /\ \/ /\ ok /\ seat' = [seat EXCEPT ![s] = "gone"] /\ stack' = [stack EXCEPT ![s] = 0]
              /\ seatMu' = IF seatMu.todo = {s} THEN Free ELSE [seatMu EXCEPT !.todo = @ \ {s}]
           \/ ~ok /\ seatMu' = Free /\ UNCHANGED <<seat, stack>>
        /\ UNCHANGED <<hand, pot, forfeited, settling, settleTimer>>
    BY <1>5 DEF ResetFlush
  <2>2. FlushResult(s, stack[s], ok)
    BY <2>1, FlushPays
  <2>3. payout'[s] # "none" /\ \A t \in Seats \ {s} : payout'[t] = payout[t]
    BY <2>2 DEF FlushResult
  <2>4. /\ seatMu' \in [op : {"free", "reset"}, todo : SUBSET Seats, refund : Nat]
        /\ seatMu'.op = "reset" => ok /\ seatMu'.todo = seatMu.todo \ {s}
    <3>1. CASE seatMu' = Free
      BY <3>1 DEF Free
    <3>2. CASE ok /\ seatMu' = [seatMu EXCEPT !.todo = @ \ {s}]
      BY <2>1, <3>2
    <3> QED BY <2>1, <3>1, <3>2
  <2>5. Types'
    BY <2>1, <2>2, <2>4 DEF FlushResult, Holders, SeatStates
  <2>6. FrozenWhileSettling' /\ Departing'
    BY <2>1, <2>4 DEF FrozenWhileSettling, Departing
  <2>7. RefundsBetweenHands'
    BY <2>1, <2>4 DEF RefundsBetweenHands, AtTable
  <2>8. NothingBehind'
    BY <2>1, <2>3, <2>4 DEF NothingBehind, InFlight, RefundsBetweenHands, AtTable
  <2> QED BY <2>5, <2>6, <2>7, <2>8
<1> QED BY <1>1, <1>2, <1>3, <1>4, <1>5 DEF Close

LEMMA RetryLock == ASSUME LockInv, Retry \/ Recycle PROVE LockInv'
<1> USE DEF LockInv, Types
<1>1. ASSUME NEW S \in SUBSET Queued, RetryPayouts(S) PROVE LockInv'
  <2>1. /\ wallet' = [s \in Seats |-> IF s \in S THEN wallet[s] + due[s] ELSE wallet[s]]
        /\ payout' = [s \in Seats |-> IF s \in S THEN "paid" ELSE payout[s]]
        /\ due' = [s \in Seats |-> IF s \in S THEN 0 ELSE due[s]]
        /\ payoutTimer' \in BOOLEAN
        /\ UNCHANGED <<seat, stack, hand, pot, forfeited, seatMu, settling, settleTimer>>
    BY <1>1 DEF RetryPayouts, engine
  <2>2. \A s \in S : s \in Seats /\ payout[s] = "queued"
    BY DEF Queued
  <2>3. Types'
    BY <2>1 DEF PayStates
  <2>4. FrozenWhileSettling' /\ RefundsBetweenHands' /\ Departing'
    BY <2>1 DEF FrozenWhileSettling, RefundsBetweenHands, Departing, AtTable
  <2>5. NothingBehind'
    BY <2>1, <2>2 DEF NothingBehind, InFlight
  <2> QED BY <2>3, <2>4, <2>5
<1>2. CASE Recycle
  <2>1. /\ payoutTimer' \in BOOLEAN /\ (settleTimer' = settleTimer \/ settleTimer' = FALSE)
        /\ UNCHANGED <<seat, stack, hand, pot, forfeited, payout, due, wallet, seatMu, settling>>
    BY <1>2 DEF Recycle, CheckEmpty, CheckUnpaid, Shutdown, engine, money
  <2>2. Types'
    BY <2>1
  <2>3. FrozenWhileSettling' /\ RefundsBetweenHands' /\ Departing' /\ NothingBehind'
    BY <2>1 DEF FrozenWhileSettling, RefundsBetweenHands, Departing, NothingBehind, InFlight, AtTable
  <2> QED BY <2>2, <2>3
<1> QED BY <1>1, <1>2 DEF Retry

LEMMA StutterLock == ASSUME LockInv, UNCHANGED vars PROVE LockInv'
BY DEF vars, engine, money, LockInv, Types, FrozenWhileSettling, RefundsBetweenHands, Departing,
       NothingBehind, InFlight, AtTable

\* Whoever holds seatMu finds the table as it was left, in any room.
LEMMA LockInvariance == Spec => []LockInv
<1>1. LockInv /\ [Next]_vars => LockInv'
  BY SitLock, PlayLock, EndHandLock, DepartLock, CloseLock, RetryLock, StutterLock DEF Next, Play
<1> QED BY <1>1, InitLock, PTL DEF Spec

\* A settlement pays everybody or changes nothing, whatever writes fail and
\* whoever retries: for any number of seats, and even if resets fail.
THEOREM SettlementsAreWhole == Spec => SettlesAllOrNothing
<1> DEFINE Whole == settling => \/ UNCHANGED <<seat, stack>> /\ settling'
                                \/ ~settling' /\ \A s \in AtTable : payout[s] = "paid"
<1>1. ASSUME LockInv, Next PROVE Whole
  <2> SUFFICES ASSUME settling PROVE Whole
    OBVIOUS
  <2>1. ~hand /\ seatMu.op \in {"free", "settle"}
    BY <1>1 DEF LockInv, FrozenWhileSettling
  <2>2. ~Play
    BY <2>1 DEF Play, Sit, StartHand, Bet, EndHand
  <2>3. ~Depart
    BY <2>1 DEF Depart, EvictPlayer, EvictRemove, Spectate, EvictFlush, SpectateFlush
  <2>4. CASE Close
    <3>1. ~Settle /\ ~ResetWithRefunds /\ \A s \in Seats, ok \in BOOLEAN : ~ResetFlush(s, ok)
      BY <2>1 DEF Settle, ResetWithRefunds, ResetFlush
    <3>2. ASSUME NEW ok \in BOOLEAN, SettleFinish(ok) PROVE Whole
      BY <1>1, <3>2 DEF SettleFinish, LockInv, FrozenWhileSettling
    <3> QED BY <2>4, <3>1, <3>2 DEF Close, RetrySettlement, SettleFlush, engine
  <2>5. CASE Retry \/ Recycle
    BY <2>5 DEF Retry, RetryPayouts, Recycle, CheckEmpty, CheckUnpaid, Shutdown, engine
  <2> QED BY <1>1, <2>2, <2>3, <2>4, <2>5 DEF Next
<1>2. LockInv /\ [Next]_vars => [Whole]_vars
  BY <1>1
<1> QED BY <1>2, LockInvariance, PTL DEF Spec, SettlesAllOrNothing

(***************************************************************************)
(* What the table owes.                                                    *)
(***************************************************************************)

\* Who is seated has not been paid, unless a settlement is paying the table.
UnpaidPlay == ~settling => \A s \in Seated : payout[s] = "none"

Fact(s) ==
  /\ Owed(s) \in Nat
  /\ payout[s] = "queued" => Owed(s) = due[s]
  /\ payout[s] = "paid" => Owed(s) = 0
  /\ payout[s] = "none" => Owed(s) = IF InFlight(s) THEN seatMu.refund ELSE stack[s]

LEMMA OwedIs == ASSUME Types PROVE \A s \in Seats : Fact(s)
BY DEF Types, PayStates, Fact, Owed

LEMMA OwedWillBe == ASSUME Types' PROVE \A s \in Seats : Fact(s)'
BY DEF Types, PayStates, Fact, Owed

LEMMA StaysUnpaid ==
  ASSUME ~ResetsFail, LockInv, UnpaidPlay, [Next]_vars
  PROVE  UnpaidPlay'
<1> USE DEF LockInv, Types
<1>1. ASSUME NEW s \in Seats, Sit(s) PROVE UnpaidPlay'
  BY <1>1 DEF Sit, UnpaidPlay, Seated, NothingBehind
<1>2. CASE StartHand \/ (\E s \in Seats : \E k \in 1 .. stack[s] : Bet(s, k))
  BY <1>2 DEF StartHand, Bet, money, UnpaidPlay, Seated
<1>3. CASE EndHand
  BY <1>3 DEF EndHand, money, UnpaidPlay, Seated
<1>4. ASSUME NEW s \in Seats, EvictPlayer(s) \/ EvictRemove(s) \/ Spectate(s) PROVE UnpaidPlay'
  BY <1>4 DEF EvictPlayer, EvictRemove, Spectate, money, UnpaidPlay, Seated
<1>5. ASSUME NEW s \in Seats, NEW ok \in BOOLEAN, EvictFlush(s, ok) \/ SpectateFlush(s, ok)
      PROVE  UnpaidPlay'
  <2>1. /\ s \in seatMu.todo /\ seatMu.op \in {"evict", "spectate"}
        /\ FlushSeat(s, seatMu.refund, ok) /\ seat' = seat /\ settling' = settling
    BY <1>5 DEF EvictFlush, SpectateFlush, engine
  <2>2. \A t \in Seats \ {s} : payout'[t] = payout[t]
    BY <2>1, FlushPays DEF FlushResult
  <2>3. seat[s] # "seated"
    BY <2>1 DEF Departing
  <2> QED BY <2>1, <2>2, <2>3 DEF UnpaidPlay, Seated
<1>6. CASE Settle \/ RetrySettlement \/ ResetWithRefunds
  BY <1>6 DEF Settle, RetrySettlement, ResetWithRefunds, engine, money, UnpaidPlay, Seated
<1>7. ASSUME NEW s \in Seats, NEW ok \in BOOLEAN, SettleFlush(s, ok) PROVE UnpaidPlay'
  BY <1>7 DEF SettleFlush, UnpaidPlay, FrozenWhileSettling
<1>8. ASSUME NEW ok \in BOOLEAN, SettleFinish(ok) PROVE UnpaidPlay'
  BY <1>8 DEF SettleFinish, UnpaidPlay, FrozenWhileSettling, Seated, AtTable
<1>9. ASSUME NEW s \in Seats, NEW ok \in BOOLEAN, ResetFlush(s, ok) PROVE UnpaidPlay'
  <2>1. /\ FlushSeat(s, stack[s], ok) /\ settling' = settling
        /\ seat' = [seat EXCEPT ![s] = "gone"]
    BY <1>9 DEF ResetFlush
  <2>2. \A t \in Seats \ {s} : payout'[t] = payout[t]
    BY <2>1, FlushPays DEF FlushResult
  <2> QED BY <2>1, <2>2 DEF UnpaidPlay, Seated
<1>10. ASSUME NEW S \in SUBSET Queued, RetryPayouts(S) PROVE UnpaidPlay'
  BY <1>10 DEF RetryPayouts, engine, UnpaidPlay, Seated, Queued
<1>11. CASE Recycle
  BY <1>11 DEF Recycle, CheckEmpty, CheckUnpaid, Shutdown, engine, money, UnpaidPlay, Seated
<1>12. CASE UNCHANGED vars
  BY <1>12 DEF vars, engine, money, UnpaidPlay, Seated
<1> QED BY <1>1, <1>2, <1>3, <1>4, <1>5, <1>6, <1>7, <1>8, <1>9, <1>10, <1>11, <1>12
        DEF Next, Play, Depart, Close, Retry

\* A stack that has been refunded, or is about to be, is not played with, unless
\* a reset fails half way.
THEOREM RefundedStandAside == ~ResetsFail => (Spec => []RefundedNeverPlays)
<1> SUFFICES ASSUME ~ResetsFail PROVE Spec => []RefundedNeverPlays
  OBVIOUS
<1>1. Init => UnpaidPlay
  BY DEF Init, UnpaidPlay, Seated
<1>2. LockInv /\ LockInv' /\ UnpaidPlay /\ [Next]_vars => UnpaidPlay'
  BY StaysUnpaid
<1>3. LockInv /\ UnpaidPlay => RefundedNeverPlays
  BY DEF LockInv, FrozenWhileSettling, UnpaidPlay, RefundedNeverPlays
<1> QED BY <1>1, <1>2, <1>3, LockInvariance, PTL DEF Spec

(***************************************************************************)
(* Every step is a step of the ledger.                                     *)
(***************************************************************************)

Book == LockInv /\ UnpaidPlay

\* The step leaves the books of every seat but s as they are.
OthersStay(s) ==
  \A t \in Seats \ {s} : /\ Owed(t)' = Owed(t) /\ InPlay(t)' = InPlay(t)
                         /\ wallet'[t] = wallet[t]
Credits == [s \in Seats |-> Owed(s)]
Opens   == [s \in Seats |-> InPlay(s)]

\* Steps that move no chip but between a wallet and a debt to it.
Settled ==
  /\ \/ UNCHANGED Promise!vars
     \/ \E s \in Seats : Promise!Buy(s) \/ Promise!Close(s)
     \/ \E S \in SUBSET Seats : Promise!Pay(S)
  /\ forfeited' = forfeited

\* One seat at a time: what happens to s alone says which step of the ledger it is.
LEMMA StaysSettled ==
  ASSUME Book, wallet' \in [Seats -> Nat], NEW s \in Seats, OthersStay(s),
         Owed(s)' = Owed(s), InPlay(s)' = InPlay(s), wallet'[s] = wallet[s],
         pot' = pot, forfeited' = forfeited
  PROVE  Settled
<1>1. wallet' = wallet
  BY DEF Book, LockInv, Types, OthersStay
<1>2. \A t \in Seats : Owed(t)' = Owed(t) /\ InPlay(t)' = InPlay(t)
  BY DEF OthersStay
<1>3. UNCHANGED Promise!vars
  BY <1>1, <1>2 DEF Promise!vars
<1> QED BY <1>3 DEF Settled

LEMMA ClosingSettles ==
  ASSUME Book, wallet' \in [Seats -> Nat], NEW s \in Seats, OthersStay(s),
         Owed(s)' = Owed(s), InPlay(s), ~InPlay(s)', wallet'[s] = wallet[s],
         pot' = pot, forfeited' = forfeited
  PROVE  Settled
<1>1. wallet' = wallet
  BY DEF Book, LockInv, Types, OthersStay
<1>2. \A t \in Seats : Owed(t)' = Owed(t)
  BY DEF OthersStay
<1>3. \A t \in Seats : InPlay(t)' = IF t = s THEN FALSE ELSE InPlay(t)
  BY DEF OthersStay, InPlay
<1>4. [t \in Seats |-> InPlay(t)'] = [[t \in Seats |-> InPlay(t)] EXCEPT ![s] = FALSE]
  BY <1>3
<1>5. Promise!Close(s)
  BY <1>1, <1>2, <1>4 DEF Promise!Close
<1> QED BY <1>5 DEF Settled

LEMMA PayingSettles ==
  ASSUME Book, wallet' \in [Seats -> Nat], NEW s \in Seats, OthersStay(s),
         Owed(s)' = 0, ~InPlay(s)', wallet'[s] = wallet[s] + Owed(s),
         pot' = pot, forfeited' = forfeited
  PROVE  Settled
<1>1. wallet' = [t \in Seats |-> IF t \in {s} THEN wallet[t] + Owed(t) ELSE wallet[t]]
  BY DEF Book, LockInv, Types, OthersStay
<1>2. \A t \in Seats : Owed(t)' = IF t \in {s} THEN 0 ELSE Owed(t)
  BY DEF OthersStay
<1>3. \A t \in Seats : InPlay(t)' <=> InPlay(t) /\ t \notin {s}
  BY DEF OthersStay, InPlay
<1>4. Promise!Pay({s})
  BY <1>1, <1>2, <1>3 DEF Promise!Pay, Promise!Seats, Seats, InPlay
<1> QED BY <1>4 DEF Settled

LEMMA SitSettles == ASSUME Book, Types', NEW s \in Seats, Sit(s) PROVE Settled
<1> USE DEF Book, LockInv, Types
<1>1. /\ seatMu.op = "free" /\ seat[s] = "away" /\ wallet[s] >= BuyIn
      /\ wallet' = [wallet EXCEPT ![s] = @ - BuyIn]
      /\ seat' = [seat EXCEPT ![s] = "seated"]
      /\ stack' = [stack EXCEPT ![s] = BuyIn]
      /\ UNCHANGED <<pot, forfeited, payout, due, seatMu>>
  BY DEF Sit, SeatMuFree
<1>2. payout[s] = "none" /\ stack[s] = 0
  BY <1>1 DEF NothingBehind
<1>3. Owed(s) = 0 /\ Owed(s)' = BuyIn
  BY <1>1, <1>2, OwedIs, OwedWillBe DEF Fact, InFlight
<1>4. \A t \in Seats \ {s} : Owed(t)' = Owed(t) /\ InPlay(t)' = InPlay(t)
  BY <1>1 DEF Owed, InFlight, InPlay
<1>5. ~InPlay(s) /\ InPlay(s)'
  BY <1>1, <1>2 DEF InPlay
<1>6. [t \in Seats |-> Owed(t)'] = [[t \in Seats |-> Owed(t)] EXCEPT ![s] = BuyIn]
  BY <1>3, <1>4
<1>7. [t \in Seats |-> InPlay(t)'] = [[t \in Seats |-> InPlay(t)] EXCEPT ![s] = TRUE]
  <2>1. \A t \in Seats : InPlay(t)' = IF t = s THEN TRUE ELSE InPlay(t)
    BY <1>4, <1>5 DEF InPlay
  <2> QED BY <2>1
<1>8. Promise!Buy(s)
  BY <1>1, <1>3, <1>5, <1>6, <1>7 DEF Promise!Buy
<1> QED BY <1>1, <1>8 DEF Settled

\* Between a bet and the pot: Promise!Bet.  The pot's split: Promise!Split.
LEMMA BetIsBet ==
  ASSUME Book, Types', NEW s \in Seats, NEW k \in 1 .. stack[s], Bet(s, k)
  PROVE  /\ k \in 1 .. Owed(s) /\ Promise!Bet(s, k)
         /\ Owed(s)' = Owed(s) - k /\ (\A t \in Seats \ {s} : Owed(t)' = Owed(t))
         /\ wallet' = wallet /\ pot' = pot + k /\ forfeited' = forfeited
<1> USE DEF Book, LockInv, Types
<1>1. /\ hand /\ seat[s] = "seated" /\ k <= stack[s] /\ k \in Nat
      /\ stack' = [stack EXCEPT ![s] = @ - k] /\ pot' = pot + k
      /\ UNCHANGED <<seat, forfeited, payout, due, wallet, seatMu>>
  BY DEF Bet, money
<1>2. payout[s] = "none" /\ ~InFlight(s)
  BY <1>1 DEF FrozenWhileSettling, UnpaidPlay, Seated, Departing, InFlight
<1>3. Owed(s) = stack[s] /\ Owed(s)' = stack[s] - k
  BY <1>1, <1>2, OwedIs, OwedWillBe DEF Fact, InFlight
<1>4. \A t \in Seats \ {s} : Owed(t)' = Owed(t)
  BY <1>1 DEF Owed, InFlight
<1>5. InPlay(s) /\ \A t \in Seats : InPlay(t)' = InPlay(t)
  BY <1>1, <1>2 DEF InPlay
<1>6. [t \in Seats |-> Owed(t)'] = [[t \in Seats |-> Owed(t)] EXCEPT ![s] = @ - k]
  BY <1>3, <1>4
<1>7. Promise!Bet(s, k)
  BY <1>1, <1>3, <1>5, <1>6 DEF Promise!Bet
<1> QED BY <1>1, <1>3, <1>4, <1>7

LEMMA PromiseSum == \A f : Promise!Sum(SeatsGiven, f) = Sum(SeatsGiven, f)
BY DEF Promise!Sum, Sum

SplitTo(won) ==
  /\ won \in [Seated -> 0 .. pot] /\ Total(Seated, won) <= pot
  /\ \A s \in Seats : Owed(s)' = IF s \in Seated THEN Owed(s) + won[s] ELSE Owed(s)
  /\ wallet' = wallet /\ pot' = 0
  /\ forfeited' = forfeited + (pot - Total(Seated, won))

LEMMA EndHandSplits ==
  ASSUME Book, Types', EndHand
  PROVE  Promise!Split /\ \E won \in [Seated -> 0 .. pot] : SplitTo(won)
<1> USE DEF Book, LockInv, Types
<1>1. PICK won \in [Seated -> 0 .. pot] :
        /\ Total(Seated, won) <= pot
        /\ stack' = [s \in Seats |-> IF s \in Seated THEN stack[s] + won[s] ELSE 0]
        /\ forfeited' = forfeited + (pot - Total(Seated, won))
  BY DEF EndHand
<1>2. /\ hand /\ seat' = [s \in Seats |-> IF seat[s] = "left" THEN "gone" ELSE seat[s]]
      /\ pot' = 0 /\ UNCHANGED <<payout, due, wallet, seatMu>>
  BY DEF EndHand, money
<1>3. \A s \in Seats : (s \in Seated <=> InPlay(s)) /\ InPlay(s)' = InPlay(s)
  BY <1>2 DEF FrozenWhileSettling, UnpaidPlay, Seated, InPlay
<1>4. \A s \in Seats : Owed(s)' = IF s \in Seated THEN Owed(s) + won[s] ELSE Owed(s)
  <2> SUFFICES ASSUME NEW s \in Seats
               PROVE  Owed(s)' = IF s \in Seated THEN Owed(s) + won[s] ELSE Owed(s)
    OBVIOUS
  <2>1. Fact(s) /\ Fact(s)'
    BY OwedIs, OwedWillBe
  <2>2. InFlight(s)' = InFlight(s)
    BY <1>2 DEF InFlight
  <2>3. CASE s \in Seated
    <3>1. payout[s] = "none" /\ ~InFlight(s)
      BY <1>2, <2>3 DEF FrozenWhileSettling, UnpaidPlay, Seated, Departing, InFlight
    <3> QED BY <1>1, <1>2, <2>1, <2>2, <2>3, <3>1 DEF Fact
  <2>4. CASE s \notin Seated
    <3>1. payout[s] # "none" \/ InFlight(s) \/ stack[s] = 0
      BY <2>4 DEF NothingBehind, Seated, SeatStates
    <3>2. stack'[s] = 0
      BY <1>1, <2>4
    <3> QED BY <1>2, <2>1, <2>2, <2>4, <3>1, <3>2 DEF Fact, PayStates
  <2> QED BY <2>3, <2>4
<1>5. Promise!Split
  <2>1. [s \in Seats |-> Owed(s)'] =
          [s \in Seats |-> IF InPlay(s) THEN Owed(s) + won[s] ELSE Owed(s)]
    BY <1>3, <1>4
  <2>2. [s \in Seats |-> InPlay(s)'] = [s \in Seats |-> InPlay(s)]
    BY <1>3
  <2>3. {s \in Seats : InPlay(s)} = Seated
    BY <1>3 DEF Seated
  <2>4. Sum(SeatsGiven, [s \in Seats |-> IF InPlay(s) THEN won[s] ELSE 0]) <= pot
    <3>1. [s \in Seats |-> IF InPlay(s) THEN won[s] ELSE 0] =
            [s \in Seats |-> IF s \in Seated THEN won[s] ELSE 0]
      BY <1>3
    <3> QED BY <1>1, <3>1 DEF Total
  <2> HIDE DEF Book
  <2>5. [s \in Promise!Seats |-> IF Opens[s] THEN won[s] ELSE 0] =
          [s \in Seats |-> IF InPlay(s) THEN won[s] ELSE 0]
    BY DEF Promise!Seats, Seats, Opens
  <2>6. {s \in Promise!Seats : Opens[s]} = Seated
    BY <2>3 DEF Promise!Seats, Seats, Opens
  <2>7. [s \in Seats |-> Owed(s)'] =
          [s \in Promise!Seats |-> IF Opens[s] THEN Credits[s] + won[s] ELSE Credits[s]]
    BY <2>1 DEF Promise!Seats, Seats, Opens, Credits
  <2>8. Promise!Sum(SeatsGiven, [s \in Promise!Seats |-> IF Opens[s] THEN won[s] ELSE 0]) <= pot
    BY <2>4, <2>5, PromiseSum
  <2> QED BY <1>1, <1>2, <2>2, <2>6, <2>7, <2>8 DEF Promise!Split, Opens, Credits
<1> QED BY <1>1, <1>2, <1>4, <1>5 DEF SplitTo

LEMMA HandSettles == ASSUME Book, Types', StartHand PROVE Settled
<1>1. /\ UNCHANGED <<seat, stack, payout, due, wallet, seatMu, pot, forfeited>>
  BY DEF StartHand, money
<1>2. \A s \in Seats : Owed(s)' = Owed(s) /\ InPlay(s)' = InPlay(s)
  BY <1>1 DEF Owed, InFlight, InPlay
<1>3. UNCHANGED Promise!vars
  BY <1>1, <1>2 DEF Promise!vars
<1> QED BY <1>1, <1>3 DEF Settled

LEMMA FlushOthers ==
  ASSUME NEW s \in Seats, NEW amt, NEW ok, FlushResult(s, amt, ok),
         \A t \in Seats \ {s} : /\ seat'[t] = seat[t] /\ stack'[t] = stack[t]
                                /\ ~InFlight(t) /\ ~InFlight(t)'
  PROVE  OthersStay(s)
<1> SUFFICES ASSUME NEW t \in Seats \ {s}
             PROVE  Owed(t)' = Owed(t) /\ InPlay(t)' = InPlay(t) /\ wallet'[t] = wallet[t]
  BY DEF OthersStay
<1>1. /\ payout'[t] = payout[t] /\ due'[t] = due[t] /\ wallet'[t] = wallet[t]
      /\ seat'[t] = seat[t] /\ stack'[t] = stack[t] /\ ~InFlight(t) /\ ~InFlight(t)'
  BY DEF FlushResult
<1>2. InPlay(t)' = InPlay(t)
  BY <1>1 DEF InPlay
<1>3. Owed(t)' = Owed(t)
  BY <1>1 DEF Owed
<1> QED BY <1>1, <1>2, <1>3

LEMMA DepartSettles == ASSUME Book, Types', Depart PROVE Settled
<1> USE DEF Book, LockInv, Types
<1>1. ASSUME NEW s \in Seats, EvictPlayer(s) \/ Spectate(s) PROVE Settled
  <2>1. /\ seatMu.op = "free" /\ ~settling /\ seat[s] = "seated" /\ seat'[s] # "seated"
        /\ seatMu'.op \in {"evict", "spectate"} /\ seatMu'.todo = {s} /\ seatMu'.refund = stack[s]
        /\ \A t \in Seats \ {s} : seat'[t] = seat[t] /\ stack'[t] = stack[t]
        /\ UNCHANGED <<pot, forfeited, payout, due, wallet>>
    BY <1>1 DEF EvictPlayer, Spectate, SeatMuFree, money
  <2>2. payout[s] = "none"
    BY <2>1 DEF UnpaidPlay, Seated
  <2>3. InPlay(s) /\ ~InPlay(s)'
    BY <2>1, <2>2 DEF InPlay
  <2>4. Owed(s)' = Owed(s)
    BY <2>1, <2>2, OwedIs, OwedWillBe DEF Fact, InFlight
  <2>5. OthersStay(s)
    BY <2>1 DEF OthersStay, Owed, InFlight, InPlay
  <2> HIDE DEF Book
  <2> QED BY <2>1, <2>3, <2>4, <2>5, ClosingSettles
<1>2. ASSUME NEW s \in Seats, NEW ok \in BOOLEAN, EvictFlush(s, ok) \/ SpectateFlush(s, ok)
      PROVE  Settled
  <2>1. /\ s \in seatMu.todo /\ seatMu.op \in {"evict", "spectate"}
        /\ seatMu'.op \in {"evicted", "free"}
        /\ FlushSeat(s, seatMu.refund, ok)
        /\ UNCHANGED <<seat, stack, pot, forfeited>>
    BY <1>2 DEF EvictFlush, SpectateFlush, engine, Free
  <2>2. FlushResult(s, seatMu.refund, ok)
    BY <2>1, FlushPays
  <2>3. \A t \in Seats : ~InFlight(t)' /\ (t # s => ~InFlight(t))
    BY <2>1 DEF InFlight, Departing
  <2>4. OthersStay(s)
    BY <2>1, <2>2, <2>3, FlushOthers
  <2>5. InPlay(s) = FALSE /\ InPlay(s)' = FALSE
    BY <2>1 DEF InPlay, Departing
  <2>6. InFlight(s) /\ Fact(s) /\ Fact(s)'
    BY <2>1, OwedIs, OwedWillBe DEF InFlight
  <2>7. \/ Owed(s)' = 0 /\ wallet'[s] = wallet[s] + Owed(s)
        \/ Owed(s)' = Owed(s) /\ wallet'[s] = wallet[s]
    BY <2>2, <2>6 DEF FlushResult, Fact, PayStates
  <2>8. wallet' \in [Seats -> Nat] /\ pot' = pot /\ forfeited' = forfeited
    BY <2>1
  <2> HIDE DEF Book, LockInv, Types
  <2>9. CASE Owed(s)' = Owed(s) /\ wallet'[s] = wallet[s]
    BY <2>4, <2>5, <2>8, <2>9, StaysSettled
  <2>10. CASE Owed(s)' = 0 /\ wallet'[s] = wallet[s] + Owed(s)
    BY <2>4, <2>5, <2>8, <2>10, PayingSettles
  <2> QED BY <2>7, <2>9, <2>10
<1>3. ASSUME NEW s \in Seats, EvictRemove(s) PROVE Settled
  <2>1. /\ seatMu.op = "evicted" /\ s \in seatMu.todo /\ seatMu'.op = "free"
        /\ seat[s] # "seated" /\ seat'[s] # "seated" /\ payout[s] # "none"
        /\ \A t \in Seats \ {s} : seat'[t] = seat[t] /\ stack'[t] = stack[t]
        /\ UNCHANGED <<pot, forfeited, payout, due, wallet>>
    BY <1>3 DEF EvictRemove, money, Free, Departing
  <2>2. OthersStay(s)
    BY <2>1 DEF OthersStay, Owed, InFlight, InPlay
  <2>3. Owed(s)' = Owed(s)
    BY <2>1, OwedIs, OwedWillBe DEF Fact, PayStates
  <2>4. InPlay(s)' = InPlay(s)
    BY <2>1 DEF InPlay
  <2> HIDE DEF Book
  <2> QED BY <2>1, <2>2, <2>3, <2>4, StaysSettled
<1> QED BY <1>1, <1>2, <1>3 DEF Depart

LEMMA TableFlushSettles ==
  ASSUME Book, Types', NEW s \in Seats, NEW ok \in BOOLEAN, FlushResult(s, stack[s], ok),
         seatMu.op \notin {"evict", "spectate"}, seatMu'.op \notin {"evict", "spectate"},
         \A t \in Seats \ {s} : seat'[t] = seat[t] /\ stack'[t] = stack[t],
         pot' = pot, forfeited' = forfeited
  PROVE  Settled
<1> USE DEF Book, LockInv, Types
<1>1. \A t \in Seats : ~InFlight(t) /\ ~InFlight(t)'
  BY DEF InFlight
<1>2. OthersStay(s)
  BY <1>1, FlushOthers
<1>3. Fact(s) /\ Fact(s)' /\ wallet' \in [Seats -> Nat]
  BY OwedIs, OwedWillBe
<1>4. InPlay(s)' = FALSE /\ InPlay(s) \in BOOLEAN
  BY DEF InPlay, FlushResult
<1>5. \/ Owed(s)' = 0 /\ wallet'[s] = wallet[s] + Owed(s)
      \/ Owed(s)' = Owed(s) /\ wallet'[s] = wallet[s]
  BY <1>1, <1>3 DEF FlushResult, Fact, PayStates
<1> HIDE DEF Book, LockInv, Types
<1>6. CASE Owed(s)' = 0 /\ wallet'[s] = wallet[s] + Owed(s)
  BY <1>2, <1>3, <1>4, <1>6, PayingSettles
<1>7. CASE Owed(s)' = Owed(s) /\ wallet'[s] = wallet[s]
  <2>1. CASE InPlay(s)
    BY <1>2, <1>3, <1>4, <1>7, <2>1, ClosingSettles
  <2>2. CASE ~InPlay(s)
    <3>1. InPlay(s)' = InPlay(s)
      BY <1>4, <2>2
    <3> QED BY <1>2, <1>3, <1>7, <3>1, StaysSettled
  <2> QED BY <2>1, <2>2
<1> QED BY <1>5, <1>6, <1>7

\* Nothing but locks, timers and flags changes.
LEMMA IdleSettles ==
  ASSUME \/ seatMu.op \notin {"evict", "spectate"} /\ seatMu'.op \notin {"evict", "spectate"}
         \/ seatMu' = seatMu,
         UNCHANGED <<seat, stack, pot, forfeited, payout, due, wallet>>
  PROVE  Settled
<1>1. \A s \in Seats : Owed(s)' = Owed(s) /\ InPlay(s)' = InPlay(s)
  BY DEF Owed, InFlight, InPlay
<1>2. UNCHANGED Promise!vars
  BY <1>1 DEF Promise!vars
<1> QED BY <1>2 DEF Settled

LEMMA CloseSettles == ASSUME ~ResetsFail, Book, Types', Close PROVE Settled
<1>1. CASE Settle \/ RetrySettlement \/ ResetWithRefunds
  BY <1>1, IdleSettles DEF Settle, RetrySettlement, ResetWithRefunds, SeatMuFree, engine, money
<1>2. ASSUME NEW s \in Seats, NEW ok \in BOOLEAN, SettleFlush(s, ok) PROVE Settled
  <2>1. /\ seatMu.op = "settle" /\ seatMu'.op \in {"settle", "free"}
        /\ FlushSeat(s, stack[s], ok) /\ UNCHANGED <<seat, stack, pot, forfeited>>
    BY <1>2 DEF SettleFlush, engine, Free, Book, LockInv, Types
  <2>2. FlushResult(s, stack[s], ok)
    BY <2>1, FlushPays DEF Book, LockInv, Types
  <2> QED BY <2>1, <2>2, TableFlushSettles
<1>3. ASSUME NEW s \in Seats, NEW ok \in BOOLEAN, ResetFlush(s, ok) PROVE Settled
  <2>1. /\ seatMu.op = "reset" /\ seatMu'.op \in {"reset", "free"} /\ FlushSeat(s, stack[s], ok)
        /\ \A t \in Seats \ {s} : seat'[t] = seat[t] /\ stack'[t] = stack[t]
        /\ UNCHANGED <<pot, forfeited>>
    BY <1>3 DEF ResetFlush, Free, Book, LockInv, Types
  <2>2. FlushResult(s, stack[s], ok)
    BY <2>1, FlushPays DEF Book, LockInv, Types
  <2> QED BY <2>1, <2>2, TableFlushSettles
<1>4. ASSUME NEW ok \in BOOLEAN, SettleFinish(ok) PROVE Settled
  <2>1. /\ seatMu.op = "settle" /\ seatMu.todo = {} /\ seatMu'.op = "free"
        /\ UNCHANGED <<pot, forfeited, payout, due, wallet>>
    BY <1>4 DEF SettleFinish, money, Free
  <2>2. CASE UNCHANGED <<seat, stack>>
    BY <2>1, <2>2, IdleSettles
  <2>3. CASE /\ seat' = [s \in Seats |-> IF s \in AtTable THEN "gone" ELSE seat[s]]
             /\ stack' = [s \in Seats |-> 0]
    <3>1. \A s \in AtTable : payout[s] = "paid"
      BY <2>1 DEF Book, LockInv, FrozenWhileSettling
    <3>2. \A s \in Seats : ~InFlight(s) /\ ~InFlight(s)'
      BY <2>1 DEF InFlight
    <3>3. \A s \in Seats : stack[s] = 0 \/ payout[s] = "paid"
      BY <3>1 DEF Book, LockInv, Types, NothingBehind, AtTable, SeatStates
    <3>4. \A s \in Seats : Owed(s)' = Owed(s)
      BY <2>1, <2>3, <3>2, <3>3 DEF Owed
    <3>5. \A s \in Seats : InPlay(s)' = InPlay(s)
      BY <2>1, <2>3, <3>1 DEF InPlay, AtTable
    <3>6. UNCHANGED Promise!vars
      BY <2>1, <3>4, <3>5 DEF Promise!vars
    <3> QED BY <2>1, <3>6 DEF Settled
  <2> QED BY <1>4, <2>2, <2>3 DEF SettleFinish
<1> QED BY <1>1, <1>2, <1>3, <1>4 DEF Close

LEMMA RetrySettles == ASSUME Book, Types', Retry PROVE Settled
<1>1. PICK S \in SUBSET Queued : RetryPayouts(S)
  BY DEF Retry
<1>2. /\ wallet' = [s \in Seats |-> IF s \in S THEN wallet[s] + due[s] ELSE wallet[s]]
      /\ payout' = [s \in Seats |-> IF s \in S THEN "paid" ELSE payout[s]]
      /\ due' = [s \in Seats |-> IF s \in S THEN 0 ELSE due[s]]
      /\ UNCHANGED <<seat, stack, pot, forfeited, seatMu>>
  BY <1>1 DEF RetryPayouts, engine
<1>3. \A s \in S : s \in Seats /\ payout[s] = "queued"
  BY DEF Queued
<1>4. \A s \in Seats : Fact(s) /\ Fact(s)'
  BY OwedIs, OwedWillBe DEF Book, LockInv
<1>5. \A s \in Seats : Owed(s)' = IF s \in S THEN 0 ELSE Owed(s)
  <2> SUFFICES ASSUME NEW s \in Seats PROVE Owed(s)' = IF s \in S THEN 0 ELSE Owed(s)
    OBVIOUS
  <2>1. CASE s \in S
    BY <1>2, <1>4, <2>1 DEF Fact
  <2>2. CASE s \notin S
    <3>1. payout'[s] = payout[s] /\ due'[s] = due[s] /\ stack' = stack /\ seatMu' = seatMu
      BY <1>2, <2>2
    <3>2. InFlight(s)' = InFlight(s) /\ payout[s] \in PayStates
      BY <3>1 DEF InFlight, Book, LockInv, Types
    <3> QED BY <1>4, <2>2, <3>1, <3>2 DEF Fact, PayStates
  <2> QED BY <2>1, <2>2
<1>6. \A s \in Seats : InPlay(s)' = (InPlay(s) /\ s \notin S)
  BY <1>2, <1>3 DEF InPlay
<1>7. wallet' = [s \in Seats |-> IF s \in S THEN wallet[s] + Owed(s) ELSE wallet[s]]
  <2>1. \A s \in S : Owed(s) = due[s]
    BY <1>3, <1>4 DEF Fact
  <2> QED BY <1>2, <2>1
<1>8. Promise!Pay(S)
  BY <1>2, <1>5, <1>6, <1>7 DEF Promise!Pay, Promise!Seats, Seats
<1>9. S \in SUBSET Seats
  BY <1>3
<1> QED BY <1>2, <1>8, <1>9 DEF Settled

LEMMA RecycleSettles == ASSUME Recycle \/ UNCHANGED vars PROVE Settled
BY IdleSettles DEF Recycle, CheckEmpty, CheckUnpaid, Shutdown, vars, engine, money

\* What a step does to the chips.
LEMMA StepsOfTheBook ==
  ASSUME ~ResetsFail, Book, Types', [Next]_vars
  PROVE  \/ Settled
         \/ \E s \in Seats : \E k \in 1 .. stack[s] : Bet(s, k)
         \/ EndHand
BY SitSettles, HandSettles, DepartSettles, CloseSettles, RetrySettles, RecycleSettles DEF Next, Play

\* Every payout is of the exact amount, and made once: the table does what the
\* ledger promises the accounts, unless a reset fails half way.
THEOREM TableKeepsTheLedger == ~ResetsFail => (Spec => ImplementsLedger)
<1> SUFFICES ASSUME ~ResetsFail PROVE Spec => ImplementsLedger
  OBVIOUS
<1>1. Init => UnpaidPlay
  BY DEF Init, UnpaidPlay, Seated
<1>2. LockInv /\ UnpaidPlay /\ [Next]_vars => UnpaidPlay'
  BY StaysUnpaid
<1>3. Init => Promise!Init
  <2> SUFFICES ASSUME Init PROVE Promise!Init
    OBVIOUS
  <2>1. \A s \in Seats : Owed(s) = 0 /\ InPlay(s) = FALSE
    BY DEF Init, Owed, InPlay, InFlight, Free
  <2> QED BY <2>1 DEF Init, Promise!Init, Promise!Seats, Seats
<1>4. ASSUME LockInv, UnpaidPlay, LockInv', [Next]_vars PROVE [Promise!Next]_(Promise!vars)
  <2>1. Book /\ Types'
    BY <1>4 DEF Book, LockInv
  <2>2. CASE Settled
    BY <2>2 DEF Settled, Promise!Next, Promise!Seats, Seats
  <2>3. ASSUME NEW s \in Seats, NEW k \in 1 .. stack[s], Bet(s, k)
        PROVE  [Promise!Next]_(Promise!vars)
    <3>1. k \in 1 .. Owed(s) /\ Promise!Bet(s, k)
      BY <2>1, <2>3, BetIsBet
    <3> QED BY <3>1 DEF Promise!Next, Promise!Seats, Seats
  <2>4. CASE EndHand
    BY <2>1, <2>4, EndHandSplits DEF Promise!Next
  <2> QED BY <1>4, <2>1, <2>2, <2>3, <2>4, StepsOfTheBook
<1> QED BY <1>1, <1>2, <1>3, <1>4, LockInvariance, PTL DEF Spec, ImplementsLedger, Promise!Spec

\* A step of the ledger moves chips of one account between its wallet and its debt.
LEMMA SettledKeepsAccounts ==
  ASSUME Book, Types', Settled
  PROVE  /\ \A t \in Seats : wallet'[t] + Owed(t)' = wallet[t] + Owed(t)
         /\ pot' = pot /\ forfeited' = forfeited
<1> USE DEF Book, LockInv, Types
<1>1. wallet \in [Seats -> Nat] /\ \A t \in Seats : Owed(t) \in Nat /\ Owed(t)' \in Nat
  BY OwedIs, OwedWillBe DEF Fact
<1> HIDE DEF Book, LockInv, Types
<1>2. CASE UNCHANGED Promise!vars
  <2>1. wallet' = wallet /\ pot' = pot /\ Credits' = Credits
    BY <1>2 DEF Promise!vars, Credits
  <2>2. \A t \in Seats : Credits'[t] = Owed(t)' /\ Credits[t] = Owed(t)
    BY DEF Credits
  <2> QED BY <2>1, <2>2 DEF Settled
<1>3. ASSUME NEW s \in Seats, Promise!Buy(s) \/ Promise!Close(s)
      PROVE  pot' = pot /\ \A t \in Seats : wallet'[t] + Owed(t)' = wallet[t] + Owed(t)
  <2>1. \A t \in Seats : Credits'[t] = Owed(t)' /\ Credits[t] = Owed(t)
    BY DEF Credits
  <2>2. CASE Promise!Buy(s)
    <3>1. /\ Credits[s] = 0 /\ wallet' = [wallet EXCEPT ![s] = @ - BuyIn]
          /\ Credits' = [Credits EXCEPT ![s] = BuyIn] /\ pot' = pot
      BY <2>2 DEF Promise!Buy, Credits
    <3>2. DOMAIN Credits = Seats /\ BuyIn \in Nat
      BY PayoutsAssumption DEF Credits
    <3> HIDE DEF Credits
    <3>3. wallet'[s] = wallet[s] - BuyIn /\ Credits'[s] = BuyIn
      BY <1>1, <3>1, <3>2
    <3>4. \A t \in Seats \ {s} : wallet'[t] = wallet[t] /\ Credits'[t] = Credits[t]
      BY <1>1, <3>1, <3>2
    <3>5. \A t \in Seats : wallet'[t] + Credits'[t] = wallet[t] + Credits[t]
      BY <1>1, <3>1, <3>2, <3>3, <3>4
    <3> QED BY <2>1, <3>1, <3>5
  <2>3. CASE Promise!Close(s)
    <3>1. Credits' = Credits /\ wallet' = wallet /\ pot' = pot
      BY <2>3 DEF Promise!Close, Credits
    <3> QED BY <2>1, <3>1
  <2> QED BY <1>3, <2>2, <2>3
<1>4. ASSUME NEW S \in SUBSET Seats, Promise!Pay(S)
      PROVE  pot' = pot /\ \A t \in Seats : wallet'[t] + Owed(t)' = wallet[t] + Owed(t)
  <2>1. \A t \in Seats : Credits'[t] = Owed(t)' /\ Credits[t] = Owed(t)
    BY DEF Credits
  <2>2. /\ wallet' = [t \in Seats |-> IF t \in S THEN wallet[t] + Credits[t] ELSE wallet[t]]
        /\ Credits' = [t \in Seats |-> IF t \in S THEN 0 ELSE Credits[t]] /\ pot' = pot
    BY <1>4 DEF Promise!Pay, Promise!Seats, Seats, Credits
  <2>3. \A t \in Seats : wallet'[t] + Credits'[t] = wallet[t] + Credits[t]
    BY <1>1, <2>1, <2>2
  <2> QED BY <2>1, <2>2, <2>3
<1> QED BY <1>2, <1>3, <1>4 DEF Settled

(***************************************************************************)
(* No chip is created or lost.                                             *)
(***************************************************************************)

Account(s) == wallet[s] + Owed(s)
Accounts   == Sum(SeatsGiven, [s \in Seats |-> Account(s)])

LEMMA AccountsAre ==
  ASSUME Types
  PROVE  (\A s \in Seats : Account(s) \in Nat) /\ Accounts \in Nat
<1>1. \A s \in Seats : Account(s) \in Nat
  BY OwedIs DEF Types, Fact, Account
<1>2. \A s \in 0 .. SeatsGiven - 1 : [t \in Seats |-> Account(t)][s] \in Nat
  BY <1>1 DEF Seats
<1>3. Accounts \in Nat
  BY <1>2, SumNat, PayoutsAssumption DEF Accounts
<1> QED BY <1>1, <1>3

\* Adding g to the accounts adds the sum of g to their sum.
LEMMA AccountsAdd ==
  ASSUME Types, Types', NEW g, \A s \in Seats : g[s] \in Int /\ Account(s)' = Account(s) + g[s]
  PROVE  Accounts' = Accounts + Sum(SeatsGiven, g)
<1> DEFINE f == [s \in Seats |-> Account(s)]
           h == [s \in Seats |-> Account(s)']
<1>1. \A s \in Seats : f[s] \in Int /\ g[s] \in Int /\ h[s] = f[s] + g[s]
  BY AccountsAre
<1> HIDE DEF f, h
<1>2. Sum(SeatsGiven, h) = Sum(SeatsGiven, f) + Sum(SeatsGiven, g)
  BY <1>1, SumAdd, PayoutsAssumption DEF Seats
<1> QED BY <1>2 DEF Accounts, f, h

\* No chip is created or lost, whatever writes fail, are retried or overtaken,
\* unless a reset fails half way: for any number of seats and any buy-in.
THEOREM ChipsStay == ~ResetsFail => (Spec => []ChipsKept)
<1> SUFFICES ASSUME ~ResetsFail PROVE Spec => []ChipsKept
  OBVIOUS
<1>1. ChipsKept <=> Accounts + pot + forfeited = SeatsGiven * BuyIn
  BY DEF ChipsKept, Accounts, Account
<1>2. Init => UnpaidPlay /\ ChipsKept
  <2> SUFFICES ASSUME Init PROVE UnpaidPlay /\ ChipsKept
    OBVIOUS
  <2>1. UnpaidPlay
    BY DEF Init, UnpaidPlay, Seated
  <2>2. \A s \in Seats : [t \in Seats |-> Account(t)][s] = IF s \in Seats THEN BuyIn ELSE 0
    <3>1. \A s \in Seats : wallet[s] = BuyIn /\ Owed(s) = 0
      BY DEF Init, Owed, InFlight, Free
    <3> QED BY <3>1, PayoutsAssumption DEF Account
  <2>3. Accounts = BuyIn * Cardinality(Seats)
    BY <2>2, SumConst, PayoutsAssumption DEF Seats, Accounts
  <2>4. Cardinality(Seats) = SeatsGiven
    BY FS_Interval, PayoutsAssumption DEF Seats
  <2>5. pot = 0 /\ forfeited = 0
    BY DEF Init
  <2>6. BuyIn * SeatsGiven = SeatsGiven * BuyIn
    BY PayoutsAssumption
  <2> QED BY <1>1, <2>1, <2>3, <2>4, <2>5, <2>6, PayoutsAssumption
<1>3. LockInv /\ UnpaidPlay /\ [Next]_vars => UnpaidPlay'
  BY StaysUnpaid
<1>4. ASSUME LockInv, LockInv', UnpaidPlay, ChipsKept, [Next]_vars PROVE ChipsKept'
  <2>1. Book /\ Types /\ Types'
    BY <1>4 DEF Book, LockInv
  <2>2. Accounts \in Nat /\ Accounts' \in Nat /\ pot \in Nat /\ forfeited \in Nat
    <3>1. Accounts' \in Nat
      <4>1. \A s \in Seats : Account(s)' \in Nat
        BY <2>1, OwedWillBe DEF Types, Fact, Account
      <4>2. \A s \in 0 .. SeatsGiven - 1 : [t \in Seats |-> Account(t)'][s] \in Nat
        BY <4>1 DEF Seats
      <4> QED BY <4>2, SumNat, PayoutsAssumption DEF Accounts
    <3> QED BY <2>1, <3>1, AccountsAre DEF Types
  <2>3. \A s \in Seats : wallet[s] \in Nat /\ wallet'[s] \in Nat /\ Owed(s) \in Nat /\ Owed(s)' \in Nat
    BY <2>1, OwedIs, OwedWillBe DEF Types, Fact
  <2>4. Accounts + pot + forfeited = SeatsGiven * BuyIn
    BY <1>1, <1>4
  <2>5. SUFFICES Accounts' + pot' + forfeited' = SeatsGiven * BuyIn
    BY DEF ChipsKept, Accounts, Account
  <2>6. CASE Settled
    <3>1. /\ \A t \in Seats : wallet'[t] + Owed(t)' = wallet[t] + Owed(t)
          /\ pot' = pot /\ forfeited' = forfeited
      BY <2>1, <2>6, SettledKeepsAccounts
    <3>2. [s \in Seats |-> Account(s)'] = [s \in Seats |-> Account(s)]
      BY <3>1 DEF Account
    <3>3. Accounts' = Accounts
      BY <3>2 DEF Accounts
    <3> QED BY <2>4, <3>1, <3>3
  <2>7. ASSUME NEW s \in Seats, NEW k \in 1 .. stack[s], Bet(s, k)
        PROVE  Accounts' + pot' + forfeited' = SeatsGiven * BuyIn
    <3> DEFINE g == [t \in Seats |-> IF t = s THEN 0 - k ELSE 0]
               d == [t \in Seats |-> IF t \in {s} THEN k ELSE 0]
    <3>1. /\ Owed(s)' = Owed(s) - k /\ (\A t \in Seats \ {s} : Owed(t)' = Owed(t))
          /\ wallet' = wallet /\ pot' = pot + k /\ forfeited' = forfeited
      BY <2>1, <2>7, BetIsBet
    <3>2. stack[s] \in Nat /\ k \in Nat
      BY <2>1, <2>7 DEF Types
    <3>3. \A t \in Seats : g[t] \in Int /\ Account(t)' = Account(t) + g[t]
      BY <2>3, <3>1, <3>2 DEF Account
    <3>4. Accounts' = Accounts + Sum(SeatsGiven, g)
      <4> HIDE DEF g
      <4> QED BY <2>1, <3>3, AccountsAdd
    <3>5. Sum(SeatsGiven, d) = k
      <4>1. {s} \in SUBSET (0 .. SeatsGiven - 1) /\ Cardinality({s}) = 1
        BY FS_Singleton DEF Seats
      <4>2. \A t \in 0 .. SeatsGiven - 1 : d[t] = IF t \in {s} THEN k ELSE 0
        BY DEF Seats
      <4> HIDE DEF d
      <4>3. Sum(SeatsGiven, d) = k * Cardinality({s})
        BY <3>2, <4>1, <4>2, SumConst, PayoutsAssumption
      <4> QED BY <3>2, <4>1, <4>3
    <3>6. Sum(SeatsGiven, g) + k = 0
      <4> DEFINE z == [t \in Seats |-> 0]
      <4>1. \A t \in Seats : g[t] \in Int /\ d[t] \in Int /\ z[t] = g[t] + d[t] /\ z[t] = 0
        BY <3>2
      <4> HIDE DEF g, d, z
      <4>2. Sum(SeatsGiven, z) = Sum(SeatsGiven, g) + Sum(SeatsGiven, d)
        BY <4>1, SumAdd, PayoutsAssumption DEF Seats
      <4>3. Sum(SeatsGiven, z) = 0
        BY <4>1, SumZeros, PayoutsAssumption DEF Seats
      <4> QED BY <3>5, <4>2, <4>3
    <3>7. Sum(SeatsGiven, g) \in Int
      <4> HIDE DEF g
      <4> QED BY <3>3, SumInt, PayoutsAssumption DEF Seats
    <3> HIDE DEF g, d
    <3>8. Accounts' + pot' = Accounts + pot
      BY <2>2, <3>1, <3>2, <3>4, <3>6, <3>7
    <3> QED BY <2>4, <3>1, <3>8
  <2>8. CASE EndHand
    <3>1. PICK won \in [Seated -> 0 .. pot] : SplitTo(won)
      BY <2>1, <2>8, EndHandSplits
    <3> DEFINE g == [s \in Seats |-> IF s \in Seated THEN won[s] ELSE 0]
    <3>2. \A s \in Seats : g[s] \in Nat
      BY <2>2
    <3>3. \A s \in Seats : Account(s)' = Account(s) + g[s]
      BY <2>2, <2>3, <3>1 DEF SplitTo, Account
    <3>4. Total(Seated, won) = Sum(SeatsGiven, g)
      BY DEF Total
    <3> HIDE DEF g
    <3>5. Accounts' = Accounts + Sum(SeatsGiven, g)
      BY <2>1, <3>2, <3>3, AccountsAdd
    <3>6. Sum(SeatsGiven, g) \in Nat
      BY <3>2, SumNat, PayoutsAssumption DEF Seats
    <3>7. pot' = 0 /\ forfeited' = forfeited + (pot - Sum(SeatsGiven, g))
      BY <3>1, <3>4 DEF SplitTo
    <3> QED BY <2>2, <2>4, <3>5, <3>6, <3>7
  <2> QED BY <1>4, <2>1, <2>6, <2>7, <2>8, StepsOfTheBook
<1> QED BY <1>2, <1>3, <1>4, LockInvariance, PTL DEF Spec
=================================================================================
