--------------------------------- MODULE Ledger ---------------------------------
(***************************************************************************)
(* What a table promises the accounts that buy into it.  An account's      *)
(* chips are in its wallet, in its seat's credit with the table, or in the *)
(* pot.  While a seat is open its credit is at stake; once closed, it is a *)
(* debt of a fixed amount that is paid in full and once.                   *)
(***************************************************************************)
EXTENDS Sums

CONSTANTS
  SeatsGiven,   \* seats taken in the life of a table: one for every time somebody sits down
  BuyIn         \* what taking a seat costs

Seats == 0 .. SeatsGiven - 1

VARIABLES
  wallet,   \* chips of the account that takes the seat
  credit,   \* chips the table owes that account
  open,     \* is the seat in play?
  pot       \* chips bet in the hand that runs

vars == <<wallet, credit, open, pot>>

Init ==
  /\ wallet = [s \in Seats |-> BuyIn]
  /\ credit = [s \in Seats |-> 0]
  /\ open = [s \in Seats |-> FALSE]
  /\ pot = 0

Buy(s) ==
  /\ ~open[s] /\ credit[s] = 0 /\ wallet[s] >= BuyIn
  /\ wallet' = [wallet EXCEPT ![s] = @ - BuyIn]
  /\ credit' = [credit EXCEPT ![s] = BuyIn]
  /\ open' = [open EXCEPT ![s] = TRUE]
  /\ UNCHANGED pot

Bet(s, k) ==
  /\ open[s] /\ k <= credit[s]
  /\ credit' = [credit EXCEPT ![s] = @ - k]
  /\ pot' = pot + k
  /\ UNCHANGED <<wallet, open>>

\* The pot is split among the seats in play; the share of whoever left is lost.
Split ==
  /\ \E won \in [{s \in Seats : open[s]} -> 0 .. pot] :
       /\ Sum(SeatsGiven, [s \in Seats |-> IF open[s] THEN won[s] ELSE 0]) <= pot
       /\ credit' = [s \in Seats |-> IF open[s] THEN credit[s] + won[s] ELSE credit[s]]
  /\ pot' = 0
  /\ UNCHANGED <<wallet, open>>

Close(s) ==
  /\ open[s]
  /\ open' = [open EXCEPT ![s] = FALSE]
  /\ UNCHANGED <<wallet, credit, pot>>

\* A debt is paid in full; paying an open seat closes it.
Pay(S) ==
  /\ wallet' = [s \in Seats |-> IF s \in S THEN wallet[s] + credit[s] ELSE wallet[s]]
  /\ credit' = [s \in Seats |-> IF s \in S THEN 0 ELSE credit[s]]
  /\ open' = [s \in Seats |-> open[s] /\ s \notin S]
  /\ UNCHANGED pot

Next ==
  \/ \E s \in Seats : Buy(s) \/ Close(s)
  \/ \E s \in Seats : \E k \in 1 .. credit[s] : Bet(s, k)
  \/ Split
  \/ \E S \in SUBSET Seats : Pay(S)

Spec == Init /\ [][Next]_vars
=================================================================================
