-------------------------------- MODULE Seating ---------------------------------
(***************************************************************************)
(* Who sits where, at the table and on the pages of the players: seats,    *)
(* claims for the next hand (reserve.go), readiness, and the wish to watch *)
(* (toggleSpectate), with the buttons that Seat.tsx, RoomDock.tsx,         *)
(* RoomMenu.tsx and Rebuy.tsx offer for them.                              *)
(*                                                                         *)
(* A hand is run by another module: here it ends with some of its players  *)
(* without chips.  Chips are counted in buy-ins.  A page shows the table   *)
(* as it is, and what is clicked on it is served some time later; each     *)
(* lock of the server is held for one step, so that what advanceGame does  *)
(* after a hand, and the check and the entry of a claim, are steps between *)
(* which others act.                                                       *)
(***************************************************************************)
EXTENDS Naturals, FiniteSets

CONSTANTS
  Accounts,
  First, Second,  \* the accounts that play the first hand
  MaxPlayers,   \* seats
  MaxBuy,       \* buy-ins an account has in a session
  Moves         \* bound: clicks, departures and lost connections

\* Two buy-ins at least, as one of the players has made a rebuy.
ASSUME SeatingAssumption ==
  /\ MaxPlayers \in Nat \ {0, 1} /\ MaxBuy \in Nat \ {0, 1} /\ Moves \in Nat
  /\ IsFiniteSet(Accounts) /\ {First, Second} \subseteq Accounts /\ First # Second

VARIABLES
  table,    \* see TypeOK
  flagged,  \* accounts whose connection has spectateReserved
  ticked,   \* accounts whose page shows "spectate" as pressed
  click,    \* under way from each page, or what its handler is about to do
  closing,  \* where advanceGame is after a hand
  astray,   \* history: accounts that lost their seat or connection with the wish to watch
  moves

vars == <<table, flagged, ticked, click, closing, astray, moves>>

Seats == 1 .. MaxPlayers
NoClick == <<"none", 0>>

Tables ==
  [stage  : {"ready", "hand", "showdown"},
   seat   : [Accounts -> 0 .. MaxPlayers],    \* 0: not seated
   claim  : [Accounts -> 0 .. MaxPlayers],    \* 0: none
   stack  : [Accounts -> Nat],
   total  : [Accounts -> 0 .. MaxBuy],        \* bought in at this seat
   bought : [Accounts -> 0 .. MaxBuy],        \* bought in this session
   wallet : [Accounts -> Nat],
   ready  : SUBSET Accounts, room : SUBSET Accounts, busted : SUBSET Accounts]

Clicks ==
  {NoClick, <<"spectate", 0>>, <<"ready", 0>>, <<"rebuy", 0>>}
  \union ({"seat", "claim", "move"} \X Seats)

TypeOK ==
  /\ table \in Tables
  /\ flagged \subseteq Accounts /\ ticked \subseteq Accounts /\ astray \subseteq Accounts
  /\ click \in [Accounts -> Clicks]
  /\ closing \in {"done", "spectators", "claims", "start"}
  /\ moves \in 0 .. Moves

Seated(t)   == {a \in Accounts : t.seat[a] # 0}
Taken(t, s) == \E a \in Accounts : t.seat[a] = s
Claimed(t, s) == {a \in Accounts : t.claim[a] = s}
Free(t)     == {s \in Seats : ~Taken(t, s)}
CanBuyIn(t, a) == t.bought[a] < MaxBuy

\* Two play, one after a rebuy; the others have just joined, with money or without.
Init ==
  /\ \E rich \in SUBSET (Accounts \ {First, Second}) :
       LET few == [a \in Accounts |-> IF a \in {First, Second} THEN 1 ELSE 0]
           two == [few EXCEPT ![Second] = 2]
       IN  table = [stage  |-> "hand", seat |-> two, claim |-> [a \in Accounts |-> 0],
                    stack  |-> few, total |-> two, bought |-> two,
                    wallet |-> [a \in Accounts |-> IF a \in rich THEN 1 ELSE few[a]],
                    ready  |-> {First, Second}, room |-> Accounts, busted |-> {}]
  /\ flagged = {} /\ ticked = {} /\ astray = {}
  /\ click = [c \in Accounts |-> NoClick]
  /\ closing = "done" /\ moves = 0

---------------------------------------------------------------------------------
(* The table.                                                              *)

\* seatReservedBy names no other account; of several claims it finds any one.
Named(t, a, s, lucky) == Claimed(t, s) \subseteq {a} \/ (lucky /\ a \in Claimed(t, s))

\* seatHumanLocked, up to the debit.
CanSit(t, a, s, lucky) ==
  /\ t.stage = "ready" /\ t.seat[a] = 0
  /\ s \in Free(t) /\ Named(t, a, s, lucky)
  /\ CanBuyIn(t, a) /\ t.wallet[a] > 0

\* seatHumanLocked, from the debit on: a newcomer is not ready.
Sit(t, a, s) ==
  [t EXCEPT !.seat[a] = s, !.stack[a] = 1, !.total[a] = 1,
            !.wallet[a] = @ - 1, !.bought[a] = @ + 1]

\* What every departure does between hands, here of all of out: the chips go to
\* the wallet, an empty table starts a new session, and at any other nobody is ready.
Unseat(t, out) ==
  LET without(f) == [a \in Accounts |-> IF a \in out THEN 0 ELSE f[a]]
      gone == [t EXCEPT !.seat = without(@), !.stack = without(@), !.total = without(@),
                        !.wallet = [a \in Accounts |->
                                     IF a \in out THEN @[a] + t.stack[a] ELSE @[a]],
                        !.ready = {}]
  IN  IF out = {} THEN t
      ELSE IF Seated(gone) = {}
      THEN [gone EXCEPT !.bought = [a \in Accounts |-> 0], !.busted = {}]
      ELSE gone

\* seatReservedClient: the claimed seat, or the first free one.
SeatFor(t, a) ==
  IF t.claim[a] \in Free(t) THEN t.claim[a]
  ELSE CHOOSE s \in Free(t) \union {MaxPlayers + 1} :
         \A x \in Free(t) \union {MaxPlayers + 1} : s <= x

\* Mutant: a claim is good for its seat alone.
SeatClaimantThereOnly(t, a, lucky) ==
  [(IF a \in t.room /\ CanSit(t, a, t.claim[a], lucky) THEN Sit(t, a, t.claim[a]) ELSE t)
     EXCEPT !.claim[a] = 0]

\* One round of seatReservedPlayers.
SeatClaimant(t, a, lucky) ==
  [(IF a \in t.room /\ CanSit(t, a, SeatFor(t, a), lucky) THEN Sit(t, a, SeatFor(t, a)) ELSE t)
     EXCEPT !.claim[a] = 0]

\* The claims in the order they are taken: the lowest seat first; those to the
\* same seat come in any order.
Orders(t) ==
  LET claimants == {a \in Accounts : t.claim[a] # 0}
  IN  {q \in [1 .. Cardinality(claimants) -> claimants] :
         /\ \A a \in claimants : \E i \in DOMAIN q : q[i] = a
         /\ \A i, j \in DOMAIN q : i < j => t.claim[q[i]] <= t.claim[q[j]]}

\* The table after the first k claims of q, of which some are lucky.
Rounds(t, q, luck, k) ==
  LET after[i \in 0 .. k] == IF i = 0 THEN t ELSE SeatClaimant(after[i - 1], q[i], luck[i])
  IN  after[k]

\* seatReservedPlayers
SeatClaimants(t) ==
  IF t.stage # "ready" THEN {t}
  ELSE UNION {{Rounds(t, q, luck, Cardinality(DOMAIN q)) : luck \in [DOMAIN q -> BOOLEAN]} :
                q \in Orders(t)}

\* autoSpectateBusted, for all at once.
MoveBusted(t) ==
  LET out == {a \in Seated(t) : t.stack[a] = 0 /\ t.total[a] >= MaxBuy}
  IN  IF t.stage # "ready" THEN t
      ELSE [t EXCEPT !.seat  = [a \in Accounts |-> IF a \in out THEN 0 ELSE @[a]],
                     !.total = [a \in Accounts |-> IF a \in out THEN 0 ELSE @[a]],
                     !.ready = @ \ out, !.busted = @ \union out]

\* Mutant: claims are looked at after a hand only.
BroadcastOnly(t) == {MoveBusted(t)}

\* broadcastGame: what the table may be after it.
Broadcast(t) == {MoveBusted(s) : s \in SeatClaimants(t)}

\* autoStartIfReady
AutoStart(t) ==
  IF t.stage = "ready" /\ Cardinality(Seated(t)) > 1 /\ Seated(t) \subseteq t.ready
  THEN [t EXCEPT !.stage = "hand"] ELSE t

\* SettleShowdown: whoever has lost everything makes all of them ready up again.
Settle(t) ==
  [t EXCEPT !.stage = "ready",
            !.ready = IF \E a \in Seated(t) : t.stack[a] = 0 THEN {} ELSE @]

\* handleReserveSeat: may a claim seat s?
CanClaim(t, a, s) ==
  /\ t.seat[a] = 0 /\ s \in Free(t) /\ Claimed(t, s) = {}
  /\ Cardinality(Seated(t)) + Cardinality({b \in Accounts \ {a} : t.claim[b] # 0}) < MaxPlayers
  /\ CanBuyIn(t, a) /\ t.wallet[a] > 0

Cancels(t, a, s, lucky) ==
  t.seat[a] = 0 /\ s \in Free(t) /\ a \in Claimed(t, s) /\ Named(t, a, s, lucky)

\* take-seat succeeds.
Accepts(t, a, s) ==
  IF t.stage = "ready" THEN CanSit(t, a, s, FALSE) ELSE CanClaim(t, a, s) \/ Cancels(t, a, s, FALSE)

---------------------------------------------------------------------------------
(* The page.                                                               *)

\* seatJoinBlockReason
JoinBlocked(a) == a \in table.busted \/ table.wallet[a] = 0

\* A free seat that a spectator can tap; an own claim can be tapped again, here
\* or in the dock.
OffersSeat(a, s) ==
  /\ table.seat[a] = 0 /\ s \in Free(table)
  /\ IF Claimed(table, s) # {} THEN a \in Claimed(table, s) ELSE ~JoinBlocked(a)

\* What the page of a lets its user click.
Offered(a) ==
  {<<"seat", s>> : s \in {x \in Seats : OffersSeat(a, x)}}
  \union
  (IF table.seat[a] = 0 THEN {}
   ELSE {<<"spectate", 0>>}
        \union
        (IF table.stage # "ready" THEN {}
         ELSE (IF table.stack[a] > 0 THEN {<<"ready", 0>>} ELSE {})
              \union (IF table.total[a] < MaxBuy THEN {<<"rebuy", 0>>} ELSE {})
              \union (IF a \in table.ready THEN {}
                      ELSE {<<"move", s>> : s \in {x \in Free(table) : Claimed(table, x) = {}}})))

\* RoomMenu forgets that the button was pressed when its player has no seat; a
\* connection whose player was just moved to the spectators keeps the wish.
Moved(a) == table.seat[a] # 0 /\ table'.seat[a] = 0
Shown(pressed) ==
  /\ ticked' = {a \in pressed : table'.seat[a] # 0}
  /\ astray' = astray \union {a \in flagged' : Moved(a)}

Move == moves < Moves /\ moves' = moves + 1

Click(a) ==
  /\ a \in table.room /\ click[a] = NoClick /\ Move
  /\ \E c \in Offered(a) :
       /\ click' = [click EXCEPT ![a] = c]
       /\ ticked' = IF c # <<"spectate", 0>> THEN ticked
                    ELSE IF a \in ticked THEN ticked \ {a} ELSE ticked \union {a}
  /\ UNCHANGED <<table, flagged, closing, astray>>

---------------------------------------------------------------------------------
(* The handlers.                                                           *)

Rest == UNCHANGED <<closing, moves>>
Served(a) == click' = [click EXCEPT ![a] = NoClick]
Refused == UNCHANGED <<table, flagged, ticked, astray>>

\* handleTakeSeat, up to the entry of a claim.
TakeSeat(a) == \E lucky \in BOOLEAN :
  LET s == click[a][2]
      sits == table.stage = "ready" /\ CanSit(table, a, s, lucky)
      cancels == table.stage # "ready" /\ Cancels(table, a, s, lucky)
      claims == table.stage # "ready" /\ CanClaim(table, a, s)
  IN
  /\ click[a][1] = "seat" /\ Rest
  /\ IF sits \/ cancels
     THEN /\ table' \in Broadcast(IF sits THEN Sit(table, a, s) ELSE [table EXCEPT !.claim[a] = 0])
          /\ Served(a) /\ UNCHANGED flagged /\ Shown(ticked)
     ELSE IF claims
     THEN click' = [click EXCEPT ![a] = <<"claim", s>>] /\ Refused
     ELSE Served(a) /\ Refused

\* handleReserveSeat, the entry of the claim; the hand may be over by now.
EnterClaim(a) ==
  /\ click[a][1] = "claim" /\ Rest
  /\ table' \in Broadcast([table EXCEPT !.claim[a] = click[a][2]])
  /\ Served(a) /\ UNCHANGED flagged /\ Shown(ticked)

\* handleToggleReady
ToggleReady(a) ==
  /\ click[a][1] = "ready" /\ Rest /\ Served(a)
  /\ IF table.stage = "ready" /\ table.seat[a] # 0 /\ (a \in table.ready \/ table.stack[a] > 0)
     THEN /\ table' \in Broadcast(AutoStart(
                 [table EXCEPT !.ready = IF a \in @ THEN @ \ {a} ELSE @ \union {a}]))
          /\ UNCHANGED flagged /\ Shown(ticked)
     ELSE Refused

\* moveSeat
MoveSeat(a) ==
  LET s == click[a][2] IN
  /\ click[a][1] = "move" /\ Rest /\ Served(a)
  /\ IF table.stage = "ready" /\ table.seat[a] # 0 /\ a \notin table.ready /\ s \in Free(table)
     THEN /\ table' \in Broadcast([table EXCEPT !.seat[a] = s])
          /\ UNCHANGED flagged /\ Shown(ticked)
     ELSE Refused

\* handleRebuy, between hands.
Rebuy(a) ==
  /\ click[a][1] = "rebuy" /\ Rest /\ Served(a)
  /\ IF /\ table.stage = "ready" /\ table.seat[a] # 0
        /\ table.total[a] < MaxBuy /\ CanBuyIn(table, a) /\ table.wallet[a] > 0
     THEN /\ table' \in Broadcast(AutoStart(
                 [table EXCEPT !.stack[a] = @ + 1, !.total[a] = @ + 1,
                               !.bought[a] = @ + 1, !.wallet[a] = @ - 1]))
          /\ UNCHANGED flagged /\ Shown(ticked)
     ELSE Refused

\* Mutant: whoever watches already keeps the wish for the next time.
ToggleSpectateAnyway(a) ==
  /\ click[a][1] = "spectate" /\ Rest /\ Served(a)
  /\ flagged' = IF a \in flagged THEN flagged \ {a} ELSE flagged \union {a}
  /\ table' = IF a \notin flagged /\ table.stage = "ready" /\ table.seat[a] # 0
              THEN Unseat(table, {a}) ELSE table
  /\ Shown(ticked)

\* toggleSpectate, which ends with a broadcast.
ToggleSpectate(a) ==
  /\ click[a][1] = "spectate" /\ Rest /\ Served(a)
  /\ IF table.seat[a] = 0 THEN Refused
     ELSE IF a \notin flagged /\ table.stage = "ready"
     THEN /\ table' \in Broadcast(Unseat(table, {a}))
          /\ UNCHANGED flagged /\ Shown(ticked)
     ELSE /\ flagged' = IF a \in flagged THEN flagged \ {a} ELSE flagged \union {a}
          /\ table' \in Broadcast(table) /\ Shown(ticked)

Handle(a) ==
  TakeSeat(a) \/ EnterClaim(a) \/ ToggleReady(a) \/ MoveSeat(a) \/ Rebuy(a) \/ ToggleSpectate(a)

---------------------------------------------------------------------------------
(* Hands.  The engine ends one and pays; then advanceGame closes it.       *)

EndHand ==
  /\ table.stage = "hand"
  /\ \E out \in SUBSET {a \in Seated(table) : a \in table.ready} :
       /\ out # Seated(table)
       /\ table' = [table EXCEPT !.stage = "showdown",
                                 !.stack = [a \in Accounts |-> IF a \in out THEN 0 ELSE @[a]]]
  /\ UNCHANGED <<flagged, ticked, click, closing, astray, moves>>

CloseShowdown ==
  /\ table.stage = "showdown" /\ closing = "done"
  /\ table' = Settle(table) /\ closing' = "spectators"
  /\ UNCHANGED <<flagged, click, moves>> /\ Shown(ticked)

\* applySpectateReservations
ApplySpectateReservations ==
  /\ closing = "spectators" /\ closing' = "claims"
  /\ LET wish == IF table.stage = "ready" THEN flagged \intersect Seated(table) ELSE {} IN
     /\ table' = Unseat(table, wish)
     /\ flagged' = flagged \ wish
  /\ UNCHANGED <<click, moves>> /\ Shown(ticked)

SeatThem ==
  /\ closing = "claims" /\ closing' = "start"
  /\ table' \in SeatClaimants(table)
  /\ UNCHANGED <<flagged, click, moves>> /\ Shown(ticked)

StartNext ==
  /\ closing = "start" /\ closing' = "done"
  /\ table' \in Broadcast(AutoStart(table))
  /\ UNCHANGED <<flagged, click, moves>> /\ Shown(ticked)

---------------------------------------------------------------------------------
(* Coming and going.  A player leaves between hands only here, and nobody  *)
(* while advanceGame closes a hand.                                        *)

\* handleLeaveTable and unregisterClient; the connection keeps its wish.
Leave(a) ==
  /\ a \in table.room /\ click[a] = NoClick /\ closing = "done" /\ Move
  /\ table.seat[a] # 0 => table.stage = "ready"
  /\ \E t \in Broadcast(IF table.seat[a] # 0 THEN Unseat(table, {a}) ELSE table) :
       table' = [t EXCEPT !.room = @ \ {a}, !.claim[a] = 0]
  /\ UNCHANGED <<flagged, click, closing>>
  /\ ticked' = {b \in ticked \ {a} : table'.seat[b] # 0}
  /\ astray' = astray \union {b \in flagged : b = a \/ Moved(b)}

\* The connection breaks: its claim and its wish go, its seat waits.
Disconnect(a) ==
  /\ a \in table.room /\ Move
  /\ table' = [table EXCEPT !.room = @ \ {a}, !.claim[a] = 0]
  /\ click' = [click EXCEPT ![a] = NoClick]
  /\ flagged' = flagged \ {a}
  /\ astray' = IF a \in flagged \union ticked THEN astray \union {a} ELSE astray
  /\ UNCHANGED <<ticked, closing>>

\* handleJoinTable, or a page that restores its room.
Join(a) ==
  /\ a \notin table.room
  /\ table' = [table EXCEPT !.room = @ \union {a}]
  /\ UNCHANGED <<flagged, ticked, click, closing, astray, moves>>

Close == CloseShowdown \/ ApplySpectateReservations \/ SeatThem \/ StartNext

Next ==
  \/ \E a \in Accounts : Click(a) \/ Handle(a) \/ Leave(a) \/ Disconnect(a) \/ Join(a)
  \/ EndHand \/ Close

Spec == Init /\ [][Next]_vars

\* Clicks are served, and hands end: by clocks and the watchdog if by nobody.
Fairness == (\A a \in Accounts : WF_vars(Handle(a))) /\ WF_vars(EndHand) /\ WF_vars(Close)

FairSpec == Spec /\ Fairness

---------------------------------------------------------------------------------
(* Properties.                                                             *)

\* An account that has used its buy-ins up but left before it lost them.
Spent(a) == table.bought[a] = MaxBuy /\ a \notin table.busted

\* A claim came late: of a seat that another account had claimed at the same time,
\* or had sat on meanwhile.  The claims are then more than the free seats claimed.
LateClaim ==
  \E s \in Seats : Cardinality(Claimed(table, s)) > IF Taken(table, s) THEN 0 ELSE 1

\* A page offers its spectator exactly the seats the server would give, but for
\* those who are Spent, which the page does not know, and but for seats that the
\* server takes for claimed because of a LateClaim.
OffersSeatsExactly ==
  closing = "done" /\ ~LateClaim =>
    \A a \in table.room, s \in Seats :
      table.seat[a] = 0 =>
        IF Accepts(table, a, s) THEN OffersSeat(a, s) ELSE OffersSeat(a, s) => Spent(a)

\* What a has claimed, entered or about to be.
ClaimOf(a) == IF click[a][1] = "claim" THEN click[a][2] ELSE table.claim[a]

\* Somebody has the seat a claimed, and nobody is left another: every free seat
\* goes, or there are other claims, and the first free seat may be one of those.
NoOtherSeat(a) ==
  /\ Taken(table, ClaimOf(a)) \/ Taken(table', ClaimOf(a))
  /\ \/ \A s \in Free(table) : Taken(table', s)
     \/ \E b \in Accounts \ {a} : ClaimOf(b) # 0

\* A claim that was accepted is kept until its holder is seated, cancels it, or
\* goes: nobody else gets in between, unless two accounts claimed one seat at
\* once, or somebody sat there before a late claim was entered.
ClaimIsKept(a) ==
  ClaimOf(a) # 0 /\ ClaimOf(a)' = 0 =>
    \/ table'.seat[a] # 0 \/ a \notin table'.room
    \/ click[a] = <<"seat", ClaimOf(a)>>
    \/ \E b \in Accounts \ {a} : ClaimOf(a) \in {ClaimOf(b), table.claim[b]}
    \/ NoOtherSeat(a) \/ ~CanBuyIn(table, a)
ClaimsAreKept == [][\A a \in Accounts : ClaimIsKept(a)]_vars

\* And it does not stay for ever, also if it was entered as the hand ended.
ClaimsEnd == \A a \in Accounts : table.claim[a] # 0 ~> table.claim[a] = 0

\* Whether a player will watch after this hand is shown as it will happen, unless
\* the player left or lost the connection with that wish.
SpectatesAsShown ==
  \A a \in (table.room \intersect Seated(table)) \ astray :
    click[a] = NoClick => (a \in ticked <=> a \in flagged)

\* The page promises what the server will do.
ShowsWhatFollows == OffersSeatsExactly /\ SpectatesAsShown

\* Whoever has lost everything and may not buy in again watches (table.go).
BustedAreMoved ==
  closing = "done" /\ table.stage = "ready" =>
    \A a \in Seated(table) : table.stack[a] > 0 \/ CanBuyIn(table, a)
=================================================================================
