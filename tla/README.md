# go-poker in TLA+

A verification development for go-poker, a no-limit Texas hold'em server (Go,
`src/backend`) with a web client (TypeScript, `src/web`). It models the poker engine
completely, how the server pays chips back, who sits where and who keeps a seat over a lost
connection, and, on the browser's side, everything that has state of its own: the reconnecting socket, the
page's session and room, voice chat, preferences and music, scene loading, and what the table
shows and offers of the engine's state. Wallets, the clocks' keys and the races between the server's two
table locks are not modelled (sections 5 and 6).

## 1. The system

### Components

| component | code | state | operations |
|---|---|---|---|
| Poker engine | `backend/poker/game.go`, `actions.go`, `player.go`, `seating.go` | one `Game` per table: players in seat order, button, turn, stage and betting bits, board, minimum raise, pots, departed players; one mutex held for the whole of every operation | seat, move, ready, deal, bet, fold, leave, run out, showdown, next hand, rebuy, undo, remove, pause, reset |
| Side pots | `game.go` `rebuildPots`, `resolveShowdown`, `oddChipOrder` | local to one call | layers of the bets, winners, odd chips |
| Cards, views | `poker/shuffle.go`, `strength.go`, `handname.go`, `views.go` | deck | shuffle, evaluate (external evaluator), censor |
| Game handlers | `server/events.go` | table locks `seatMu`, `actionMu` | one handler per client message: guards, wallet, engine, broadcast |
| Clock, progression | `server/clock.go`, `progression.go` | a key and a timer each | act for a sleeping player; move a hand on when nobody bets |
| Table | `server/table.go`, `payout.go` | clients, offline timers, pending payouts, settlement votes | evict, spectate, settle, retry |
| Reservations | `server/reserve.go` | seats claimed for the next hand, spectate wishes | claim, seat, release |
| Sessions, hub | `server/session.go`, `hub.go`, `client.go` | connection of an account, tables | bind, take over, kick, create and destroy tables |
| Wallet, scoreboard | `server/store.go`, `scoreboard.go` | accounts in Redis, buy-in ledger | load / save whole records |
| Browser connection | `web/lib/socketConnection.ts` | one WebSocket; retry, attempt, outage and probe timers; heartbeat | connect, fail, ready, wake, offline, dispose |
| Session and room of the page | `web/providers/WebSocket.tsx`, `AppStore.tsx`, `web/lib/session.ts`, `web/pages/index.tsx` | app state, browser storage, the guard of an abandoned room | log in, replay, join, create, leave, give up, expire |
| Voice | `web/lib/voice.ts` | token, LiveKit room, capture, filter, queue of setting changes | enter, leave, mic, speaker, mute, settings |
| Preferences, music | `web/lib/settings.ts`, `sound.ts`, `sfx.ts`, `server/settings.go` | local copy, account's copy, debounced push; loop, gain, buffers | change, push, adopt; start, stop, volume |
| Scene loading | `web/lib/preload.ts`, `web/components/Preloader.tsx` | tasks per file, batches per screen, deadlines | load, retry, reveal, warm up |
| Table on screen | `web/components/Table.tsx`, `TableFx.tsx`, `Input.tsx`, `RaiseInput.tsx`, `web/lib/betting.ts`, `tableFx.ts`, `handEval.ts` | last snapshot, announced hand, hold of a finger | offer, diff, announce, peek, name a hand |
| Seats on screen | `web/components/Seat.tsx`, `RoomDock.tsx`, `RoomMenu.tsx`, `Rebuy.tsx`, `web/lib/spectatorSeat.ts` | the spectate switch | offer seats, claims, rebuys |
| Bots, guard, avatars, tokens, logs | `server/bot.go`, `ai_client.go`, `guard.go`, `server.go`, `avatar.go`, `livekit.go`, `logs.go` | pending move, counters, files | I/O and limits |

### How they interact

A client message runs its handler in the connection's goroutine. Handlers that bet take
`actionMu`; handlers that seat, ready, rebuy, settle or evict take `seatMu`; both then call
engine operations, each of which takes `Game.mtx` from start to end. The engine never
calls back. After a change the handler broadcasts a view; broadcasting arms the action
clock and the progression watchdog, and may seat claimants. Chips enter a table from an account
(`load`, subtract, `save`) and return to it through `flushSeat`.

In the browser, `createSocketConnection` calls `WebSocket.tsx` back when a socket opens, speaks, is lost or
has been out for too long. A new socket makes `index.tsx` replay the login and the saved room; the answers mark
the connection as ready, fill the app state, and hand the account's preferences to `settings.ts`, which changes the
volume `sfx.ts` plays at. All else on the screen is computed from the last snapshot of the table.

### What is hard about it

* **A hand is a long protocol with many exits.** A player may fold, be all-in for less than a
  blind, leave on or off turn, rebuy, and every exit runs `updateRoundInfo`, which also
  refunds, deals, pays and ends the hand.
* **Positions are indices.** `dealerNum` and `actionNum` are positions in a slice that seats
  are inserted into, sorted in and removed from.
* **Side pots.** Equal, refunded and folded contributions meet in one loop.
* **Rules told twice.** The browser recomputes prices, legal actions, winners, seat offers and events that the
  engine has decided already.
* **Timers.** Retries, outages, offline and grace timers, debounced saves, per-file deadlines; each may
  fire just when what it waits for arrives.
* **Awaits.** Permission prompts, tokens, room connections and decoding finish after the user
  has changed his mind.
* **Two table locks** and read-modify-write of accounts.

`PROJECT.json` lists each hazard at its line, with the properties that would catch it or
why none does.

### What makes each component correct

* Engine: no chip appears or disappears; the turn is always at a player who can act; a street
  closes only with matched bets; every hand ends; nothing of a hand survives it.
* Side pots: the pots hold what was bet and go to the best hands.
* Payouts: table and accounts together keep their chips; a seat is paid out exactly once.
* Sessions: page and server agree on the room; a returning player keeps the seat; a room given up
  stays out and its seat is freed.
* Connection: never without a way back. Voice: records only when asked, heard as shown. Preferences: browser and
  account agree in the end. Scenes: nobody waits for ever. Table on screen: it offers what the engine accepts and
  shows what the engine did.

## 2. The modules

    Sums ──┬── Pots ──┬── PokerGame ── TableView ──┬── MCPokerGame ── Showdowns  (TLC)
           │          │                            └── PokerGameProofs           (TLAPS)
           │          └── SidePots  ─ implements ─> Payout                       (TLC)
           │                 └── SidePotsProofs                                  (TLAPS)
           ├── Payouts ─ implements ─> Ledger                                    (TLC)
           │      └── PayoutsProofs                                              (TLAPS)
           └── SumTheorems, used by PokerGame-, SidePots-, Payouts- and SeatingProofs  (TLAPS)

    Link <─ implements ─ Connection                                              (TLC)
    Connection, Voice ── NetworkProofs                                           (TLC, TLAPS)
    Link ──┬── Client ── ClientProofs                                            (TLC, TLAPS)
           └── Page           (with Preferences and Music)                       (TLC)
    HandNames ── TableScreen                                                     (TLC)
    Scenes                                                                       (TLC)
    Page, TableScreen, Scenes ── ScreenProofs                                    (TLAPS)
    Seating ── SeatingProofs                                                     (TLC, TLAPS)

### The server

**PokerGame** is the engine as the server drives it. `Game.players` is the function `players`
over positions `0 .. N-1` of which the first `np` are taken; the record of a player keeps the
fields that decide anything (seat, ready, in, called, left, chips). The stage and
betting bits of `Game.flags` are `stage` and `betting`. Cards are reduced to how many of the
board are out and, at the showdown, a score per hand still in: any combination may
be dealt. `dealt` and `button` are history. The correspondence of actions:

| action | code |
|---|---|
| `Start` | `Game.Start`: blinds, `deal` from NotReady, and the `updateRoundInfo` that follows |
| `Call`, `Raise`, `ShortRaise` | `bet`, split by its three legal cases; an error return is no step |
| `Fold` | `fold` |
| `LeaveHand` | `LeaveHand` called by `evictPlayer` during a hand: folds on turn, otherwise only marks |
| `UpdateRoundInfo` (part of the above) | `updateRoundInfo`: fold who left, then `Concede`, `MoveAction`, `ResolveShowdown`, `RunOut`, `DealStreet` or `FailToDeal` |
| `RunoutNext` | `RunoutNext` as `advanceGame` calls it |
| `SettleShowdown` | `SettleShowdown` / `resetForNextHand` with its three outcomes |
| `SeatPlayer`, `MoveSeat`, `ToggleReady`, `Rebuy`, `UndoRebuy` | engine operations with the guards of their handlers |
| `LeaveTable`, `Spectate`, `Bust`, `SettleSession` | `evictPlayer`, `applySpectate`, `autoSpectateBusted`, `settleLocked` between hands |

One engine call is one action because it holds `Game.mtx` throughout. The server sequences of
`LeaveTable`, `Spectate` and `SettleSession` (several engine calls) are one action because
`Start` and every other seat operation between hands waits for `seatMu`.

**Pots** gives the pots and their winners as closed formulas (the layer between consecutive all-in
totals). The engine computes them by loops; **SidePots** models those loops one iteration an action and
shows that they implement **Payout**, the one-step promise `PokerGame` uses. So the
closed form is a checked abstraction and not an assumption. **Sums** has the folds over positions, written as
recursive functions so that theorems can be stated over them.

**Payouts** is how a table gives chips back, with writes to the account that may fail. Its engine is
reduced to what moves chips (bets into a pot, the pot to players still there). Its actions:

| action | code |
|---|---|
| `FlushSeat` (part of the next ones) | `flushSeat` and `recordPayout`: paid once, with the amount first asked for; a failure is queued and sets the timer |
| `EvictPlayer`, `EvictFlush`, `EvictRemove` | `evictPlayer`: mark as left, refund, remove between hands |
| `Spectate`, `SpectateFlush` | `applySpectate`: remove, refund |
| `Settle`, `SettleFlush`, `SettleFinish`, `RetrySettlement` | `settleLocked`, seat by seat, and `retrySettlement` |
| `ResetWithRefunds`, `ResetFlush` | `resetWithRefunds`, seat by seat |
| `RetryPayouts` | `retryPayouts`, with any subset of the writes succeeding |
| `CheckEmpty`, `CheckUnpaid`, `Shutdown` | `destroyIfEmpty`, `destroyTable`, `shutdown` |
| `Sit`, `StartHand`, `Bet`, `EndHand` | `seatHumanLocked`, `autoStartIfReady`, `bet`, `resetForNextHand` |

`seatMu` is a variable: who holds it, the seats still to do and the stack that was noted. Operations
that hold it over several writes are several steps, between which the payout timer, bets, the end of a hand and
the destruction of the room may come. `payoutMu` is held for one `flushSeat` or one
`retryPayouts`, so each is one step. **Ledger** is the promise: a seat's credit is at stake while the seat is open, then a fixed debt,
and is paid in full and once. The refinement maps the credit to what the table owes (`Owed`: a
queued refund, the noted stack, or the stack) and `open` to a seat in play and not yet paid.

**Seating** is who sits where: seats, claims (`reserve.go`), readiness and spectate wishes on the server, and the buttons
pages offer for them. A hand is only an interval that ends with some of its players without chips; chips are counted in
buy-ins. A click is served some time after it was made (`Click`, then `Handle`), `advanceGame` after a hand is
four steps (`CloseShowdown`, `MoveBusted` or spectate wishes, `SeatThem`, `StartNext`), and the check and the entry of a claim
are two, because `handleReserveSeat` lets go of its lock between them.

### The browser

**Connection** is `createSocketConnection`: `socket`, the set `timers`, the heartbeat's count of quiet beats, `wire` (whether
the link is silently dead). Every callback and timer is an action. It implements **Link**, four variables
(`up`, `marked`, `gaveUp`, `status`) and the five things the rest of the page sees happen; **Client** and **Page** are built on Link.

**Client** is the page (`page`, `saved`, `abandoned`), the two connections the server may have of this browser
(`conn`), the account's session (`holder`), its seat, the seats with an offline timer (`armed`) and those whose timer has fired (`late`), with messages in order on each connection. `Handle` is the `switch` of
`WebSocket.tsx`, `Replay` the effect of `index.tsx`, `Serve` the handlers of `events.go`, `BindSession` and `Kick` those of `session.go`,
`GraceChecks` and `GraceEvicts` the two halves of `timeoutPlayer`: `MarkOnline` stops a timer before the first of them, nothing after it. A room registers and removes connections
over two channels, which `run` may empty in either order; `TableRuns` takes what a connection did last. Another device of the account is the process `Elsewhere`.

**Voice** is `VoiceManager`, with one step per `await`: the token's reply, LiveKit's connection, the permission, the audio graph, the
constraints, the noise filter, the publication, the retry timer and each queued change. `v.hw` is which captures have the microphone open and `v.sent`
what is published, so that what the manager believes can be compared with what is recorded and heard.

**Preferences** is `settings.ts` with its debounced push and the account's copy; **Music** is the loop of `sfx.ts` and its stored
volume; **Page** composes both with Link as `WebSocket.tsx` does: `PageOpens` gives the socket to the preferences, `Answered` marks the link and
adopts the account's copy, whose change of volume reaches the gain.

**TableView** recomputes what a browser makes of a snapshot of `PokerGame`: the keys and amounts of `Input.tsx` and `RaiseInput.tsx`
(`Offered`), the events of `diffTableActions` (`Moved`, `FoldEvents`, `BetEvents`, `CheckEvents`), and the winners of `getWinners` (`ShownAward`).
**Showdowns** adds the effect that announces a hand once (`shownHandRef`), run on the snapshots a browser renders.

**HandNames** is `handEval.ts`; **TableScreen** the press, hold, click and the timers that tell a tap from a hold, over the cards a snapshot shows.
**Scenes** is `preload.ts`: the requests shared by batches, a deadline per file and per batch, and answers that come after a
request was given up.

`MCPokerGame` starts hands from chosen stacks; the other modules have small constants and are instantiated by their cfg.

## 3. What is checked

Run with `tlc -config <cfg> <module>`. All distinct-state counts are TLC's.

| run (module) | what it shows | states |
|---|---|---|
| `hand` (MCPokerGame) | One whole hand with two and three seats, every stack in {1, 2, 5}, every button. Pots: `PotPaidOut`, `BestHandPaid`; the turn: `TurnIsRight` (who is waited for can act, at a price both computations agree on; nobody is waited for after betting stopped; the next street finds its players ready); streets: `StreetsAddUp`. The screen: `OffersExactly` (the keys are exactly what the engine accepts), `ShownIsPaid` (the winners shown are those paid, but for pots a leaver would have shared: `Table.tsx:40` mirrors the split without them), `SnapshotsTellActions` | 160,283 |
| `hand_ends` (Showdowns) | Under the two timers every hand ends (`HandEndsOrSticks`), or sticks in the way divergence 1 describes; and its end is announced (`ShowdownIsShown`) | 27,023 |
| `session` (MCPokerGame) | From the empty table: seating, moving, readying, leaving in every stage, rebuying and settling around and during a hand. `StakesIntact`, `CleanBetweenHands`, `SeatsInOrder` | 625,358 |
| `sidepots` (SidePots) | All three-handed showdowns with totals up to 3. `PotsHoldAllBets`, refinement `ImplementsPayout` | 666,324 |
| `payouts` (Payouts) | Three seats: every order of departures, spectators, settlement, reset, hands, failed writes and retries. `ChipsKept`, `RefundedNeverPlays` (no hand is played with chips that were given back), `SettlesAllOrNothing`, `PaysInTheEnd`, refinement `ImplementsLedger` | 85,156 |
| `connection` (Connection) | Every order of timers, with losses, silent links, sleeps and wakes. `NeverStranded`, `EventuallyConnected`, refinement `ImplementsLink` | 2,243 |
| `client` (Client) | Logins, joins, hasty clicks, outages, reloads, takeovers, settlements. `GivenUpStaysOut`, `GivenUpIsReleased`, `RoomAgrees`, `SeatIsKept`, `EventuallyReady` | 323,944 |
| `voice` (Voice) | Every order of clicks, answers and queued changes. `RecordsOnlyWhenAsked`, `HeardAsShown`, `VoiceStaysInRoom`, `LastChoiceWins` | 2,515,708 |
| `page` (Page) | Preferences and music over outages, logins and a second device. `EventuallyAgree`, `MusicAsAsked` | 308,270 |
| `seating` (Seating) | Three accounts at three seats around hands. `ShowsWhatFollows` (seats offered are those the server gives, and the spectate switch tells what will happen), `ClaimsAreKept`, `ClaimsEnd` | 35,618 |
| `table_screen` (TableScreen) | One finger and the streets of hands. `NamesBestHand`, `TapsAndHolds` | 588,684 |
| `scenes` (Scenes) | Shared files, deadlines, late answers. `ShowsTheLoaded`, `NobodyWaits` | 133,515 |

### Bounds and why they are enough

*Engine.* Blinds are 1 and 2. A stack of 1 is all-in below the big blind, 2 exactly
at it, and 5 leaves room for a call, a full raise (the minimum raise is 2), a short raise and a bet
on a later street; three different stacks at three seats give two all-in layers plus a last pot, an
uncalled excess and folded contributions. Two scores give winners, losers and ties, hence
odd chips. `Rebuys = {2}` and `MaxBuy = 4` allow one rebuy in `session`, both during and outside a hand; `hand` and `hand_ends` have
none, because a rebuy during a hand only touches players who are not in it, or waits for its end.
`HandsLimit = 1` and `SeatLimit = 3` bound the session to one hand played to its end, with everything that
may happen at a table before and after it; the state after a hand is again a state of the table
between hands, which `CleanBetweenHands` describes. `StartStacks` in `MCPokerGame` starts a
hand from tables a session reaches by buy-ins, rebuys and earlier hands.
`LeaveAtShowdown` is `FALSE` in `hand`: with `TRUE`, divergence 3 breaks `PotPaidOut`, and the run could then say
nothing about the paths without it; `session` and `hand_ends` use `TRUE`. In `hand_ends` everybody's hand scores the same, since who
wins does not decide whether a hand ends; the stacks are 1, 2 and 4 (all-in below the big blind, at it, and one with
a raise left); the button starts at position 0, since the positions go round the table and a hand looks the same from
every button; and one hand is played: divergence 6 needs two.

*Payouts.* Three seats let a settlement fail between two that are paid, and a pot collects the chips of others, so that what a
departure noted, what is queued and what is in the pot differ. A seat UUID is used for one stay, and every failure may repeat without
end. `ResetsFail` is `FALSE` because divergence 4 breaks `ChipsKept`, `RefundedNeverPlays` and the refinement with `TRUE`; the theorems about
them have the same hypothesis. Seats are numbered from 0 so that sums go over them in order; nothing else depends on the numbers.

*Connection.* Eight disturbances break a link in each of its phases and again during the recovery from that; heartbeat and silence are the
code's 5 and 12 seconds, counted in beats.

*Client.* One account, one room and a second device. Two disturbances (outage, reload, the other device, the room's death, a settlement, a
snapshot) meet in every order with the messages of one life of a seat. `SeatLimit` is 1: with 2, divergence 13 breaks `RoomAgrees`. With 1 it
safety was also checked with two rooms (2,922,010 states). The page locks itself only in a room whose socket is not connected (`Inert`), so the user may click while answers are under way, in the lobby also before
the socket is marked; each such click is one of the disturbances. `RoomAgrees` says nothing of rooms when the user clicked, or the seat was settled or evicted, while the room was being asked for (`crossed`, until the next
socket asks anew): divergence 14 is what happens then. A socket that is lost has its messages served before those of the next one; a failed create keeps the saved room. The one assumption on the offline timer's minute is `Noticed`:
when it is over, connections that were kicked or closed meanwhile are gone from their room. Apart from that a timer fires at any moment, set as early or as late as the loss of a connection is noticed.
`SeatIsKept` lets a timer evict only whom it did not find at the table when it fired; that such a player may be back a moment later is divergence 15.

*Voice.* Two rooms, one other speaker, two changes of settings, one fault and three requests (microphone on, off, leave) cover any pair of
overlapping awaits. `Awkward` names six timings, and the failure of a publication, under which a promise fails (divergence 10); `{}` excludes them. A track whose room is gone is refused in any case.

*Page.* A browser with a saved login on the lobby; four disturbances; two fields, of which one is the music's volume; a lost socket's save arrives
or not. `Crossing` and `Hasty` are `FALSE`: each breaks a promise (below).

*Seating.* Of three accounts the first plays without having rebought, the second after a rebuy, the third with or without chips; three clicks,
departures or losses. Leaving takes place between hands and not while `advanceGame` closes one. Bots and pending settlements are left out.

*Table screen.* The ranks and suits a wheel, a broadway straight, a flush, four of a kind and a full house need; three holdings; two clearings of the flag
under way. A press is untimed, so it may be longer or shorter than any timer. *Scenes.* Four screens that share files, opened three times; timers are untimed, so 8 s and 12 s may
expire in either order; closing a screen drops its batch.

Runs switch deadlock checking off where everything may rest for ever (nobody has to get ready, no disturbance comes any more);
`table_screen` keeps it on.

### Fairness

`enforceActionClock` checks or folds for a player who does nothing, when the clock
of the turn runs out: weak fairness of `TimeOut`, and of nothing else a player does.
`enforceProgression` fires in every stage without betting: weak fairness of `RunoutNext` and
`SettleShowdown`. Clients advance a hand as well but need not. This assumes a room
with a clock (`actionTimeout > 0`) and that the timer for the current key is armed; the keys are not
modelled.

In `payouts` whoever holds `seatMu` goes on and the payout timer fires (weak fairness); the settlement
timer gets `seatMu` in the end, because a Go mutex starves no waiter, and a write that is tried again and again succeeds some time
(strong fairness). Nothing is assumed of players, of departures or of the destruction of a room.

In `connection` every timer that stays set fires, a socket that can open opens, and the answer to a login arrives while nothing breaks it;
nothing is assumed of the user or of wakes. In `client` every message that arrived is handled by page and server, sockets open, the server's goroutines
run; the outage and offline timers get strong fairness, because a timer counts through short successes of others. In `page` the same of login and saves.
In `seating` clicks are served and hands end and are closed. In `scenes` only the browser's timers and effects are fair, nothing of the network:
`NobodyWaits` holds though no file ever arrives. `voice` and `table_screen` check safety only.

### Where the code differs from what it says

Each of these was met while modelling; TLC shows it with the constants given, and the properties of the runs are stated
around it.

1. **A blind that is refunded** (`game.go:597`). Both blinds all-in, the big blind for one chip more: the uncalled chip goes
   back at once, its owner now has a stack, has not acted, and is not `isCalled`. The board runs
   out, but `updateRoundInfo` then only moves the turn to that player while betting is
   disabled; the hand never ends (`actions.go:430` speaks of all-in run-outs). `StuckOnBlind` in `HandEndsOrSticks`.
2. **A last pot nobody may win** (`game.go:678`). A player who put in more than every all-in folds: the last pot has chips
   and no eligible player, so nobody gets it, against `scoreboard.go:107` ("The nets of all rows sum to zero"). `ChipsConserved` with `StartStacks = {1, 3, 5}`.
3. **Paid twice** (`actions.go:541`). Leaving while the showdown is displayed folds the player the stale `actionNum` points at;
   with one player left `updateRoundInfo` pays all bets again. `PotPaidOut` with `LeaveAtShowdown = TRUE`.
4. **A reset that fails** (`events.go:1016`). It stops and leaves the seat in play, but the
   refund is queued and paid by the timer: the next hand is played with chips paid out at the same time. `RefundedNeverPlays` with `ResetsFail = TRUE`.
5. **A refund destroyed with its room** (`hub.go:165`). A room passes the check for unpaid refunds while the last player's refund is being
   written; it fails, and `shutdown` stops the timer that would try it again. `PaysInTheEnd` leaves out a room past its last check.
6. **A showdown not announced** (`Table.tsx:284`). The comment says that pots are cleared when the next hand is dealt; `updateRoundInfo` refills
   them before any broadcast, so a hand with the same winners and amounts as the last one is taken for already shown. `ShowdownIsShown` with `N = 2`, `HandsLimit = 2`, `StartStacks = {4}`.
7. **Changes made offline** (`settings.ts:262`). "Changes made while offline are sent as soon as the socket is back": a push that came due while offline was dropped,
   and the account's copy then replaces the change. `OfflineChangesKept` in `Page`. Also, a login answer that comes during the debounce, or crosses a push (`Crossing`), reverts a change.
8. **Hold and tap** (`Table.tsx:211`). The clearing of an earlier hold, or the end of the game, may come during a new hold, whose click then acts (`press.spoiled`); and a tap is
   swallowed within 300 ms after the game stopped.
9. **Seats.** A busted account that left and sat again is not moved to the spectators, against `table.go:897` (`BustedAreMoved`); `unregisterClient` drops a
   claim `reserve.go:22` says survives; `Seat.tsx:436` offers seats to players who have used their buy-ins up (`Spent`); the broadcast of a departure may seat the claimant who is leaving.
   *Wishes.* A spectate wish is lost on a reconnect and leaks over leaving and rejoining; and `clearClientUUID` (`table.go:941`) does not clear `spectateReserved`, so a player another's broadcast moves to the
   spectators, between the end of a hand and `applySpectateReservations`, keeps the wish and has it carried out when seated again, though the switch is off (`astray`; two accounts, six moves).
   *Late claims.* A claim that is entered late, of a seat that another account claimed at the same time or has sat on since, counts against the free seats, and the server then refuses a seat that is still free and offered (`LateClaim`; five accounts, four seats).
   Its holder is given the first free seat when it is taken (`reserve.go:236`), also when another account has claimed that one; `seatHumanLocked` then refuses, and the claim is lost while yet another seat is free (`NoOtherSeat`
   without its clause on other claims; five accounts, five seats, four moves).
10. **Voice** (`Awkward`). A token reply that comes after the room was left; a setting overtaken while one is applied and one waits is neither reverted nor reported (`voice.ts:845`); the
   microphone released while its filter starts; the room lost while one starts, when the next connection starts a second one: the first fails and turns noise reduction
   in the browser back on, the second goes out, and two reducers work on one voice (`voice.ts:853`, `1030`); a track published while LiveKit reconnects, or while the `startMic` that made it still applies a choice; requests held back by the 5 s spacing, or sent before the login, are never repeated (`voice.ts:332`, `429`).
    And a track that LiveKit refuses while the room stays connected (`publish fails`, `voice.ts:1037`): what is published is forgotten and nothing tries again, so the microphone looks on and nobody hears it until it is turned off and on or the room
    is joined again, which is what `voice.ts:545` sets out to avoid ("the mic would look on while nobody could hear it"). `HeardAsShown` with `Awkward = {"publish fails"}`; the other three promises hold.
11. **Music** (`Hasty`). A screen left and opened again while its track is loading starts the loop twice.
12. **Small ones.** `settings.go:31` says an empty blob is rejected, but `{}` is accepted; an all-in that wins at once is heard as a plain bet (`TableFx.tsx:190`); the
   language detected at start may overwrite the account's (`index.tsx:61`).
13. **A stale seat id** (`WebSocket.tsx:452`). A settlement clears the page's game but not the seat id in its saved session, which only `update-player-uuid` replaces. The player sits down again and the socket is lost while
   the new id is under way: the login hands the seat back, but the rejoin that follows names the old id and is answered "room closed" (`events.go:79`). The page forgets a room that lives and in which the server keeps its
   player seated. `RoomAgrees` with `SeatLimit = 2`.
14. **Clicks while the room is asked for** (`WebSocket.tsx:202`). No reply says which request it answers, and leaving sets no guard. A seat is tapped and the room left before the answer: `update-player-uuid` puts the room back on the page and in its saved session, while the
    server has released both. A room is joined and another created before the answer to the join; or one is created, left and another created while the first is refused: `create-result` then empties the page of a room the server has it in. Logging out with a join under way
    leaves a room saved without a login. Each lasts until the next socket asks for the room anew. `RoomAgrees` without `~crossed`.
15. **Evicted after coming back** (`table.go:220`). "The timer that fired is stale, never evict. This recheck bounds every race": a player who comes back between the recheck and the eviction is evicted all the same, and `markPlayerOnline` cannot stop a timer that has fired. If the rejoin
    is still to be served, it is answered "room closed", and the page goes to the lobby while its connection is in the room. Also, a lost connection that is noticed only after its player is back sets a timer that nobody stops; a second, short absence at its end is then
    taken for one "longer than the offline grace period" (`table.go:219`). `SeatIsKept` without its exemption of `late`.
16. **Odd chips of leavers** (`game.go:734`). "Forfeiting leavers still count as winners for the split, so their share (and any odd chip that falls to them) vanishes." The round of odd chips is dealt to the winners who stayed (`game.go:728`, `738`), so the test for leavers at 744
    is never true: with three winners, one of them gone, and two odd chips, both go to those who stayed. The models follow the code, and `ImplementsPayout` shows that loops and closed form agree on it.

### Mutants

For each property of each run `PROJECT.json` names a mutated definition (operators marked
`Mutant` next to the definition they mutate) under which TLC finds the property violated: what
a plausible bug would do to it.

## 4. What is proved

Every theorem holds for all values of the constants that satisfy the named assumptions.

**Engine.** For every number of seats, blinds, buy-ins, rebuys and scores that satisfy `NAssumption`
(at least two seats) and `ConfigAssumption` (0 < small blind < big blind <= buy-in, ...: what
`validateRoomConfig` accepts), `PokerGameProofs` proves
`Invariance` (`Spec => []IInv`), `TypeCorrect` (`Spec => []TypeOK`; the substance is that no chip count is negative: the code
computes with unsigned integers, where a negative one is a huge stack) and `NoChipLostInPlay` (`Spec => []StakesIntact`).

`IInv == TypeOK /\ StakesIntact /\ HandCleared /\ SeatsReady`. `StakesIntact` alone is not inductive.
A hand that starts needs every `totalBet` at 0 (`HandCleared`, which also says that a vacant position is clean), or the
history `dealt` would miss chips. And an undone rebuy in the middle of a hand would take
chips away: its guard asks for a player neither in nor ready nor departed, and `SeatsReady` says
that during a hand there is none, because `Start` saw everyone ready or departed and a player
becomes unready only by departing. The proof has one lemma per action (`CallKeeps`, ..., `BustKeeps`), which
share lemmas on `PutInChips`, `ReturnUncalled` and `UpdateRoundInfo`; `StepKeeps` combines them over `Next`.
`NothingSurvives` (`Spec => []CleanBetweenHands`): next to the types, that property is inductive by itself. What follows an
action stays in the hand (`UpdateStaysInHand`), so only `SettleShowdown` and `Reset` reach `NotReady`; `Compact` and `BySeat` put only players of the old table
or vacant places at a position, so the departed are gone and everyone kept is as tidy as before; and `SettleShowdown` keeps players ready only if nobody is broke.

`SeatsStayInOrder` (`Spec => []SeatsInOrder`) rests on `SeatsInv`: the first `np` positions hold strictly growing seats, all others are `Vacant`, and the button is below `np`.
`Compact` and `BySeat` both arrange players by a key whose ranks are all different and all taken (`RankOnto`, from the pigeonhole facts on injections), so both
give such a table (`ArrangedInOrder`). During a hand the payments are what has to be looked at: a vacant position holds no cards, and who holds none wins nothing (`OutWinsNothing`).

The turn: `TurnStaysRight` (`Spec => []TurnIsRight`) and `StreetsStayInStep` (`Spec => StreetsAddUp`, an action property) share the invariant `TurnInv`.
`ActorCanAct` is one of its parts; the others say why the two ways to compute a price agree and what a refund can do. While betting is on (`BettingOn`) there is a base: the number of chips that
earlier streets took from everybody who can still act. A bet stands on top of it, nobody without a bet is above it, and two players at least have reached it (`StreetBase`); and an all-in
is the player's own act, a blind, or matched (`Answered`). Once betting is over (`BettingOver`) every total is matched by another, at most two players have chips, and only a refunded blind is waited for.
Every end of `UpdateRoundInfo` keeps the one or reaches the other (`TurnStep`); that `ReturnUncalled` takes no more than the street bet off the total follows from the base.

`PotsPayOut` (`~LeaveAtShowdown => (Spec => []PotPaidOut)`): what players gained at a showdown is all that was bet. The hypothesis is the one of the run, because divergence 3 makes the
property false without it. Two things have to be shown of `ResolveShowdown`. No chip goes into two pots: the layers between consecutive all-in totals do not overlap, and what a sum of layers takes
of one player is what that player bet below their end (`LayersTile`, `PotsHoldBets`). And no award is more than its pot: the winners' shares and the odd chips, one for each of the first winners, fill the pot exactly
or nobody wins it (`AwardsWithin`). When a hand ends without a showdown the last player takes everything. That the showdown stays as it was until it is settled (`ShowdownKeepsChips`) is where the hypothesis is used.

`BestHandIsPaid` (`~LeaveAtShowdown => (Spec => []BestHandPaid)`) is the other side: the chips go to the right player. The layers tile the bets up to every all-in exactly (`LayersHold`), so the pots a player is eligible for hold what the player contests, of everybody's
bets as much as the own (`EligibleHold`). That needs a fact about the betting, not about the pots: whoever comes to the showdown with chips has bet as much as anybody (`Closed`, from `TurnInv`), or the last pot would hold more than its owners can claim.
A best hand alone takes each of them whole, and any other hand no more than there is (`AwardOfPot`, `BestCollects`). `ScoreClear` (no scores but at a showdown) tells a hand shown down from one conceded.

**What a browser makes of it** (`PokerGameProofs`, part 6). `WinnersAreShown` (`~LeaveAtShowdown => (Spec => []ShownIsPaid)`) rests on `PaidByPots`: at a showdown everybody has collected what the browser's pots award, of a conceded hand the last player
everything. The two build pots from different players: the engine from who was all-in before the uncalled bet came back, the browser from who is chipless after it. They differ by one player at most, who had the most in; adding that one to the all-ins only makes two pots trade places (`PotsTradePlaces`),
and an award depends on the pot, not on its number (`RefundPaysTheSame`). `ActionsAreHeard` (`Spec => SnapshotsTellActions`, an action property): whatever ends `UpdateRoundInfo`, it brings nobody in, folds only the departed, moves chips only from the pots to players, and leaves the turn with whoever acted in no
street that goes on (`UpdateOnward`, `WagerIsCalled`); so the table shows that someone acted, how (`Played`, `Folded`), and in every other step that nobody did (`QuietTells`). That a step is an action at all, and whose, needs `TurnInv` (`ActorCanAct`) and `HandCleared`.

**Sums** (`SumTheorems`). Lemmas on sums and maxima (`SumAdd`, `SumSwap`, `HighestBounds`), the rank of a position among those of a set, and their like. The library's induction theorems are out of reach (they take an operator), so each
is proved from a least counterexample over the recursive functions.

**Payouts.** For every number of seats and limits. `SettlementsAreWhole` (`Spec => SettlesAllOrNothing`) holds without a further hypothesis; `RefundedStandAside` (`[]RefundedNeverPlays`), `TableKeepsTheLedger`
(`Spec => ImplementsLedger`) and `ChipsStay` (`[]ChipsKept`) hold if no reset fails half-way (`~ResetsFail`; divergence 4 is the counterexample otherwise). They rest on two invariants. `LockInv` says what the holder of
`seatMu` relies on: while a table settles, nothing is at stake in a hand and no seat still to do can change (`FrozenWhileSettling`); a reset refunds only between hands (`RefundsBetweenHands`); a seat whose departure is being written is marked as left (`Departing`); and who is not
in play has left nothing at the table (`NothingBehind`). `UnpaidPlay` is the heart of it: a seat in play has not been paid or queued, except the seats a reset has just refunded and is about to
remove, and those whose player has left. With it every step of the table is classified as a step of the ledger: `Settled` steps (one write, done or queued) are a payment or a stutter, a bet and the end of a hand only move what is at stake, and everything else leaves
the ledger as it is. `ChipsStay` then adds up accounts, debts and stakes over the seats.

**Connection.** `PageNeverStranded` and the refinement `ConnectionImplementsLink`. The invariant adds `RetryAfterFailure` (a retry is set
only while there is no socket) and `OutageOnce` (an outage timer runs only until it has expired, and only while nothing is marked): the
second is what makes each give-up of the code a step of Link.

**Client.** `GivenUpRoomsStayOut`: with the page's types (`PageShape`), `GivenUpStaysOut` is inductive over every message and click; messages need no
invariant, because the guard drops whatever could come. `SeatsAreKept` (`Spec => SeatIsKept`, an action property) rests on `ServerInv`: a connection that is authenticated, open and not kicked is the account's (`holder`), or has
nothing left to be served and no page that writes on it (`OnlyHolderSpeaks`). So a `leave-table` that is served, the one message that takes a seat away, comes from the connection the account is bound to, however many
are left over from outages; a login that replaces a connection kicks it (`BindKeeps`), and one the server forgets has been served to the end. The other way out is `GraceEvicts`, of a seat in `late`, and `GraceChecks` puts none there that has a client.
`AccountsAgree` (`[]AccountAgrees`) is the half of `RoomAgrees` that holds for every bound: a page that is logged in and at rest names its player, and its connection is the one the account is bound to. `AccountInv` follows what is under way:
a page with a login has a connection that is authenticated, or is cut, or has its `reconnect-user` unserved, or the notice that the session has expired is still to be read, and that ends the login (`Pending`). At rest only the first is left, and `OnlyHolderSpeaks` says whose the connection is.

**Voice.** For any rooms and any number of clicks, requests, faults and changes. Each theorem excludes by hypothesis only the timings of divergence 10 that break it. `NobodyIsRecordedUnasked`
(`[]RecordsOnlyWhenAsked`) excludes none; `CaptureInv` says that the one open capture is that of the last request, and that a `startMic` which still counts waits for its permission exactly while nothing is captured, so a late permission
finds a newer request. `VoiceKeepsToItsRoom` (no "late reply") rests on `RoomInv`: requests, token and connection are of the player's room. `PlaysAsAsked` excludes none either: `PlaysWhatIsAsked`, one half of `HeardAsShown`, is inductive.
`ControlsShowWhatIsHeard` (`NoTrackLost`: none of four timings, and no refused publication) proves the other half, once publications and filters under way have ended, from `TrackInv` (the track is that of the open capture, and settings change only under a microphone that is on), `Outgoing` (what is published, or has its filter
starting, is that track; one of the two, while connected) and `Quieted`. `TheLastChoiceWins` (`Orderly`, which allows refused publications) adds `QueueInv`: the queue holds a change being taken through and one that waits, of this request; the one that waits was not overtaken, and unless it is there to make
up for it, what goes out is already what was chosen last. The proof states for each operation of the manager which fields it leaves alone (`Keeps`), then takes the actions one by one.

**Side pots.** For any number of seats, bets, scores, folds and departures. `NoChipOutsideThePots` and the refinement `LoopsPayThePromise`. While pots are built, some all-in bet `lv` has been reached (`Reached`): what nobody has taken yet is each bet above `lv` (`Untaken`), those
in the queue bet at least that and the other all-ins no more, and the pots so far award every player what the layers of `Pots` up to `lv` do. The two differ in number and order, since the loop goes by the bets and `Pots` by seats, so the invariant compares sums and not pots: taking a layer adds one summand
(`NextLayer`), and an all-in whose bet was reached before adds none. While pots are paid, those before the current one are paid wholly, and of the current one exactly the winners that come first after the button; the odd chips that are gone are as many as they are, or all (`Paying`). That the winners can be
put in that order at all, whatever their number, is `OrderSorts`, again from ranks. The last step then shows what `Payout` promised (`FinishResolves`), and the others nothing (`OthersHidden`).

**Seating.** For any finite set of accounts, at least two seats and two buy-ins (the second player starts after a rebuy), and any number of moves. `PagesShowWhatFollows` (`[]ShowsWhatFollows`) and `SeatsAreSound` (`Spec => [](TypeOK /\ Sound(table) /\ ClaimantsStand)`)
rest on `SeatInv`, since what a page shows depends on what is not on the screen: between hands, with `advanceGame` done, no claim is left (`NoClaimLeft`), or the page would offer a seat the server keeps; who has a claim stands, has not asked to watch and can
pay (`ClaimantsStand`, `ClaimantsCanPay`); during a hand everybody seated is ready (`PlayersReady`), and an account that was seated while its claim was being entered is not, so that claim holds the next hand up (`LateWaits`); and the switch tells the wish, or its
opposite while a click on it is under way (`SwitchTellsWish`). `Sound` is what a table needs whatever is claimed on it; every operation keeps it, the departure of many at once included (`UnseatSound`).
`ClaimsNotLost` (`Spec => ClaimsAreKept`, an action property) has to look into a single step. A broadcast seats claimants in rounds, one for each, in any order the map of claims may give. A claimant whose claim is like nobody else's (`Awaiting`), with the claimed seat free, or
alone with any seat free (`SeatThere`), loses nothing in the rounds of others (`NotYet`): `seatHumanLocked` gives nobody a seat that another account has claimed. In its own round it is seated (`Placed`), and later rounds leave it there (`Advanced`, `KeptByRounds`). That it is not
the seat's own mover who takes it is `MovesStand`: a player about to move is not ready, so no hand has begun since, and no claim has come to the seat that was free then. The induction over rounds is again a least counterexample.

**Page, Scenes, table screen** (`ScreenProofs`). `MusicIsAsAsked`, assuming `~Hasty`: the track is the screen's, at most one call waits for a buffer (`OneCall`), and the cached volume is the
stored one (`CacheIsRight`), so neither a loop started late nor one that plays is out of step with the settings. `ScreensShowTheLoaded` (what a batch counts on, and what it reports failed, are of its files; a batch that is done lists every file that is not loaded at that
moment, and loaded files stay) and `WhatIsLoadedStays` (no step, a late answer included, drops a loaded file), which no run checks apart. `TapsAreToldFromHolds`: that needs to know who may have set `heldRef`
(`HeldIsKnown`) and that a hold is armed only under a finger (`ArmedByFinger`).

`HandsAreNamed` and `ScreenNamesBestHand`: for any cards of the deck, not only those of the run, the name of `handEval.ts` is the best that `Holds` of all the cards at once. `Holds` counts ranks, suits and runs and never picks five cards, so the two agree
for a reason: what five cards are called they hold, and more cards hold it too (`FiveHold`, `HoldsGrows`); and for each name that cards hold, five of them can be chosen that `categorizeFive` calls that or better (`Reaches`), by keeping the cards of the ranks, suit or run that
witness it and filling up (`CanChoose`). That a second pair is not lost to a third, or a pair to a triple, rests on the counts of different ranks adding up to five at most (`TwoRanks`, `ThreeRanks`). With two to four cards the name is the partial one (`BestOfFew`), with fewer there is none. The assumption is a
deck of 52 (`TableScreenAssumption`), as `parse` reads no other card.

Only model-checked: liveness (out of the prover's reach: `HandEndsOrSticks`, `PaysInTheEnd`, `EventuallyConnected` and the others); `OffersExactly`, which says what is `ENABLED`; `ShowdownIsShown`, and of `RoomAgrees` what it says of rooms and seats, which hold
only within their bounds (divergences 6, 13 and 14).

## 5. What is not modelled

Left out of the engine: statistics, names, avatars, revealed cards (no effect on chips or turn), and
`ResetToReadyPhase` and `SitOut`, which only tests call. Cards and the evaluator: an
external table lookup, abstracted to scores. Unsigned width: chip counts stay far below 2^64, and
`TypeCorrect` shows subtraction never wraps. Views: a function of one state. Avatars, tokens, TLS, the rate limiter, logs: I/O
or counters beside the game. Bots play through the same engine operations.

Of the server: the wallet (read, changed and written back by concurrent handlers, in Redis), writes that take effect but
report an error, the keys of the clocks, votes, and the races between `seatMu` and `actionMu` (`evictPlayer` against bets, `toggleSpectate` against a start): `Payouts`
marks a player as left and reads the stack in one step, `Spectate` of `PokerGame` is between hands, and `Seating` reads and serves the spectate switch in one step.

Of the browser: components that only draw the app state (cards, chips, seats, lobby lists, profile, history, settings, wallet and chat dialogs), translations, styles,
one-shot sound effects and the synthesized pad of `sound.ts`, level meters and device lists of the voice controls. They keep no state that outlives a rendering, or none
any promise is about. Chat and logs are bounded lists of what arrived.

## 6. What may come next

1. **TableLocks**: `evictPlayer` under `seatMu` against bets and `advanceGame` under `actionMu`; the snapshot of a stack and its use, positions that go stale, `applySpectate` against a start; lock order.
2. **Wallet**: accounts loaded, changed and saved by concurrent handlers; whether they implement `Ledger`'s atomic transfers.
3. **Clock** and **Progression**: keys, late timers, a stale view arming a timer; discharge of the fairness used here.
4. Theorems: the rest of `RoomAgrees` for `Client` without divergences 13 and 14.
