------------------------------ MODULE TableScreen -------------------------------
(***************************************************************************)
(* Holding a finger on the table (Table.tsx).  A hold of 220 ms while the  *)
(* game runs enlarges the board with the player's own cards, or the seat   *)
(* under the finger, until it is released.  The click the browser sends    *)
(* after the release must not act on what lies under the finger: heldRef   *)
(* makes a filter swallow it, and is cleared 300 ms after the release in   *)
(* case no click came.  There is one finger, so that no press meets        *)
(* another.                                                                *)
(***************************************************************************)
EXTENDS HandNames

CONSTANTS
  Deck,       \* the cards on the board are of these
  Holes,      \* the cards the player may hold
  MaxClears   \* bound: clearings of heldRef under way at a time

ASSUME TableScreenAssumption ==
  /\ Deck \subseteq Cards /\ MaxClears \in Nat
  /\ \A h \in Holes : h \subseteq Cards /\ Cardinality(h) = 2

VARIABLES
  running, hole, board,  \* of the snapshot; a spectator has no hole cards
  finger,   \* "up", "on" the table, or "off" it while still down
  armed,    \* peekTimerRef and what the hold will enlarge
  peek,     \* what is enlarged: "board", "own" seat or an "other" one
  held,     \* heldRef
  clears,   \* releases whose clearing of heldRef is still to come
  press     \* history of the last press: [playing, hold, spoiled, click]
game == <<running, hole, board>>
hold == <<finger, armed, peek, held, clears, press>>
vars == <<game, hold>>

None == "none"
Targets == {"board", "own", "other"}
NoPress == [playing |-> FALSE, hold |-> FALSE, spoiled |-> FALSE, click |-> None]

Init ==
  /\ running = FALSE /\ hole = {} /\ board = {}
  /\ finger = "up" /\ armed = None /\ peek = None /\ held = FALSE /\ clears = 0
  /\ press = NoPress

---------------------------------------------------------------------------------
(* What is enlarged.                                                       *)

\* The name under the own cards, with the board or on the own seat.
MyBestHand == BestHandName(hole \union board)
Named == hole # {} /\ peek \in {"board", "own"}

---------------------------------------------------------------------------------
(* The finger.                                                             *)

\* endPeek: closes what is enlarged, and lets a hold have its click.
EndPeek ==
  /\ held => clears < MaxClears
  /\ armed' = None /\ peek' = None
  /\ clears' = IF held THEN clears + 1 ELSE clears

\* Mutant: a press leaves heldRef alone.
PressKeepingHeld ==
  /\ finger = "up" /\ finger' = "on"
  /\ armed' \in IF running THEN Targets \ (IF hole = {} THEN {"own"} ELSE {}) ELSE {None}
  /\ press' = [NoPress EXCEPT !.playing = running]
  /\ UNCHANGED <<game, held, peek, clears>>

\* startPeek, which does nothing while no game runs.
Press ==
  /\ finger = "up" /\ finger' = "on"
  /\ armed' \in IF running THEN Targets \ (IF hole = {} THEN {"own"} ELSE {}) ELSE {None}
  /\ held' = (held /\ ~running)
  /\ press' = [NoPress EXCEPT !.playing = running]
  /\ UNCHANGED <<game, peek, clears>>

HoldElapses ==
  /\ armed # None
  /\ armed' = None /\ peek' = armed /\ held' = TRUE
  /\ press' = [press EXCEPT !.hold = TRUE]
  /\ UNCHANGED <<game, finger, clears>>

\* pointerleave or pointercancel: no click will come of this press.
Leave ==
  /\ finger = "on" /\ finger' = "off"
  /\ EndPeek
  /\ UNCHANGED <<game, held, press>>
LiftOff ==
  /\ finger = "off" /\ finger' = "up"
  /\ UNCHANGED <<game, armed, peek, held, clears, press>>

\* pointerup, and the click if the browser makes one: swallowed after a hold.
Release ==
  /\ finger = "on" /\ finger' = "up"
  /\ EndPeek
  /\ \/ held' = held /\ press' = press
     \/ held' = FALSE /\ press' = [press EXCEPT !.click = IF held THEN "eaten" ELSE "acts"]
  /\ UNCHANGED game

\* 300 ms after a release.
Clear ==
  /\ clears > 0 /\ clears' = clears - 1
  /\ held' = FALSE
  /\ press' = [press EXCEPT !.spoiled = @ \/ (held /\ finger = "on")]
  /\ UNCHANGED <<game, finger, armed, peek>>

---------------------------------------------------------------------------------
(* The game goes on meanwhile.                                             *)

NewHand ==
  /\ running' = TRUE /\ board' = {}
  /\ hole' \in {h \in Holes \union {{}} : running => (h = {}) = (hole = {})}
  /\ UNCHANGED hold

Deal ==
  /\ running
  /\ board' \in {board \union new : new \in kSubset(CASE board = {} -> 3
                                                      [] Cardinality(board) = 5 -> 0
                                                      [] OTHER -> 1, Deck \ (hole \union board))}
  /\ board' # board
  /\ UNCHANGED <<running, hole, hold>>

\* Without a game nothing can be enlarged: the effect ends it.
Stop ==
  /\ running /\ running' = FALSE
  /\ hole' = {} /\ board' = {}
  /\ EndPeek
  /\ UNCHANGED <<finger, held, press>>

Next == Press \/ HoldElapses \/ Leave \/ LiftOff \/ Release \/ Clear \/ NewHand \/ Deal \/ Stop

Spec == Init /\ [][Next]_vars

---------------------------------------------------------------------------------
(* Properties.                                                             *)

\* The enlarged cards are named by the best hand that can be made of them,
\* whatever street was dealt and whatever else was on the screen before.
NamesBestHand == Named => IsBestHand(hole \union board, MyBestHand)

\* A tap during the game is never swallowed, though holds without a click,
\* or that the end of the game cut off, leave heldRef set for a while.
TapsAct == press.click = "eaten" /\ press.playing => press.hold

\* The click of a hold does not act, unless the clearing of an earlier hold, or
\* of the end of the game, came while the finger was down.
HoldsDoNotAct == press.click = "acts" => ~press.hold \/ press.spoiled

\* So the table tells a tap from a hold.
TapsAndHolds == TapsAct /\ HoldsDoNotAct
=================================================================================
