---------------------------------- MODULE Link ----------------------------------
(***************************************************************************)
(* What the page may rely on from its connection (web/lib/                 *)
(* socketConnection.ts): it holds at most one socket; a socket is marked   *)
(* by the page itself, with ready(), once the server has answered; and the *)
(* page is told to give its room up only while no socket is marked.        *)
(* Module Connection implements this with its timers; module Client runs   *)
(* the page on top of it.                                                  *)
(***************************************************************************)
VARIABLES
  up,        \* the page holds an open socket (onOpen was called)
  marked,    \* ready() was called for this socket
  gaveUp,    \* onTimeout was called and nothing was marked since
  status     \* what the page shows

link == <<up, marked, gaveUp, status>>

LinkTypeOK ==
  /\ up \in BOOLEAN /\ marked \in BOOLEAN /\ gaveUp \in BOOLEAN
  /\ status \in {"connecting", "connected", "reconnecting", "disconnected"}
  /\ marked => up

LinkInit == up = FALSE /\ marked = FALSE /\ gaveUp = FALSE /\ status = "connecting"

Dropped == up' = FALSE /\ marked' = FALSE

\* A new socket opens.
LinkOpen == ~up /\ up' = TRUE /\ UNCHANGED <<marked, gaveUp, status>>

\* The socket, open or still connecting, fails.
LinkFail ==
  /\ Dropped
  /\ status' = IF gaveUp THEN status ELSE "reconnecting"
  /\ UNCHANGED gaveUp

\* The socket is let go without a word to the page.
LinkReplace == Dropped /\ UNCHANGED <<gaveUp, status>>

\* Nothing was marked for too long: the page is told to give its room up.
LinkGiveUp ==
  /\ ~marked /\ ~gaveUp
  /\ Dropped /\ gaveUp' = TRUE /\ status' = "disconnected"

\* The page marks the socket.
LinkReady ==
  /\ up
  /\ marked' = TRUE /\ gaveUp' = FALSE /\ status' = "connected"
  /\ UNCHANGED up

LinkNext == LinkOpen \/ LinkFail \/ LinkReplace \/ LinkGiveUp \/ LinkReady

LinkSpec == LinkInit /\ [][LinkNext]_link
=================================================================================
