------------------------------- MODULE Connection -------------------------------
(***************************************************************************)
(* The page's connection to the server (web/lib/socketConnection.ts): one  *)
(* WebSocket, replaced whenever it fails, with a timer for the retry, for  *)
(* an attempt (connect, authenticate, restore the room), for the whole     *)
(* outage and for a probe after the page wakes up, and a heartbeat.        *)
(*                                                                         *)
(* Timers expire in any order.  A timer that expires although the server   *)
(* can be reached, a socket that breaks and a page that sleeps and wakes   *)
(* are disturbances; a behaviour has at most Disturbances of them.         *)
(***************************************************************************)
EXTENDS Naturals

CONSTANTS
  Disturbances,   \* how often the network or the user interferes
  Beat,           \* seconds between two heartbeats
  Silence         \* seconds without a message after which a socket is dead

ASSUME ConnectionAssumption ==
  Disturbances \in Nat /\ Beat \in Nat \ {0} /\ Silence \in Nat

VARIABLES
  socket,      \* "none", "connecting", "open" or "closing" (its event is due)
  wire,        \* what is sent on the socket gets through, both ways
  timers,      \* those set, of "retry", "attempt", "outage" and "probe"
  heard,       \* a message came since the probe was set
  quiet,       \* heartbeats since the last message
  expired, disposed, status,
  marked,      \* history: ready() was called for this socket
  calm         \* disturbances left

connection == <<socket, wire, timers, heard, quiet, expired, disposed, status, marked, calm>>

Timers == {"retry", "attempt", "outage", "probe"}

TypeOK ==
  /\ socket \in {"none", "connecting", "open", "closing"}
  /\ wire \in BOOLEAN /\ heard \in BOOLEAN /\ expired \in BOOLEAN
  /\ disposed \in BOOLEAN /\ marked \in BOOLEAN
  /\ timers \subseteq Timers
  /\ quiet \in Nat /\ calm \in 0..Disturbances
  /\ status \in {"connecting", "connected", "reconnecting", "disconnected"}

Disturb == calm > 0 /\ calm' = calm - 1

\* A timer that runs out while the server can be reached ran out early.
TimesOut == IF wire THEN Disturb ELSE UNCHANGED calm

\* beginOutage
OutageClock == IF expired THEN {} ELSE {"outage"}

\* disconnect, and what is left of the old socket's state.
LetGo == marked' = FALSE /\ heard' = FALSE /\ quiet' = 0

\* fail
Fail ==
  /\ socket' = "none" /\ LetGo
  /\ timers' = (timers \ {"attempt", "probe"}) \union OutageClock \union {"retry"}
  /\ status' = IF expired THEN status ELSE "reconnecting"
  /\ UNCHANGED <<wire, expired, disposed>>

\* Mutant: only the TCP connection is bounded, by the browser.
ConnectUnbounded ==
  /\ socket' = "connecting" /\ LetGo
  /\ timers' = (timers \ {"retry", "probe"}) \union OutageClock
  /\ UNCHANGED <<expired, disposed, status>>

\* connect
Connect ==
  /\ socket' = "connecting" /\ LetGo
  /\ timers' = (timers \ {"retry", "probe"}) \union OutageClock \union {"attempt"}
  /\ UNCHANGED <<expired, disposed, status>>

ConnectionInit ==
  /\ socket = "connecting" /\ wire = TRUE
  /\ timers = {"attempt", "outage"}
  /\ heard = FALSE /\ quiet = 0
  /\ expired = FALSE /\ disposed = FALSE /\ marked = FALSE
  /\ status = "connecting" /\ calm = Disturbances

---------------------------------------------------------------------------------
(* The timers.                                                             *)

Retry == "retry" \in timers /\ Connect /\ wire' = TRUE /\ UNCHANGED calm

AttemptTimesOut == "attempt" \in timers /\ TimesOut /\ Fail

\* Mutant: the socket that is restoring the room is kept.
OutageTimesOutKeeping ==
  /\ "outage" \in timers
  /\ expired' = TRUE /\ status' = "disconnected"
  /\ timers' = timers \ {"outage"}
  /\ UNCHANGED <<socket, marked, heard, quiet, wire, disposed, calm>>

\* The page is told to give up; then fail() drops replies still in flight.
OutageTimesOut ==
  /\ "outage" \in timers
  /\ expired' = TRUE /\ status' = "disconnected"
  /\ socket' = "none" /\ LetGo
  /\ timers' = (timers \ {"outage", "attempt", "probe"}) \union {"retry"}
  /\ UNCHANGED <<wire, disposed, calm>>

ProbeAnswered ==
  /\ "probe" \in timers /\ heard
  /\ timers' = timers \ {"probe"}
  /\ UNCHANGED <<socket, wire, heard, quiet, expired, disposed, status, marked, calm>>

ProbeTimesOut == "probe" \in timers /\ ~heard /\ TimesOut /\ Fail

\* Mutant: a ping that was sent counts as a sign of life.
HeartbeatPingsForgetting ==
  /\ socket = "open" /\ Beat * quiet < Silence
  /\ quiet' = 0
  /\ UNCHANGED <<socket, wire, timers, heard, expired, disposed, status, marked, calm>>

\* The last message is between Beat * quiet and Beat * (quiet + 1) seconds old.
HeartbeatPings ==
  /\ socket = "open" /\ Beat * quiet < Silence
  /\ quiet' = quiet + 1
  /\ UNCHANGED <<socket, wire, timers, heard, expired, disposed, status, marked, calm>>

HeartbeatFails == socket = "open" /\ Beat * (quiet + 1) >= Silence /\ TimesOut /\ Fail

---------------------------------------------------------------------------------
(* Events of the socket.                                                   *)

Opens ==
  /\ socket = "connecting" /\ wire
  /\ socket' = "open" /\ quiet' = 0
  /\ UNCHANGED <<wire, timers, heard, expired, disposed, status, marked, calm>>

\* A message the page does not take as the answer it waits for.
Hears ==
  /\ socket = "open" /\ wire
  /\ quiet' = 0 /\ heard' = TRUE
  /\ UNCHANGED <<socket, wire, timers, expired, disposed, status, marked, calm>>

\* ready, called while the page handles the message it waited for.
HearsReady ==
  /\ socket = "open" /\ wire
  /\ quiet' = 0 /\ heard' = TRUE
  /\ timers' = timers \ {"attempt", "outage"}
  /\ expired' = FALSE /\ status' = "connected" /\ marked' = TRUE
  /\ UNCHANGED <<socket, wire, disposed, calm>>

\* The server starts the closing handshake: the socket is no longer open,
\* and its close event is yet to come.
Closing ==
  /\ socket = "open" /\ Disturb
  /\ socket' = "closing"
  /\ UNCHANGED <<wire, timers, heard, quiet, expired, disposed, status, marked>>

\* onclose or onerror
Closes ==
  /\ socket # "none"
  /\ IF socket = "closing" THEN UNCHANGED calm ELSE TimesOut
  /\ Fail

\* The link dies and nobody is told.
Cut ==
  /\ socket # "none" /\ wire /\ Disturb
  /\ wire' = FALSE
  /\ UNCHANGED <<socket, timers, heard, quiet, expired, disposed, status, marked>>

---------------------------------------------------------------------------------
(* Events of the window.                                                   *)

\* wake, with no open socket: at once a new one, which may not get through.
WakeConnects ==
  /\ ~disposed /\ socket # "open" /\ Disturb
  /\ Connect /\ wire' \in BOOLEAN

\* wake, with an open socket: it is probed.
WakeProbes ==
  /\ ~disposed /\ socket = "open" /\ Disturb
  /\ timers' = timers \union {"probe"} /\ heard' = FALSE
  /\ UNCHANGED <<socket, wire, quiet, expired, disposed, status, marked>>

Offline == ~disposed /\ Disturb /\ Fail

Dispose ==
  /\ ~disposed /\ disposed' = TRUE
  /\ timers' = {} /\ socket' = "none" /\ LetGo
  /\ UNCHANGED <<wire, expired, status, calm>>

---------------------------------------------------------------------------------
ConnectionNext ==
  \/ Retry \/ AttemptTimesOut \/ OutageTimesOut \/ ProbeAnswered \/ ProbeTimesOut
  \/ HeartbeatPings \/ HeartbeatFails
  \/ Opens \/ Hears \/ HearsReady \/ Closing \/ Closes \/ Cut
  \/ WakeConnects \/ WakeProbes \/ Offline \/ Dispose

ConnectionSpec == ConnectionInit /\ [][ConnectionNext]_connection

\* Timers run out, an open socket is answered, and close events are delivered.
Fairness ==
  /\ WF_connection(Retry) /\ WF_connection(AttemptTimesOut) /\ WF_connection(OutageTimesOut)
  /\ WF_connection(ProbeAnswered) /\ WF_connection(ProbeTimesOut)
  /\ WF_connection(HeartbeatPings) /\ WF_connection(HeartbeatFails)
  /\ WF_connection(Opens) /\ WF_connection(HearsReady)
  /\ WF_connection(socket = "closing" /\ Closes)

FairConnectionSpec == ConnectionSpec /\ Fairness

---------------------------------------------------------------------------------
(* Properties.                                                             *)

\* A marked socket, a retry to come, or an attempt with a deadline.
WayOn ==
  IF marked THEN socket \in {"open", "closing"}
  ELSE IF socket = "none" THEN "retry" \in timers ELSE "attempt" \in timers
OutageRuns == ~marked /\ ~expired => "outage" \in timers
Reached ==
  marked => /\ ~expired /\ status = "connected"
            /\ timers \intersect {"retry", "attempt", "outage"} = {}

\* The connection always has a way on: a marked socket, or a pending retry, or
\* an attempt with a deadline; and until a socket is marked the outage runs or
\* has run out.  Otherwise the page would wait for ever with its table locked.
\* One that was disposed of (React unmounts, or mounts twice) has no socket and
\* no timer left that could act again.
NeverStranded ==
  IF disposed THEN socket = "none" /\ timers = {} ELSE WayOn /\ OutageRuns /\ Reached

\* Once the network and the user leave it alone, the page gets connected and
\* stays so, whatever timers were running; also when the link had died before
\* without a word to the page, which still took it for connected.
EventuallyConnected == <>[](disposed \/ (marked /\ wire /\ status = "connected"))

\* The rest of the page sees a link: it gives up only while nothing is marked,
\* and never again before the next mark.
L == INSTANCE Link WITH up <- socket \in {"open", "closing"}, gaveUp <- expired
ImplementsLink == L!LinkSpec
=================================================================================
