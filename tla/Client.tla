--------------------------------- MODULE Client ---------------------------------
(***************************************************************************)
(* The page and the server on top of the link: logging in, joining,        *)
(* creating and leaving rooms, taking a seat, and getting all of it back   *)
(* after a lost connection, a reload or a login elsewhere.                 *)
(*                                                                         *)
(* page is the app state (AppStore.tsx), saved the browser's storage       *)
(* (session.ts).  The server has at most two connections of this browser,  *)
(* numbered 1 and 2: the page's own (mine) and one it has let go of but    *)
(* whose end the server has not noticed.  Messages are delivered in order, *)
(* those to the server in conn[c].in and those to the page in inbox.       *)
(*                                                                         *)
(* There is one account.  Other devices of it are one process, Elsewhere,  *)
(* which takes over its seat.  Chat, profiles, settings and voice are left *)
(* out, and the game is reduced to the room it is a snapshot of.           *)
(***************************************************************************)
EXTENDS Link, Integers, Sequences, FiniteSets

CONSTANTS
  Rooms, None,
  Disturbances,   \* how often network, server and other devices interfere
  SeatLimit,      \* how often the account takes a seat
  QueueLimit      \* a room's snapshots wait while more messages are under way

ASSUME ClientAssumption ==
  None \notin Rooms /\ Disturbances \in Nat /\ SeatLimit \in Nat

VARIABLES
  page,       \* [name, table, seat, game, settle]
  saved,      \* [login, name, table, seat]: browser storage
  abandoned,  \* abandonedRoom: the page gave its room up
  inbox,      \* messages to the page
  conn,       \* server: its connections to this browser
  mine,       \* which of them the page's socket is
  holder,     \* server: the connection the account is bound to
  seat,       \* server: the account's seat, [id, room]; id 0 is no seat
  armed,      \* server: the seats with an offline timer
  late,       \* server: those whose timer fired and is about to evict
  taken,      \* seats given out so far
  live,       \* server: rooms that exist
  calm,       \* disturbances left
  crossed     \* history: the user acted, or the seat was cleared, while the room was asked for

browser == <<page, saved, abandoned, crossed>>
timers  == <<armed, late>>
server  == <<conn, mine, holder, seat, timers, taken, live>>
vars    == <<link, browser, inbox, server, calm>>

Conns == {1, 2}
Elsewhere == 3
Nobody == 0

Blank == [name |-> FALSE, table |-> None, seat |-> 0, game |-> None, settle |-> FALSE]
NoLogin == [login |-> FALSE, name |-> FALSE, table |-> None, seat |-> 0]
Closed == [open |-> FALSE, auth |-> FALSE, table |-> None, seat |-> 0, sub |-> None,
           kicked |-> FALSE, in |-> <<>>]

Msg(act, r, s) == [act |-> act, room |-> r, seat |-> s]
Say(act) == Msg(act, None, 0)

Disturb == calm > 0 /\ calm' = calm - 1

---------------------------------------------------------------------------------
(* The page.                                                               *)

LeaveRoom(p) == [p EXCEPT !.seat = 0, !.game = None, !.table = None]
ClearGame(p) == [p EXCEPT !.seat = 0, !.game = None]
ResetGame(p) == [Blank EXCEPT !.settle = p.settle]
Named(p) == [p EXCEPT !.name = TRUE]
ShowSettlement(p) == [ClearGame(p) EXCEPT !.settle = TRUE]

ForgetRoom(v) == [v EXCEPT !.table = None, !.seat = 0]
SaveRoom(v, r, s) == [v EXCEPT !.table = r, !.seat = s]

Screen(p) ==
  CASE ~p.name -> "register"
    [] p.name /\ p.table = None -> "lobby"
    [] OTHER -> "game"

\* Input is locked while the snapshot of the room may be stale.
Inert == page.table # None /\ status # "connected"

\* Mounting the lobby asks for the account's record.
Mount(p, q) == IF Screen(q) = "lobby" /\ Screen(p) # "lobby" THEN <<Say("get-user")>> ELSE <<>>

Send(msgs) ==
  conn' = IF up /\ conn[mine].open THEN [conn EXCEPT ![mine].in = @ \o msgs] ELSE conn

\* What a message does to the page: p, v, a are page, saved and abandoned; ready
\* says that the socket is marked, say what is sent.
Outcome(p, v, a, ready, say) ==
  [page |-> p, saved |-> v, abandoned |-> a, ready |-> ready, say |-> say]

\* Mutant: only the seat is guarded, snapshots of the room are shown.
DroppedSeatOnly(m) == m.act = "update-player-uuid"

\* While the guard is up, messages about the room that was given up are dropped.
DroppedByGuard(m) == m.act \in {"update-player-uuid", "update-game", "settlement"}

\* Mutant: the guard keeps the seat to itself.
GuardSilently(m) == Outcome(page, saved, TRUE, FALSE, <<>>)

\* A seat that is handed back is released.
Guard(m) ==
  Outcome(page, saved, TRUE, FALSE,
          IF m.act = "update-player-uuid" THEN <<Msg("leave-table", m.room, 0)>> ELSE <<>>)

\* Mutant: a recycled room is left on the screen only.
ExpireKeeping(m) == Outcome(LeaveRoom(page), saved, abandoned, TRUE, <<>>)

\* session-expired
Expire(m) ==
  IF m.room = None
  THEN Outcome(ResetGame(page), NoLogin, abandoned, TRUE, <<>>)
  ELSE Outcome(LeaveRoom(page),
               IF saved.table \in {None, m.room} THEN ForgetRoom(saved) ELSE saved,
               abandoned, TRUE, <<>>)

\* onMessage, by action
Handle(m) ==
  CASE m.act = "pong" -> Outcome(page, saved, abandoned, ~saved.login, <<>>)
    [] m.act = "update-game" ->
         Outcome([page EXCEPT !.game = m.room], saved, abandoned, TRUE, <<>>)
    [] m.act = "update-player-uuid" ->
         Outcome([page EXCEPT !.seat = m.seat, !.table = m.room],
                 SaveRoom(saved, m.room, m.seat), abandoned, FALSE, <<>>)
    [] m.act = "login-result" ->
         Outcome(Named(page),
                 [saved EXCEPT !.login = TRUE, !.name = TRUE], abandoned, FALSE, <<>>)
    [] m.act = "create-ok" -> Outcome(page, saved, FALSE, FALSE, <<>>)
    [] m.act = "create-no" -> Outcome(LeaveRoom(page), saved, abandoned, FALSE, <<>>)
    [] m.act = "join-ok" ->
         Outcome([ClearGame(page) EXCEPT !.table = m.room],
                 SaveRoom(saved, m.room, 0), FALSE, FALSE, <<>>)
    [] m.act = "join-no" -> Outcome(page, saved, abandoned, FALSE, <<>>)
    [] m.act = "user-info" ->
         Outcome(Named(page), [saved EXCEPT !.name = TRUE],
                 abandoned, saved.table = None, <<>>)
    [] m.act = "session-expired" -> Expire(m)
    [] m.act = "settlement" ->
         Outcome(ShowSettlement(page), saved, abandoned, FALSE,
                 <<Say("get-user")>>)
    [] OTHER -> Outcome(page, saved, abandoned, FALSE, <<>>)

Receive(m) == IF abandoned /\ DroppedByGuard(m) THEN Guard(m) ELSE Handle(m)

\* React renders what the dispatches left.
Render(q, v, a) == page' = q /\ saved' = v /\ abandoned' = a

PageReceives ==
  /\ up /\ inbox # <<>>
  /\ LET m == Head(inbox)
         o == Receive(m)
     IN  /\ Render(o.page, o.saved, o.abandoned)
         /\ inbox' = Tail(inbox)
         /\ Send(o.say \o Mount(page, o.page))
         /\ IF o.ready THEN LinkReady ELSE UNCHANGED link
  /\ UNCHANGED <<crossed, mine, holder, seat, timers, taken, live, calm>>

\* The page's room is being decided: a request that gives it one, or the answer,
\* is under way.
RoomUnderWay ==
  \/ \E i \in 1 .. Len(conn[mine].in) : conn[mine].in[i].act \in
       {"reconnect-user", "join-table", "rejoin-table", "create-table", "take-seat"}
  \/ \E i \in 1 .. Len(inbox) : inbox[i].act \in {"join-ok", "create-no", "update-player-uuid"}

\* What the history remembers of a click, a settlement or an eviction.
RoomChanges == crossed' = (crossed \/ RoomUnderWay)

---------------------------------------------------------------------------------
(* The user.                                                               *)

\* The user may act whenever the page is not locked: before it has its answers,
\* too, but that is a disturbance.
Answered == marked /\ inbox = <<>> /\ conn[mine].in = <<>>

UserStep(q, v, msgs) ==
  /\ ~Inert
  /\ IF Answered THEN UNCHANGED calm ELSE Disturb
  /\ Render(q, v, abandoned) /\ RoomChanges
  /\ Send(msgs \o Mount(page, q))
  /\ UNCHANGED <<link, inbox, mine, holder, seat, timers, taken, live>>

\* Register.tsx: a new account or a known one.
Login == Screen(page) = "register" /\ up /\ UserStep(page, saved, <<Say("login")>>)

\* Lobby.tsx: logging out is between the page and its storage.
Logout == Screen(page) = "lobby" /\ UserStep(ResetGame(page), NoLogin, <<>>)

Join(r) ==
  Screen(page) = "lobby" /\ up /\ UserStep(page, saved, <<Msg("join-table", r, 0)>>)

Create(r) ==
  /\ Screen(page) = "lobby" /\ up
  /\ UserStep([ClearGame(page) EXCEPT !.table = r], SaveRoom(saved, r, 0),
              <<Msg("create-table", r, 0)>>)

\* Table.tsx: a free seat is tapped.
TakeSeat ==
  /\ Screen(page) = "game" /\ page.game # None /\ page.seat = 0 /\ up
  /\ UserStep(page, saved, <<Say("take-seat")>>)

\* Game.tsx: handleLeave
HandleLeave ==
  /\ Screen(page) = "game"
  /\ UserStep(LeaveRoom(page), ForgetRoom(saved), <<Msg("leave-table", page.table, 0)>>)

\* Settlement.tsx: close
CloseSettlement ==
  page.settle /\ UserStep([page EXCEPT !.settle = FALSE], saved, <<>>)

User ==
  \/ Login \/ Logout \/ TakeSeat \/ HandleLeave \/ CloseSettlement
  \/ \E r \in Rooms : Join(r) \/ Create(r)

---------------------------------------------------------------------------------
(* The page's socket.                                                      *)

\* Mutant: only a player with a room authenticates again.
ReplayRoomOnly ==
  IF ~saved.login \/ saved.table = None THEN <<>>
  ELSE <<Say("reconnect-user"), Msg("rejoin-table", saved.table, saved.seat)>>

\* What an effect of index.tsx replays on a new socket.
Replay ==
  IF ~saved.login THEN <<>>
  ELSE <<Say("reconnect-user")>> \o
       IF saved.table = None THEN <<>> ELSE <<Msg("rejoin-table", saved.table, saved.seat)>>

Replayed(p) ==
  IF ~saved.login THEN p
  ELSE IF saved.table # None THEN [p EXCEPT !.name = TRUE, !.table = saved.table]
  ELSE [p EXCEPT !.name = p.name \/ saved.name]

\* onOpen, the ping, and then the effects of the components on screen.  The
\* heartbeat's further pings do not matter: no message is lost but with its
\* socket, so the answer to this one or to the login marks the socket.
SocketOpens ==
  /\ LinkOpen
  /\ \E c \in Conns :
       /\ IF conn[mine].open THEN c # mine /\ ~conn[c].open ELSE c = mine
       /\ mine' = c
       /\ conn' = [conn EXCEPT ![c] =
            [Closed EXCEPT !.open = TRUE,
                           !.in = <<Say("ping")>> \o Replay \o Mount(page, Replayed(page))]]
  /\ inbox' = <<>>
  /\ page' = Replayed(page)
  /\ crossed' = (crossed /\ ~saved.login /\ page.table # None)   \* else settled anew
  /\ UNCHANGED <<saved, abandoned, holder, seat, timers, taken, live, calm>>

\* onDisconnect: what was sent to the page is lost, and any number of the last
\* messages to the server.
SocketGone ==
  /\ inbox' = <<>>
  /\ \E k \in 0 .. Len(conn[mine].in) :
       conn' = [conn EXCEPT ![mine].in = SubSeq(@, 1, k)]
  /\ UNCHANGED <<mine, holder, seat, timers, taken, live>>

SocketFails ==
  /\ up /\ Disturb
  /\ LinkFail \/ LinkReplace
  /\ SocketGone /\ UNCHANGED browser

\* The server closed the connection, after what it had to say.
ServerClosed ==
  /\ up /\ ~conn[mine].open /\ inbox = <<>>
  /\ LinkFail /\ SocketGone /\ UNCHANGED <<browser, calm>>

\* Nothing is under way and the socket is not marked: the attempt runs out.
NothingComes == up /\ ~marked /\ inbox = <<>> /\ conn[mine].in = <<>>

AttemptTimesOut ==
  /\ NothingComes
  /\ LinkFail /\ SocketGone /\ UNCHANGED <<browser, calm>>

\* onTimeout: the room is given up.
GiveUp ==
  /\ LinkGiveUp
  /\ Render([LeaveRoom(page) EXCEPT !.settle = FALSE], ForgetRoom(saved), TRUE)
  /\ SocketGone /\ UNCHANGED crossed
OutageTimesOut ==
  /\ IF NothingComes THEN UNCHANGED calm ELSE Disturb
  /\ GiveUp

\* The page is loaded anew: only storage is left.
Reload ==
  /\ Disturb
  /\ page' = Blank /\ abandoned' = FALSE
  /\ Dropped /\ gaveUp' = FALSE /\ status' = "connecting"
  /\ SocketGone /\ UNCHANGED <<saved, crossed>>

Socket ==
  \/ SocketOpens \/ SocketFails \/ ServerClosed
  \/ AttemptTimesOut \/ OutageTimesOut \/ Reload

---------------------------------------------------------------------------------
(* The server.                                                             *)

NoSeat == [id |-> 0, room |-> None]

\* seatHasClient: some connection registered with the room holds the seat.
SeatHasClient(id) ==
  /\ seat.id = id
  /\ \/ holder = Elsewhere
     \/ \E c \in Conns : conn[c].sub = seat.room /\ conn[c].seat = id

\* tableHasPlayer for the seat of connection k
HoldsSeat(k) ==
  /\ seat.id # 0
  /\ k = Elsewhere \/ (k \in Conns /\ conn[k].table = seat.room /\ conn[k].seat = seat.id)

Reply(c, msgs) == inbox' = IF c = mine /\ up THEN inbox \o msgs ELSE inbox

Game(r) == Msg("update-game", r, 0)
SeatGiven(s) == <<Msg("update-player-uuid", s.room, s.id), Game(s.room)>>

\* The connection without the message it is serving.
Rest(c) == [conn EXCEPT ![c].in = Tail(@)]

\* kickClient
Kick(cn, c) ==
  IF holder \in Conns \ {c} THEN [cn EXCEPT ![holder].kicked = TRUE] ELSE cn

\* bindSession's choice: the seat of the connection that is replaced, or one
\* that nobody holds.
SeatToTransfer(c) ==
  IF \/ holder \notin {Nobody, c} /\ HoldsSeat(holder)
     \/ conn[c].table = None /\ ~SeatHasClient(seat.id)
  THEN seat ELSE NoSeat

\* markPlayerOnline: a timer that has fired is not stopped any more.
MarkOnline(id) == armed' = armed \ {id}

\* The end of every authentication: conn[c] becomes the account's connection.
BindSession(c, answers) ==
  LET s  == SeatToTransfer(c)
      cn == Kick([Rest(c) EXCEPT ![c].auth = TRUE], c)
  IN  /\ holder' = c
      /\ IF s.id = 0
         THEN conn' = cn /\ Reply(c, answers) /\ UNCHANGED armed
         ELSE /\ conn' = [cn EXCEPT ![c].table = s.room, ![c].seat = s.id]
              /\ Reply(c, answers \o SeatGiven(s))
              /\ MarkOnline(s.id)
      /\ UNCHANGED <<seat, late, taken, live>>

Answer(c, msgs) ==
  conn' = Rest(c) /\ Reply(c, msgs) /\ UNCHANGED <<holder, seat, timers, taken, live>>

\* A kicked connection, or one without an account or a room, is not served.
Refused(c, act) ==
  \/ conn[c].kicked
  \/ ~conn[c].auth /\ act \notin {"ping", "login", "reconnect-user"}
  \/ conn[c].table = None /\ act \in {"leave-table", "take-seat"}

HandleLogin(c) ==
  IF conn[c].table # None THEN Answer(c, <<>>)
  ELSE BindSession(c, <<Say("login-result"), Say("user-info")>>)

\* A login on another device made this browser's token invalid.
HandleReconnectUser(c) ==
  IF holder = Elsewhere THEN Answer(c, <<Say("session-expired")>>)
  ELSE BindSession(c, <<Say("user-info")>>)

Enter(c, r, msgs) ==
  /\ conn' = [Rest(c) EXCEPT ![c].table = r]
  /\ Reply(c, msgs)
  /\ UNCHANGED <<holder, seat, timers, taken>>

InOther(c, r) == conn[c].table \notin {None, r}

HandleJoinTable(c, r) ==
  \/ InOther(c, r) /\ Answer(c, <<Msg("join-no", r, 0)>>)
  \/ conn[c].table = r /\ Answer(c, <<Msg("join-ok", r, 0), Game(r)>>)
  \/ conn[c].table = None /\ r \notin live /\ Answer(c, <<Msg("join-no", r, 0)>>)
  \/ conn[c].table = None /\ r \in live /\ Enter(c, r, <<Msg("join-ok", r, 0), Game(r)>>)
       /\ UNCHANGED live

\* handleReconnectTable: with a seat id only its owner gets in, without one
\* everybody does, to watch.
HandleReconnectTable(c, r, id) ==
  LET mySeat == id # 0 /\ seat = [id |-> id, room |-> r]
      gone   == r \notin live \/ (id # 0 /\ ~mySeat)
  IN  \/ InOther(c, r) /\ Answer(c, <<Msg("join-no", r, 0)>>)
      \/ ~InOther(c, r) /\ gone /\ Answer(c, <<Msg("session-expired", r, 0)>>)
      \/ /\ ~InOther(c, r) /\ ~gone /\ mySeat
         /\ conn' = [Rest(c) EXCEPT ![c].table = r, ![c].seat = id]
         /\ Reply(c, SeatGiven(seat))
         /\ MarkOnline(id) /\ UNCHANGED <<holder, seat, late, taken, live>>
      \/ ~InOther(c, r) /\ ~gone /\ ~mySeat /\ Enter(c, r, <<Game(r)>>) /\ UNCHANGED live

HandleCreateTable(c, r) ==
  \/ (conn[c].table # None \/ r \in live) /\ Answer(c, <<Msg("create-no", r, 0)>>)
  \/ /\ conn[c].table = None /\ r \notin live
     /\ Enter(c, r, <<Game(r), Msg("create-ok", r, 0)>>)
     /\ live' = live \union {r}

\* handleLeaveTable leaves the connection's room, whatever the message names.
HandleLeaveTable(c) ==
  /\ conn' = [Rest(c) EXCEPT ![c].table = None, ![c].seat = 0]
  /\ seat' = IF HoldsSeat(c) THEN NoSeat ELSE seat
  /\ Reply(c, <<>>)
  /\ UNCHANGED <<holder, timers, taken, live>>

HandleTakeSeat(c) ==
  IF seat.id # 0 \/ taken = SeatLimit THEN Answer(c, <<>>)
  ELSE LET s == [id |-> taken + 1, room |-> conn[c].table]
       IN  /\ seat' = s /\ taken' = taken + 1
           /\ conn' = [Rest(c) EXCEPT ![c].seat = s.id]
           /\ Reply(c, SeatGiven(s))
           /\ UNCHANGED <<holder, timers, live>>

HandleGetUser(c) == Answer(c, <<Say("user-info")>>)

\* processEvents.  What a lost socket left behind is served first.
Serve(c) ==
  /\ conn[c].open /\ conn[c].in # <<>>
  /\ c = mine => \A d \in Conns \ {c} : conn[d].in = <<>>
  /\ LET m == Head(conn[c].in) IN
     IF Refused(c, m.act) THEN Answer(c, <<>>)
     ELSE \/ m.act = "ping" /\ Answer(c, <<Say("pong")>>)
          \/ m.act = "login" /\ HandleLogin(c)
          \/ m.act = "reconnect-user" /\ HandleReconnectUser(c)
          \/ m.act = "get-user" /\ HandleGetUser(c)
          \/ m.act = "join-table" /\ HandleJoinTable(c, m.room)
          \/ m.act = "rejoin-table" /\ HandleReconnectTable(c, m.room, m.seat)
          \/ m.act = "create-table" /\ HandleCreateTable(c, m.room)
          \/ m.act = "leave-table" /\ HandleLeaveTable(c)
          \/ m.act = "take-seat" /\ HandleTakeSeat(c)
  /\ UNCHANGED <<link, browser, mine, calm>>

---------------------------------------------------------------------------------
(* The room's goroutine, timers and teardown.                              *)

\* table.run: a connection that came or went is registered, and the room told.
\* (Its two channels are taken as one: what a connection did last counts.)
TableRuns(c) ==
  /\ conn[c].sub # conn[c].table
  /\ conn' = [conn EXCEPT ![c].sub = conn[c].table]
  /\ Reply(c, IF conn[c].table = None THEN <<>> ELSE <<Game(conn[c].table)>>)
  /\ UNCHANGED <<link, browser, mine, holder, seat, timers, taken, live, calm>>

\* A snapshot for everybody registered, whatever it is that changed.
RoomPublishes ==
  /\ up /\ conn[mine].open /\ conn[mine].sub # None
  /\ Len(inbox) < QueueLimit
  /\ Game(conn[mine].sub) \notin {inbox[i] : i \in 1 .. Len(inbox)}
  /\ inbox' = Append(inbox, Game(conn[mine].sub))
  /\ UNCHANGED <<link, browser, server, calm>>

\* settleLocked: every seat is cashed out; connections keep the id they had.
SettlesFor(c) == up /\ c = mine /\ conn[c].open /\ conn[c].sub = seat.room
Settle ==
  /\ seat.id # 0 /\ Disturb
  /\ seat' = NoSeat /\ RoomChanges
  /\ inbox' = IF SettlesFor(mine)
              THEN inbox \o <<Say("settlement"), Game(seat.room)>> ELSE inbox
  /\ UNCHANGED <<link, page, saved, abandoned, conn, mine, holder, timers, taken, live>>

\* destroyTable, of a room nobody is in.
RoomDies(r) ==
  /\ r \in live /\ seat.room # r
  /\ \A c \in Conns : r \notin {conn[c].table, conn[c].sub}
  /\ Disturb
  /\ live' = live \ {r}
  /\ UNCHANGED <<link, browser, inbox, conn, mine, holder, seat, timers, taken>>

\* The server's end of a socket the page let go of, or of a kicked one.
Lost(c) == conn[c].open /\ (c # mine \/ ~up \/ conn[c].kicked)

\* hub.unregister: forgetSession
Forget(c) ==
  /\ Lost(c) /\ holder = c /\ conn[c].in = <<>>
  /\ holder' = Nobody
  /\ UNCHANGED <<link, browser, inbox, conn, mine, seat, timers, taken, live, calm>>

\* detachTable, and for a kicked connection the notice that goes before.
Detach(c) ==
  /\ Lost(c) /\ holder # c
  /\ conn[c].kicked \/ conn[c].in = <<>>
  /\ conn' = [conn EXCEPT ![c].open = FALSE, ![c].table = None, ![c].in = <<>>]
  /\ armed' = IF conn[c].kicked \/ conn[c].seat = 0 THEN armed ELSE armed \union {conn[c].seat}
  /\ Reply(c, IF conn[c].kicked THEN <<Say("session-expired")>> ELSE <<>>)
  /\ UNCHANGED <<link, browser, mine, holder, seat, late, taken, live, calm>>

\* Within the timer's minute a connection that was kicked or closed is gone from
\* its room.
Noticed == \A c \in Conns : conn[c].kicked \/ ~conn[c].open => conn[c].sub = None

\* Mutant: whoever has a timer is evicted.
GraceEnds(id) ==
  /\ id \in armed /\ Noticed
  /\ armed' = armed \ {id} /\ late' = late \union {id}
  /\ UNCHANGED <<link, browser, inbox, conn, mine, holder, seat, taken, live, calm>>

\* timeoutPlayer: the timer fires and looks whether the player is back ...
GraceChecks(id) ==
  /\ id \in armed /\ Noticed
  /\ armed' = armed \ {id}
  /\ late' = IF SeatHasClient(id) THEN late ELSE late \union {id}
  /\ UNCHANGED <<link, browser, inbox, conn, mine, holder, seat, taken, live, calm>>

\* ... and removes the player, who may have come back in between.
GraceEvicts(id) ==
  /\ id \in late
  /\ late' = late \ {id}
  /\ IF seat.id = id THEN seat' = NoSeat /\ RoomChanges ELSE UNCHANGED <<seat, crossed>>
  /\ UNCHANGED <<link, page, saved, abandoned, inbox, conn, mine, holder, armed, taken, live, calm>>

\* The account logs in on another device, which takes its seat over.
OtherDevice ==
  /\ holder # Elsewhere /\ Disturb
  /\ holder' = Elsewhere
  /\ conn' = Kick(conn, Elsewhere)
  /\ MarkOnline(seat.id)
  /\ UNCHANGED <<link, browser, inbox, mine, seat, late, taken, live>>

Server ==
  \/ \E c \in Conns : Serve(c) \/ TableRuns(c) \/ Forget(c) \/ Detach(c)
  \/ RoomPublishes \/ Settle \/ OtherDevice
  \/ \E id \in 1 .. SeatLimit : GraceChecks(id) \/ GraceEvicts(id)
  \/ \E r \in Rooms : RoomDies(r)

---------------------------------------------------------------------------------
Init ==
  /\ LinkInit
  /\ page = Blank /\ saved = NoLogin /\ abandoned = FALSE
  /\ inbox = <<>> /\ crossed = FALSE
  /\ conn = [c \in Conns |-> Closed] /\ mine = 1
  /\ holder = Nobody /\ seat = NoSeat /\ taken = 0
  /\ armed = {} /\ late = {}
  /\ live \in SUBSET Rooms
  /\ calm = Disturbances

Next == PageReceives \/ User \/ Socket \/ Server

Spec == Init /\ [][Next]_vars

\* Messages arrive, goroutines run, sockets are tried again, timers run out.
\* Nothing is assumed of the user.
Fairness ==
  /\ WF_vars(PageReceives) /\ WF_vars(SocketOpens)
  /\ WF_vars(ServerClosed) /\ WF_vars(AttemptTimesOut)
  /\ SF_vars(NothingComes /\ GiveUp /\ UNCHANGED calm)
  /\ \A id \in 1 .. SeatLimit : SF_vars(GraceChecks(id)) /\ SF_vars(GraceEvicts(id))
  /\ \A c \in Conns :
       WF_vars(Serve(c)) /\ WF_vars(TableRuns(c)) /\ WF_vars(Forget(c)) /\ WF_vars(Detach(c))

FairSpec == Spec /\ Fairness

---------------------------------------------------------------------------------
(* Properties.                                                             *)

\* Every variable has its type.
TypeOK ==
  /\ LinkTypeOK
  /\ page \in [name : BOOLEAN, table : Rooms \union {None}, seat : 0 .. SeatLimit,
               game : Rooms \union {None}, settle : BOOLEAN]
  /\ saved \in [login : BOOLEAN, name : BOOLEAN, table : Rooms \union {None},
                seat : 0 .. SeatLimit]
  /\ holder \in {Nobody, Elsewhere} \union Conns /\ seat.id \in 0 .. SeatLimit
  /\ armed \subseteq 1 .. SeatLimit /\ late \subseteq 1 .. SeatLimit /\ live \subseteq Rooms
  /\ crossed \in BOOLEAN

\* A room that was given up stays given up: nothing that was under way, or that
\* the server hands back, puts it on the screen again.
GivenUpStaysOut == abandoned => page.seat = 0 /\ page.game = None /\ ~page.settle

\* The seat of a room that was given up is released, by the page when the server
\* hands it back or by the offline timer.
GivenUpIsReleased ==
  (abandoned /\ seat.id # 0) ~> (seat.id = 0 \/ ~abandoned \/ holder = Elsewhere)

\* Once nothing is under way, page and server agree on the account; and on the
\* room and the seat unless, since the socket opened, the user acted or the seat
\* was cleared while the room was being asked for.
AtRest ==
  /\ marked /\ inbox = <<>> /\ saved.login /\ conn[mine].open
  /\ \A c \in Conns : conn[c].in = <<>> /\ ~conn[c].kicked /\ conn[c].sub = conn[c].table
AccountAgrees == AtRest => page.name /\ holder = mine
RoomAgrees ==
  /\ AccountAgrees
  /\ AtRest /\ ~crossed =>
       /\ page.table = conn[mine].table
       /\ HoldsSeat(mine) => page.seat = seat.id

\* A seat is lost to its player, to a settlement or to a timer, and no timer goes
\* on to evict a player who is at the table when it fires: old connections and
\* their late messages, and timers they leave behind, remove nobody.
Leaves(c) ==
  /\ conn[c].in # <<>> /\ Head(conn[c].in).act = "leave-table"
  /\ conn'[c].in = Tail(conn[c].in)
SeatIsKept ==
  [][/\ seat.id # 0 /\ seat'.id = 0 =>
          (holder \in Conns /\ Leaves(holder)) \/ Settle \/ seat.id \in late \ late'
     /\ seat.id \in late' \ late => ~SeatHasClient(seat.id)]_vars

\* Whatever is lost on the way, the page gets its answers in the end and unlocks.
EventuallyReady == <>[]marked
=================================================================================
