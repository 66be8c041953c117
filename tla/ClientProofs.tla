------------------------------ MODULE ClientProofs ------------------------------
(***************************************************************************)
(* Proofs about module Client, for any rooms, seats and disturbances: a    *)
(* room the page gave up never comes back to the screen                    *)
(* (GivenUpRoomsStayOut), a player at the table keeps the seat             *)
(* (SeatsAreKept), and page and server agree on the account once nothing   *)
(* is under way (AccountsAgree).                                           *)
(***************************************************************************)
EXTENDS Client, TLAPS

PageShape ==
  /\ DOMAIN page = {"name", "table", "seat", "game", "settle"}
  /\ abandoned \in BOOLEAN

IInv == PageShape /\ GivenUpStaysOut

\* What the page may look like after a step: p, with a for abandoned.
Fine(p, a) ==
  /\ DOMAIN p = {"name", "table", "seat", "game", "settle"} /\ a \in BOOLEAN
  /\ a => p.seat = 0 /\ p.game = None /\ ~p.settle

LEMMA FineIsInv == IInv <=> Fine(page, abandoned)
BY DEF IInv, PageShape, GivenUpStaysOut, Fine

LEMMA FineNext == Fine(page', abandoned') => IInv'
BY DEF IInv, PageShape, GivenUpStaysOut, Fine

\* The assignments the page is changed by.
LEMMA EditsFine ==
  ASSUME NEW p, NEW a, Fine(p, a), NEW r
  PROVE  /\ Fine(Named(p), a)
         /\ Fine([p EXCEPT !.settle = FALSE], a)
         /\ Fine([ClearGame(p) EXCEPT !.table = r], a)
         /\ Fine(LeaveRoom(p), a)
         /\ Fine(ResetGame(p), a)
         /\ Fine(p, FALSE)
<1> USE DEF Fine
<1>1. Fine(Named(p), a)
  BY DEF Named
<1>2. Fine([p EXCEPT !.settle = FALSE], a)
  OBVIOUS
<1>3. Fine([ClearGame(p) EXCEPT !.table = r], a)
  BY DEF ClearGame
<1>4. Fine(LeaveRoom(p), a)
  BY DEF LeaveRoom
<1>5. Fine(ResetGame(p), a)
  BY DEF ResetGame, Blank
<1>6. Fine(p, FALSE)
  OBVIOUS
<1> QED BY <1>1, <1>2, <1>3, <1>4, <1>5, <1>6

\* While no room was given up, the page may show what it likes.
LEMMA OpenFine ==
  ASSUME NEW p, Fine(p, FALSE), NEW r, NEW s
  PROVE  /\ Fine([p EXCEPT !.game = r], FALSE)
         /\ Fine([p EXCEPT !.seat = s, !.table = r], FALSE)
         /\ Fine(ShowSettlement(p), FALSE)
BY DEF Fine, ClearGame, ShowSettlement

\* What a message does: the guard changes nothing, and of the rest only the
\* answers to a new join or create, which end the state, and those about the
\* account change the page.
LEMMA ReceiveFine ==
  ASSUME IInv, NEW m
  PROVE  Fine(Receive(m).page, Receive(m).abandoned)
<1>0. Fine(page, abandoned)
  BY FineIsInv
<1>1. CASE abandoned /\ DroppedByGuard(m)
  <2>1. Receive(m).page = page /\ Receive(m).abandoned = TRUE
    BY <1>1 DEF Receive, Guard, Outcome
  <2>2. abandoned = TRUE
    BY <1>1, <1>0 DEF Fine
  <2> QED BY <1>0, <2>1, <2>2
<1>2. CASE ~(abandoned /\ DroppedByGuard(m))
  <2>0. Receive(m) = Handle(m)
    BY <1>2 DEF Receive
  <2>1. CASE m.act = "session-expired"
    <3>1. Receive(m) = Expire(m)
      BY <2>0, <2>1 DEF Handle
    <3>2. /\ Receive(m).page \in {ResetGame(page), LeaveRoom(page)}
          /\ Receive(m).abandoned = abandoned
      BY <3>1 DEF Expire, Outcome
    <3> QED BY <1>0, <3>2, EditsFine
  <2>2. CASE m.act = "update-game"
    <3>1. abandoned = FALSE
      BY <1>0, <1>2, <2>2 DEF DroppedByGuard, Fine
    <3>2. Receive(m).page = [page EXCEPT !.game = m.room]
      BY <2>0, <2>2 DEF Handle, Outcome
    <3>3. Receive(m).abandoned = FALSE
      BY <2>0, <2>2, <3>1 DEF Handle, Outcome
    <3>4. Fine([page EXCEPT !.game = m.room], FALSE)
      BY <1>0, <3>1, OpenFine
    <3> QED BY <3>2, <3>3, <3>4
  <2>3. CASE m.act = "update-player-uuid"
    <3>1. abandoned = FALSE
      BY <1>0, <1>2, <2>3 DEF DroppedByGuard, Fine
    <3>2. Receive(m).page = [page EXCEPT !.seat = m.seat, !.table = m.room]
      BY <2>0, <2>3 DEF Handle, Outcome
    <3>3. Receive(m).abandoned = FALSE
      BY <2>0, <2>3, <3>1 DEF Handle, Outcome
    <3>4. Fine([page EXCEPT !.seat = m.seat, !.table = m.room], FALSE)
      BY <1>0, <3>1, OpenFine
    <3> QED BY <3>2, <3>3, <3>4
  <2>4. CASE m.act = "settlement"
    <3>1. abandoned = FALSE
      BY <1>0, <1>2, <2>4 DEF DroppedByGuard, Fine
    <3>2. Receive(m).page = ShowSettlement(page)
      BY <2>0, <2>4 DEF Handle, Outcome
    <3>3. Receive(m).abandoned = FALSE
      BY <2>0, <2>4, <3>1 DEF Handle, Outcome
    <3>4. Fine(ShowSettlement(page), FALSE)
      BY <1>0, <3>1, OpenFine
    <3> QED BY <3>2, <3>3, <3>4
  <2>5. CASE m.act = "create-ok"
    <3>1. Receive(m).page = page /\ Receive(m).abandoned = FALSE
      BY <2>0, <2>5 DEF Handle, Outcome
    <3> QED BY <1>0, <3>1, EditsFine
  <2>6. CASE m.act = "join-ok"
    <3>1. Receive(m).page = [ClearGame(page) EXCEPT !.table = m.room]
      BY <2>0, <2>6 DEF Handle, Outcome
    <3>2. Receive(m).abandoned = FALSE
      BY <2>0, <2>6 DEF Handle, Outcome
    <3>3. Fine([ClearGame(page) EXCEPT !.table = m.room], FALSE)
      BY <1>0, EditsFine
    <3> QED BY <3>1, <3>2, <3>3
  <2>7. CASE m.act = "create-no"
    <3>1. Receive(m).page = LeaveRoom(page) /\ Receive(m).abandoned = abandoned
      BY <2>0, <2>7 DEF Handle, Outcome
    <3> QED BY <1>0, <3>1, EditsFine
  <2>9. CASE m.act = "login-result"
    <3>1. Receive(m).page = Named(page) /\ Receive(m).abandoned = abandoned
      BY <2>0, <2>9 DEF Handle, Outcome
    <3> QED BY <1>0, <3>1, EditsFine
  <2>10. CASE m.act = "user-info"
    <3>1. Receive(m).page = Named(page) /\ Receive(m).abandoned = abandoned
      BY <2>0, <2>10 DEF Handle, Outcome
    <3> QED BY <1>0, <3>1, EditsFine
  <2>8. CASE m.act = "pong"
    <3>1. Receive(m).page = page /\ Receive(m).abandoned = abandoned
      BY <2>0, <2>8 DEF Handle, Outcome
    <3> QED BY <1>0, <3>1
  <2>11. CASE m.act = "join-no"
    <3>1. Receive(m).page = page /\ Receive(m).abandoned = abandoned
      BY <2>0, <2>11 DEF Handle, Outcome
    <3> QED BY <1>0, <3>1
  <2>12. CASE m.act \notin {"session-expired", "update-game", "update-player-uuid", "settlement",
                           "create-ok", "join-ok", "create-no", "login-result", "user-info",
                           "pong", "join-no"}
    <3>1. Handle(m) = Outcome(page, saved, abandoned, FALSE, <<>>)
      BY <2>12 DEF Handle
    <3>2. Receive(m).page = page /\ Receive(m).abandoned = abandoned
      BY <2>0, <3>1 DEF Outcome
    <3> QED BY <1>0, <3>2
  <2> QED BY <2>1, <2>2, <2>3, <2>4, <2>5, <2>6, <2>7, <2>8, <2>9, <2>10, <2>11,
            <2>12
<1> QED BY <1>1, <1>2

LEMMA UserFine ==
  ASSUME IInv, User
  PROVE  Fine(page', abandoned')
<1>0. Fine(page, abandoned)
  BY FineIsInv
<1>1. abandoned' = abandoned
  BY DEF User, Login, Logout, Join, Create, TakeSeat, HandleLeave, CloseSettlement, UserStep, Render
<1>2. CASE Login \/ TakeSeat \/ \E r \in Rooms : Join(r)
  BY <1>0, <1>1, <1>2 DEF Login, TakeSeat, Join, UserStep, Render
<1>3. CASE Logout \/ HandleLeave
  <2>1. page' = ResetGame(page) \/ page' = LeaveRoom(page)
    BY <1>3 DEF Logout, HandleLeave, UserStep, Render
  <2> QED BY <1>0, <1>1, <2>1, EditsFine
<1>4. ASSUME NEW r \in Rooms, Create(r) PROVE Fine(page', abandoned')
  <2>1. page' = [ClearGame(page) EXCEPT !.table = r]
    BY <1>4 DEF Create, UserStep, Render
  <2>2. Fine([ClearGame(page) EXCEPT !.table = r], abandoned)
    BY <1>0, EditsFine
  <2> QED BY <1>1, <2>1, <2>2
<1>5. CASE CloseSettlement
  <2>1. page' = [page EXCEPT !.settle = FALSE]
    BY <1>5 DEF CloseSettlement, UserStep, Render
  <2>2. Fine([page EXCEPT !.settle = FALSE], abandoned)
    BY <1>0, EditsFine
  <2> QED BY <1>1, <2>1, <2>2
<1> QED BY <1>2, <1>3, <1>4, <1>5 DEF User

LEMMA SocketFine ==
  ASSUME IInv, Socket
  PROVE  Fine(page', abandoned')
<1>0. Fine(page, abandoned) /\ DOMAIN page = {"name", "table", "seat", "game", "settle"}
  BY FineIsInv DEF Fine
<1>1. CASE SocketOpens
  BY <1>0, <1>1 DEF SocketOpens, Replayed, Fine
<1>2. CASE SocketFails \/ ServerClosed \/ AttemptTimesOut
  BY <1>0, <1>2 DEF SocketFails, ServerClosed, AttemptTimesOut, browser
<1>3. CASE OutageTimesOut
  BY <1>0, <1>3 DEF OutageTimesOut, GiveUp, Render, LeaveRoom, Fine
<1>4. CASE Reload
  BY <1>4 DEF Reload, Blank, Fine
<1> QED BY <1>1, <1>2, <1>3, <1>4 DEF Socket

\* The server changes nothing of the page.
LEMMA ServerQuiet == Server => UNCHANGED <<page, abandoned>>
BY DEF Server, Serve, TableRuns, Forget, Detach, RoomPublishes, Settle, GraceChecks, GraceEvicts,
       OtherDevice, RoomDies, browser

LEMMA InitInv == Init => IInv
BY DEF Init, IInv, PageShape, GivenUpStaysOut, Blank

LEMMA NextInv == IInv /\ [Next]_vars => IInv'
<1> SUFFICES ASSUME IInv, [Next]_vars PROVE Fine(page', abandoned')
  BY FineNext
<1>1. CASE PageReceives
  BY <1>1, ReceiveFine DEF PageReceives, Render
<1>2. CASE User
  BY <1>2, UserFine
<1>3. CASE Socket
  BY <1>3, SocketFine
<1>4. CASE Server
  BY <1>4, ServerQuiet, FineIsInv
<1>5. CASE UNCHANGED vars
  BY <1>5, FineIsInv DEF vars, browser
<1> QED BY <1>1, <1>2, <1>3, <1>4, <1>5 DEF Next

\* Whatever was under way when the page gave its room up, and whatever the server
\* hands back, the room stays off the screen until the player joins or creates one
\* again (WebSocket.tsx).
THEOREM GivenUpRoomsStayOut == Spec => []GivenUpStaysOut
<1>1. IInv => GivenUpStaysOut
  BY DEF IInv
<1> QED BY <1>1, InitInv, NextInv, PTL DEF Spec

(***************************************************************************)
(* A seat is lost only to its player, a settlement or the offline timer.   *)
(* Only leave-table takes it away from under a connection, and a           *)
(* connection that can still say anything is the account's own: a login    *)
(* that replaces it stops it, and a connection the server has forgotten    *)
(* has nothing left to say.                                                *)
(***************************************************************************)

ConnFields == {"open", "auth", "table", "seat", "sub", "kicked", "in"}
Shaped(cn) == DOMAIN cn = Conns /\ \A c \in Conns : DOMAIN cn[c] = ConnFields

\* Connection r, numbered c, may act for the account: h is the holder, and
\* sent says whether the page sends on it.
Speaks(r)         == r.open /\ r.auth /\ ~r.kicked
Heard(r, c, h, sent) == Speaks(r) => h = c \/ (r.in = <<>> /\ ~sent)

OnlyHolderSpeaks == \A c \in Conns : Heard(conn[c], c, holder, up /\ mine = c)
ServerInv == Shaped(conn) /\ mine \in Conns /\ calm \in Nat /\ OnlyHolderSpeaks

\* A connection is served or written to: what it may do stays the same.
Touches(c) ==
  /\ DOMAIN conn' = Conns
  /\ \A d \in Conns \ {c} : conn'[d] = conn[d]
  /\ DOMAIN conn'[c] = ConnFields
  /\ conn'[c].open = conn[c].open /\ conn'[c].auth = conn[c].auth
  /\ conn'[c].kicked = conn[c].kicked

LEMMA TouchKeeps ==
  ASSUME ServerInv, NEW c \in Conns, Touches(c), holder' = holder, mine' = mine, up' = up,
         calm' \in Nat,
         \/ conn[c].in # <<>>
         \/ up /\ mine = c
         \/ conn'[c].in = conn[c].in
  PROVE  ServerInv'
<1>1. Shaped(conn)'
  <2>1. \A d \in Conns : DOMAIN conn'[d] = ConnFields
    BY DEF ServerInv, Shaped, Touches
  <2> QED BY <2>1 DEF Shaped, Touches
<1>2. ASSUME NEW d \in Conns PROVE Heard(conn'[d], d, holder', up' /\ mine' = d)
  <2>1. Heard(conn[d], d, holder, up /\ mine = d)
    BY DEF ServerInv, OnlyHolderSpeaks
  <2>2. CASE d # c
    BY <2>1, <2>2 DEF Touches
  <2>3. CASE d = c
    BY <2>1, <2>3 DEF Touches, Heard, Speaks
  <2> QED BY <2>2, <2>3
<1> QED BY <1>1, <1>2 DEF ServerInv, OnlyHolderSpeaks

LEMMA SendTouches ==
  ASSUME ServerInv, NEW msgs, Send(msgs)
  PROVE  Touches(mine) /\ (up \/ conn' = conn)
BY DEF Send, Touches, ServerInv, Shaped

\* An authentication stops the connection it replaces.
LEMMA BindKeeps ==
  ASSUME ServerInv, NEW c \in Conns, NEW answers, BindSession(c, answers),
         mine' = mine, up' = up, calm' = calm
  PROVE  ServerInv'
<1> DEFINE r0 == [conn EXCEPT ![c].in = Tail(@)]
           r1 == [r0 EXCEPT ![c].auth = TRUE]
           r2 == Kick(r1, c)
<1>1. /\ DOMAIN r1 = Conns /\ \A d \in Conns : DOMAIN r1[d] = ConnFields
      /\ \A d \in Conns \ {c} : r1[d] = conn[d]
  BY DEF ServerInv, Shaped, ConnFields
<1>2. /\ \/ r2 = r1 /\ holder \notin Conns \ {c}
         \/ r2 = [r1 EXCEPT ![holder].kicked = TRUE] /\ holder \in Conns \ {c}
  BY DEF Kick
<1>3. /\ holder' = c
      /\ conn' = r2 \/ \E t, s : conn' = [r2 EXCEPT ![c].table = t, ![c].seat = s]
  BY DEF BindSession, Rest
<1> HIDE DEF r0, r1, r2
<1>4. /\ DOMAIN r2 = Conns /\ \A d \in Conns : DOMAIN r2[d] = ConnFields
      /\ \A d \in Conns \ {c} : IF d = holder THEN r2[d].kicked = TRUE ELSE r2[d] = conn[d]
  BY <1>1, <1>2 DEF ConnFields
<1>5. /\ DOMAIN conn' = Conns /\ \A d \in Conns : DOMAIN conn'[d] = ConnFields
      /\ \A d \in Conns \ {c} : conn'[d] = r2[d]
  BY <1>3, <1>4 DEF ConnFields
<1>6. ASSUME NEW d \in Conns PROVE Heard(conn'[d], d, holder', up' /\ mine' = d)
  <2>1. Heard(conn[d], d, holder, up /\ mine = d)
    BY DEF ServerInv, OnlyHolderSpeaks
  <2> QED BY <1>3, <1>4, <1>5, <2>1 DEF Heard, Speaks
<1> QED BY <1>5, <1>6 DEF ServerInv, OnlyHolderSpeaks, Shaped

\* What serving a message writes to its connection, but for an authentication.
Written(c, t, s) ==
  \/ conn' = Rest(c)
  \/ conn' = [Rest(c) EXCEPT ![c].table = t]
  \/ conn' = [Rest(c) EXCEPT ![c].seat = s]
  \/ conn' = [Rest(c) EXCEPT ![c].table = t, ![c].seat = s]

LEMMA RestTouches ==
  ASSUME ServerInv, NEW c \in Conns, NEW t, NEW s, Written(c, t, s)
  PROVE  Touches(c) /\ conn'[c].in = Tail(conn[c].in)
<1>1. DOMAIN conn = Conns /\ DOMAIN conn[c] = ConnFields
  BY DEF ServerInv, Shaped
<1> DEFINE q == Rest(c)
<1>2. /\ DOMAIN q = Conns /\ \A d \in Conns \ {c} : q[d] = conn[d]
      /\ DOMAIN q[c] = ConnFields /\ q[c].open = conn[c].open
      /\ q[c].auth = conn[c].auth /\ q[c].kicked = conn[c].kicked
      /\ q[c].in = Tail(conn[c].in)
  BY <1>1 DEF Rest, ConnFields
<1>3. \/ conn' = q \/ conn' = [q EXCEPT ![c] = [q[c] EXCEPT !.table = t]]
      \/ conn' = [q EXCEPT ![c] = [q[c] EXCEPT !.seat = s]]
      \/ conn' = [q EXCEPT ![c] = [[q[c] EXCEPT !.table = t] EXCEPT !.seat = s]]
  BY DEF Written
<1> HIDE DEF q
<1> QED BY <1>2, <1>3 DEF Touches, ConnFields

\* Whatever it is that a connection says.
LEMMA ServeKeeps ==
  ASSUME ServerInv, NEW c \in Conns, Serve(c)
  PROVE  ServerInv'
<1>1. /\ conn[c].open /\ conn[c].in # <<>>
      /\ mine' = mine /\ up' = up /\ calm' = calm /\ calm' \in Nat
  BY DEF Serve, link, ServerInv
<1>2. ASSUME NEW t, NEW s, holder' = holder, Written(c, t, s) PROVE ServerInv'
  BY <1>1, <1>2, RestTouches, TouchKeeps
<1>3. ASSUME NEW msgs, Answer(c, msgs) PROVE ServerInv'
  BY <1>2, <1>3 DEF Answer, Written
<1>4. ASSUME NEW r, NEW msgs, Enter(c, r, msgs) PROVE ServerInv'
  BY <1>2, <1>4 DEF Enter, Written
<1>5. ASSUME NEW r, HandleJoinTable(c, r) \/ HandleCreateTable(c, r) PROVE ServerInv'
  BY <1>3, <1>4, <1>5 DEF HandleJoinTable, HandleCreateTable
<1>6. ASSUME NEW r, NEW id, HandleReconnectTable(c, r, id) PROVE ServerInv'
  BY <1>2, <1>3, <1>4, <1>6 DEF HandleReconnectTable, Written
<1>7. CASE HandleLeaveTable(c) \/ HandleTakeSeat(c) \/ HandleGetUser(c)
  BY <1>2, <1>3, <1>7 DEF HandleLeaveTable, HandleTakeSeat, HandleGetUser, Written
<1>8. CASE HandleLogin(c) \/ HandleReconnectUser(c)
  BY <1>1, <1>3, <1>8, BindKeeps DEF HandleLogin, HandleReconnectUser
<1> QED BY <1>3, <1>5, <1>6, <1>7, <1>8 DEF Serve

\* The page's socket and the connections the server loses.
LEMMA SocketGoneKeeps ==
  ASSUME ServerInv, SocketGone, ~up', calm' \in Nat
  PROVE  ServerInv'
<1>1. PICK k \in 0 .. Len(conn[mine].in) : conn' = [conn EXCEPT ![mine].in = SubSeq(@, 1, k)]
  BY DEF SocketGone
<1>2. Touches(mine) /\ holder' = holder /\ mine' = mine
  BY <1>1 DEF Touches, ServerInv, Shaped, ConnFields, SocketGone
<1>3. ASSUME conn[mine].in = <<>> PROVE conn'[mine].in = <<>>
  BY <1>1, <1>3 DEF ServerInv, Shaped, ConnFields
<1>4. ASSUME NEW d \in Conns PROVE Heard(conn'[d], d, holder', up' /\ mine' = d)
  <2>1. Heard(conn[d], d, holder, up /\ mine = d)
    BY DEF ServerInv, OnlyHolderSpeaks
  <2> QED BY <1>2, <1>3, <2>1 DEF Heard, Speaks, Touches
<1>5. \A d \in Conns : DOMAIN conn'[d] = ConnFields
  BY <1>2 DEF ServerInv, Shaped, Touches
<1> QED BY <1>2, <1>4, <1>5 DEF ServerInv, OnlyHolderSpeaks, Shaped, Touches

LEMMA SocketKeeps ==
  ASSUME ServerInv, Socket
  PROVE  ServerInv'
<1>1. CASE SocketOpens
  <2>1. PICK c \in Conns :
          /\ IF conn[mine].open THEN c # mine /\ ~conn[c].open ELSE c = mine
          /\ mine' = c
          /\ conn' = [conn EXCEPT ![c] =
               [Closed EXCEPT !.open = TRUE,
                              !.in = <<Say("ping")>> \o Replay \o Mount(page, Replayed(page))]]
    BY <1>1 DEF SocketOpens
  <2>2. holder' = holder /\ calm' = calm
    BY <1>1 DEF SocketOpens
  <2>3. DOMAIN conn' = Conns /\ \A d \in Conns \ {c} : conn'[d] = conn[d]
    BY <2>1 DEF ServerInv, Shaped
  <2>4. DOMAIN conn'[c] = ConnFields /\ conn'[c].auth = FALSE
    <3>1. DOMAIN conn = Conns
      BY DEF ServerInv, Shaped
    <3> QED BY <2>1, <3>1 DEF Closed, ConnFields
  <2>5. ASSUME NEW d \in Conns PROVE Heard(conn'[d], d, holder', up' /\ mine' = d)
    <3>1. Heard(conn[d], d, holder, up /\ mine = d)
      BY DEF ServerInv, OnlyHolderSpeaks
    <3>2. CASE d = c
      BY <2>4, <3>2 DEF Heard, Speaks
    <3>3. CASE d # c
      BY <2>1, <2>2, <2>3, <3>1, <3>3 DEF Heard, Speaks
    <3> QED BY <3>2, <3>3
  <2>6. \A d \in Conns : DOMAIN conn'[d] = ConnFields
    BY <2>3, <2>4 DEF ServerInv, Shaped
  <2> QED BY <2>1, <2>2, <2>3, <2>5, <2>6 DEF ServerInv, OnlyHolderSpeaks, Shaped
<1>2. CASE SocketFails \/ ServerClosed \/ AttemptTimesOut \/ OutageTimesOut \/ Reload
  <2>1. SocketGone /\ ~up'
    BY <1>2 DEF SocketFails, ServerClosed, AttemptTimesOut, OutageTimesOut, GiveUp, Reload,
         LinkFail, LinkReplace, LinkGiveUp, Dropped
  <2>2. calm' = calm \/ (calm > 0 /\ calm' = calm - 1)
    BY <1>2 DEF SocketFails, ServerClosed, AttemptTimesOut, OutageTimesOut, Reload, Disturb
  <2>3. calm' \in Nat
    BY <2>2 DEF ServerInv
  <2> QED BY <2>1, <2>3, SocketGoneKeeps
<1> QED BY <1>1, <1>2 DEF Socket

\* The page sends on its own connection only.
LEMMA SendKeeps ==
  ASSUME ServerInv, NEW msgs, Send(msgs), holder' = holder, mine' = mine, up' = up,
         calm' \in Nat
  PROVE  ServerInv'
<1>1. Touches(mine) /\ (up \/ conn' = conn) /\ mine \in Conns
  BY SendTouches DEF ServerInv
<1> QED BY <1>1, TouchKeeps

LEMMA PageKeeps ==
  ASSUME ServerInv, PageReceives \/ User
  PROVE  ServerInv'
<1>1. CASE PageReceives
  <2>1. up' = up
    BY <1>1 DEF PageReceives, LinkReady, link
  <2>2. \E msgs : Send(msgs)
    BY <1>1 DEF PageReceives
  <2>3. holder' = holder /\ mine' = mine /\ calm' \in Nat
    BY <1>1 DEF PageReceives, ServerInv
  <2> QED BY <2>1, <2>2, <2>3, SendKeeps
<1>2. ASSUME NEW q, NEW v, NEW msgs, UserStep(q, v, msgs) PROVE ServerInv'
  <2>1. \E more : Send(more)
    BY <1>2 DEF UserStep
  <2>2. calm' \in Nat
    BY <1>2 DEF UserStep, Disturb, ServerInv
  <2>3. holder' = holder /\ mine' = mine /\ up' = up
    BY <1>2 DEF UserStep, link
  <2> QED BY <2>1, <2>2, <2>3, SendKeeps
<1> QED BY <1>1, <1>2 DEF User, Login, Logout, Join, Create, TakeSeat, HandleLeave, CloseSettlement

\* Whatever else the server does.
LEMMA ServerKeeps ==
  ASSUME ServerInv, Server
  PROVE  ServerInv'
<1>1. ASSUME NEW c \in Conns, Serve(c) PROVE ServerInv'
  BY <1>1, ServeKeeps
<1>2. ASSUME NEW c \in Conns, TableRuns(c) PROVE ServerInv'
  <2>1. Touches(c) /\ conn'[c].in = conn[c].in
    BY <1>2 DEF TableRuns, Touches, ServerInv, Shaped, ConnFields
  <2>2. calm' \in Nat
    BY <1>2 DEF TableRuns, ServerInv
  <2> QED BY <1>2, <2>1, <2>2, TouchKeeps DEF TableRuns, link
<1>3. ASSUME NEW c \in Conns, Forget(c) PROVE ServerInv'
  <2>1. /\ conn' = conn /\ mine' = mine /\ up' = up /\ calm' = calm
        /\ conn[c].in = <<>> /\ holder = c /\ holder' = Nobody
        /\ c # mine \/ ~up \/ conn[c].kicked
    BY <1>3 DEF Forget, Lost, link
  <2>2. ASSUME NEW d \in Conns PROVE Heard(conn'[d], d, holder', up' /\ mine' = d)
    <3>1. Heard(conn[d], d, holder, up /\ mine = d)
      BY DEF ServerInv, OnlyHolderSpeaks
    <3> QED BY <2>1, <3>1 DEF Heard, Speaks
  <2> QED BY <2>1, <2>2 DEF ServerInv, OnlyHolderSpeaks
<1>4. ASSUME NEW c \in Conns, Detach(c) PROVE ServerInv'
  <2>1. /\ conn' = [conn EXCEPT ![c] = [conn[c] EXCEPT !.open = FALSE, !.table = None, !.in = <<>>]]
        /\ mine' = mine /\ up' = up /\ calm' = calm /\ holder' = holder
    <3>1. DOMAIN conn = Conns
      BY DEF ServerInv, Shaped
    <3> QED BY <1>4, <3>1 DEF Detach, link
  <2>2. /\ DOMAIN conn' = Conns /\ \A d \in Conns \ {c} : conn'[d] = conn[d]
        /\ DOMAIN conn'[c] = ConnFields /\ conn'[c].open = FALSE
    BY <2>1 DEF ServerInv, Shaped, ConnFields
  <2>3. ASSUME NEW d \in Conns PROVE Heard(conn'[d], d, holder', up' /\ mine' = d)
    <3>1. Heard(conn[d], d, holder, up /\ mine = d)
      BY DEF ServerInv, OnlyHolderSpeaks
    <3> QED BY <2>1, <2>2, <3>1 DEF Heard, Speaks
  <2>4. \A d \in Conns : DOMAIN conn'[d] = ConnFields
    BY <2>2 DEF ServerInv, Shaped
  <2> QED BY <2>1, <2>2, <2>3, <2>4 DEF ServerInv, OnlyHolderSpeaks, Shaped
<1>5. CASE OtherDevice
  <2>1. /\ mine' = mine /\ up' = up /\ holder' = Elsewhere /\ calm' = calm - 1 /\ calm > 0
        /\ IF holder \in Conns THEN conn' = [conn EXCEPT ![holder].kicked = TRUE] ELSE conn' = conn
    BY <1>5 DEF OtherDevice, Disturb, Kick, link, Conns, Elsewhere
  <2>2. /\ DOMAIN conn' = Conns /\ \A d \in Conns : DOMAIN conn'[d] = ConnFields
        /\ \A d \in Conns : IF d = holder THEN conn'[d].kicked = TRUE ELSE conn'[d] = conn[d]
    BY <2>1 DEF ServerInv, Shaped, ConnFields
  <2>3. ASSUME NEW d \in Conns PROVE Heard(conn'[d], d, holder', up' /\ mine' = d)
    <3>1. Heard(conn[d], d, holder, up /\ mine = d)
      BY DEF ServerInv, OnlyHolderSpeaks
    <3> QED BY <2>1, <2>2, <3>1 DEF Heard, Speaks
  <2> QED BY <2>1, <2>2, <2>3 DEF ServerInv, OnlyHolderSpeaks, Shaped
<1>6. CASE \/ RoomPublishes \/ Settle \/ \E r \in Rooms : RoomDies(r)
           \/ \E id \in 1 .. SeatLimit : GraceChecks(id) \/ GraceEvicts(id)
  <2>1. /\ conn' = conn /\ mine' = mine /\ up' = up /\ holder' = holder
        /\ calm' = calm \/ (calm > 0 /\ calm' = calm - 1)
    BY <1>6 DEF RoomPublishes, Settle, GraceChecks, GraceEvicts, RoomDies, server, link, Disturb
  <2> QED BY <2>1 DEF ServerInv, OnlyHolderSpeaks
<1> QED BY <1>1, <1>2, <1>3, <1>4, <1>5, <1>6 DEF Server

LEMMA InitServer == Init => ServerInv
BY ClientAssumption
   DEF Init, ServerInv, Shaped, ConnFields, OnlyHolderSpeaks, Heard, Speaks, Closed, Conns

LEMMA NextServer == ServerInv /\ [Next]_vars => ServerInv'
<1> SUFFICES ASSUME ServerInv, [Next]_vars PROVE ServerInv'
  OBVIOUS
<1>1. CASE UNCHANGED vars
  BY <1>1 DEF vars, link, server, ServerInv, OnlyHolderSpeaks
<1> QED BY <1>1, PageKeeps, SocketKeeps, ServerKeeps DEF Next

LEMMA ServerInvariance == Spec => []ServerInv
BY InitServer, NextServer, PTL DEF Spec

\* Who is served a leave-table that is not refused is the account's connection.
LEMMA LeavingIsTheHolder ==
  ASSUME ServerInv, NEW c \in Conns, conn[c].open, conn[c].in # <<>>,
         ~Refused(c, "leave-table")
  PROVE  holder = c
BY DEF ServerInv, OnlyHolderSpeaks, Heard, Speaks, Refused

\* What takes a seat away.
LEMMA SeatStep ==
  ASSUME ServerInv, [Next]_vars, seat.id # 0, seat'.id = 0
  PROVE  (holder \in Conns /\ Leaves(holder)) \/ Settle \/ seat.id \in late \ late'
<1>1. seat' # seat
  OBVIOUS
<1>3. ASSUME NEW id \in 1 .. SeatLimit, GraceEvicts(id) PROVE seat.id \in late \ late'
  BY <1>1, <1>3 DEF GraceEvicts
<1>4. ASSUME NEW c \in Conns, Serve(c) PROVE holder \in Conns /\ Leaves(holder)
  <2> DEFINE m == Head(conn[c].in)
  <2>1. conn[c].open /\ conn[c].in # <<>>
    BY <1>4 DEF Serve
  <2>2. \A answers : ~BindSession(c, answers)
    BY <1>1 DEF BindSession
  <2>3. \A msgs : ~Answer(c, msgs)
    BY <1>1 DEF Answer
  <2>4. \A r, msgs : ~Enter(c, r, msgs)
    BY <1>1 DEF Enter
  <2>5. ~HandleTakeSeat(c)
    BY <2>3 DEF HandleTakeSeat
  <2>6. \A r, id : ~HandleReconnectTable(c, r, id)
    BY <1>1, <2>3, <2>4 DEF HandleReconnectTable
  <2>7. m.act = "leave-table" /\ ~Refused(c, m.act) /\ HandleLeaveTable(c)
    BY <1>4, <2>2, <2>3, <2>4, <2>5, <2>6 DEF Serve, HandleLogin, HandleReconnectUser,
       HandleGetUser, HandleJoinTable, HandleCreateTable
  <2>8. conn'[c].in = Tail(conn[c].in)
    BY <2>7, RestTouches DEF HandleLeaveTable, Written
  <2> QED BY <2>1, <2>7, <2>8, LeavingIsTheHolder DEF Leaves
<1>5. CASE /\ ~Settle /\ \A c \in Conns : ~Serve(c)
           /\ \A id \in 1 .. SeatLimit : ~GraceEvicts(id)
  BY <1>1, <1>5 DEF Next, PageReceives, User, Login, Logout, Join, Create, TakeSeat, HandleLeave,
     CloseSettlement, UserStep, Socket, SocketOpens, SocketFails, ServerClosed, AttemptTimesOut,
     OutageTimesOut, GiveUp, Reload, SocketGone, Server, TableRuns, Forget, Detach, RoomPublishes,
     GraceChecks, OtherDevice, RoomDies, server, vars
<1> QED BY <1>3, <1>4, <1>5

\* Only a timer that finds nobody goes on.
LEMMA TimerStep ==
  ASSUME [Next]_vars, NEW i \in late' \ late
  PROVE  ~SeatHasClient(i)
<1>1. late' # late
  OBVIOUS
<1>2. ASSUME NEW id \in 1 .. SeatLimit, GraceChecks(id) PROVE ~SeatHasClient(i)
  BY <1>2 DEF GraceChecks
<1>3. ASSUME NEW id \in 1 .. SeatLimit, GraceEvicts(id) PROVE FALSE
  BY <1>3 DEF GraceEvicts
<1>4. ASSUME NEW c \in Conns, Serve(c) PROVE FALSE
  <2>1. \A answers : ~BindSession(c, answers)
    BY <1>1 DEF BindSession
  <2>2. \A msgs : ~Answer(c, msgs)
    BY <1>1 DEF Answer, timers
  <2>3. \A r, msgs : ~Enter(c, r, msgs)
    BY <1>1 DEF Enter, timers
  <2>4. ~HandleTakeSeat(c) /\ ~HandleLeaveTable(c)
    BY <1>1, <2>2 DEF HandleTakeSeat, HandleLeaveTable, timers
  <2>5. \A r, id : ~HandleReconnectTable(c, r, id)
    BY <1>1, <2>2, <2>3 DEF HandleReconnectTable
  <2> QED BY <1>4, <2>1, <2>2, <2>3, <2>4, <2>5 DEF Serve, HandleLogin, HandleReconnectUser,
      HandleGetUser, HandleJoinTable, HandleCreateTable
<1>5. CASE /\ \A c \in Conns : ~Serve(c)
           /\ \A id \in 1 .. SeatLimit : ~GraceChecks(id) /\ ~GraceEvicts(id)
  BY <1>1, <1>5 DEF Next, PageReceives, User, Login, Logout, Join, Create, TakeSeat, HandleLeave,
     CloseSettlement, UserStep, Socket, SocketOpens, SocketFails, ServerClosed, AttemptTimesOut,
     OutageTimesOut, GiveUp, Reload, SocketGone, Server, TableRuns, Forget, Detach, RoomPublishes,
     Settle, OtherDevice, RoomDies, server, vars, timers
<1> QED BY <1>2, <1>3, <1>4, <1>5

\* A player loses the seat only by leaving, by a settlement, or to an offline
\* timer that had found nobody at the table when it fired: no late message of a
\* connection the account has given up takes the seat away, and no timer such a
\* connection left behind fires at a player who is there (session.go, table.go).
THEOREM SeatsAreKept == Spec => SeatIsKept
<1>1. ServerInv /\ [Next]_vars
        => [/\ seat.id # 0 /\ seat'.id = 0 =>
                 (holder \in Conns /\ Leaves(holder)) \/ Settle \/ seat.id \in late \ late'
            /\ seat.id \in late' \ late => ~SeatHasClient(seat.id)]_vars
  BY SeatStep, TimerStep
<1> QED BY <1>1, ServerInvariance, PTL DEF Spec, SeatIsKept

(***************************************************************************)
(* At rest a page that is logged in is the account's one connection.  The  *)
(* answers that name the account and those that throw it out are told      *)
(* apart by what is still under way: the reconnect-user of a new socket is *)
(* unserved, or its connection is authenticated, or the notice that the    *)
(* session has expired has yet to be read (Pending).                       *)
(***************************************************************************)

SavedFields == {"login", "name", "table", "seat"}

IsSeq(q) == \E S : q \in Seq(S)
\* A message of q says act; of a general one only if it names no room.
Has(q, act, general) ==
  \E i \in 1 .. Len(q) : q[i].act = act /\ (general => q[i].room = None)

LEMMA EmptySeq == IsSeq(<<>>) /\ \A a, g : ~Has(<<>>, a, g)
<1>1. <<>> \in Seq({}) /\ Len(<<>>) = 0
  OBVIOUS
<1> QED BY <1>1 DEF IsSeq, Has

LEMMA OneSeq ==
  ASSUME NEW m
  PROVE  /\ IsSeq(<<m>>)
         /\ \A a, g : Has(<<m>>, a, g) <=> m.act = a /\ (g => m.room = None)
<1> DEFINE q == <<m>>
<1>1. q \in Seq({m}) /\ Len(q) = 1 /\ q[1] = m
  OBVIOUS
<1> HIDE DEF q
<1>2. 1 .. Len(q) = {1}
  BY <1>1
<1>3. IsSeq(q)
  BY <1>1 DEF IsSeq
<1>4. \A a, g : Has(q, a, g) <=> m.act = a /\ (g => m.room = None)
  BY <1>1, <1>2 DEF Has
<1> QED BY <1>3, <1>4 DEF q

LEMMA TwoSeq ==
  ASSUME NEW m, NEW n
  PROVE  /\ IsSeq(<<m, n>>)
         /\ \A a, g :
              Has(<<m, n>>, a, g) <=> \/ m.act = a /\ (g => m.room = None)
                                      \/ n.act = a /\ (g => n.room = None)
<1> DEFINE q == <<m, n>>
<1>1. q \in Seq({m, n}) /\ Len(q) = 2 /\ q[1] = m /\ q[2] = n
  OBVIOUS
<1> HIDE DEF q
<1>2. 1 .. Len(q) = {1, 2}
  BY <1>1
<1>3. IsSeq(q)
  BY <1>1 DEF IsSeq
<1>4. \A a, g :
        Has(q, a, g) <=> \/ m.act = a /\ (g => m.room = None)
                         \/ n.act = a /\ (g => n.room = None)
  BY <1>1, <1>2 DEF Has
<1> QED BY <1>3, <1>4 DEF q

LEMMA JoinedSeq ==
  ASSUME NEW q, NEW r, IsSeq(q), IsSeq(r)
  PROVE  /\ IsSeq(q \o r)
         /\ \A a, g : Has(q \o r, a, g) <=> Has(q, a, g) \/ Has(r, a, g)
<1>1. PICK S : q \in Seq(S)
  BY DEF IsSeq
<1>2. PICK T : r \in Seq(T)
  BY DEF IsSeq
<1> DEFINE U == S \union T
<1>3. q \in Seq(U) /\ r \in Seq(U)
  BY <1>1, <1>2
<1> HIDE DEF U
<1>4. q \o r \in Seq(U)
  BY <1>3
<1>5. /\ Len(q) \in Nat /\ Len(r) \in Nat /\ Len(q \o r) = Len(q) + Len(r)
      /\ \A i \in 1 .. Len(q) : (q \o r)[i] = q[i]
      /\ \A i \in 1 .. Len(r) : (q \o r)[Len(q) + i] = r[i]
  BY <1>3
<1>6. ASSUME NEW a, NEW g PROVE Has(q \o r, a, g) <=> Has(q, a, g) \/ Has(r, a, g)
  <2> DEFINE Like(m) == m.act = a /\ (g => m.room = None)
  <2>1. ASSUME NEW i \in 1 .. Len(q) + Len(r), Like((q \o r)[i])
        PROVE  (\E j \in 1 .. Len(q) : Like(q[j])) \/ (\E j \in 1 .. Len(r) : Like(r[j]))
    <3> HIDE DEF Like
    <3>1. CASE i <= Len(q)
      BY <1>5, <2>1, <3>1
    <3>2. CASE i > Len(q)
      <4>1. i - Len(q) \in 1 .. Len(r) /\ Len(q) + (i - Len(q)) = i
        BY <1>5, <3>2
      <4>2. (q \o r)[i] = r[i - Len(q)]
        BY <1>5, <4>1
      <4> QED BY <2>1, <4>1, <4>2
    <3> QED BY <1>5, <3>1, <3>2
  <2>2. ASSUME NEW i \in 1 .. Len(q), Like(q[i])
        PROVE  i \in 1 .. Len(q \o r) /\ Like((q \o r)[i])
    <3> HIDE DEF Like
    <3> QED BY <1>5, <2>2
  <2>3. ASSUME NEW i \in 1 .. Len(r), Like(r[i])
        PROVE  Len(q) + i \in 1 .. Len(q \o r) /\ Like((q \o r)[Len(q) + i])
    <3> HIDE DEF Like
    <3> QED BY <1>5, <2>3
  <2> QED BY <1>5, <2>1, <2>2, <2>3 DEF Has
<1> QED BY <1>4, <1>6 DEF IsSeq

LEMMA TailSeq ==
  ASSUME NEW q, IsSeq(q), q # <<>>
  PROVE  /\ IsSeq(Tail(q))
         /\ \A a, g :
              Has(q, a, g) <=> \/ Head(q).act = a /\ (g => Head(q).room = None)
                               \/ Has(Tail(q), a, g)
<1>1. PICK S : q \in Seq(S)
  BY DEF IsSeq
<1>2. Tail(q) \in Seq(S)
  BY <1>1
<1>3. /\ Len(q) \in Nat /\ Len(q) >= 1 /\ Len(Tail(q)) = Len(q) - 1 /\ Head(q) = q[1]
      /\ \A i \in 1 .. Len(q) - 1 : Tail(q)[i] = q[i + 1]
  BY <1>1
<1>4. ASSUME NEW a, NEW g
      PROVE  Has(q, a, g) <=> \/ Head(q).act = a /\ (g => Head(q).room = None)
                              \/ Has(Tail(q), a, g)
  <2> DEFINE Like(m) == m.act = a /\ (g => m.room = None)
  <2>1. ASSUME NEW i \in 1 .. Len(q), Like(q[i])
        PROVE  Like(q[1]) \/ \E j \in 1 .. Len(q) - 1 : Like(Tail(q)[j])
    <3> HIDE DEF Like
    <3>1. CASE i = 1
      BY <2>1, <3>1
    <3>2. CASE i # 1
      <4>1. i - 1 \in 1 .. Len(q) - 1 /\ (i - 1) + 1 = i
        BY <1>3, <3>2
      <4>2. Tail(q)[i - 1] = q[i]
        BY <1>3, <4>1
      <4> QED BY <2>1, <4>1, <4>2
    <3> QED BY <3>1, <3>2
  <2>2. ASSUME NEW i \in 1 .. Len(q) - 1, Like(Tail(q)[i])
        PROVE  i + 1 \in 1 .. Len(q) /\ Like(q[i + 1])
    <3> HIDE DEF Like
    <3> QED BY <1>3, <2>2
  <2>3. 1 \in 1 .. Len(q)
    BY <1>3
  <2> QED BY <1>3, <2>1, <2>2, <2>3 DEF Has
<1> QED BY <1>2, <1>4 DEF IsSeq

\* The connection r is still to hear or to say who the account is.
Cut(r) == r.kicked \/ ~r.open
Pending(r, answers) ==
  \/ Cut(r) \/ r.auth
  \/ Has(r.in, "reconnect-user", FALSE)
  \/ Has(answers, "session-expired", TRUE)

AccountInv ==
  /\ DOMAIN saved = SavedFields
  /\ IsSeq(inbox) /\ \A c \in Conns : IsSeq(conn[c].in)
  /\ marked => up
  /\ saved.login => saved.name
  /\ up /\ saved.login => page.name
  /\ up /\ Has(inbox, "login-result", FALSE) => conn[mine].auth
  /\ up /\ saved.login => Pending(conn[mine], inbox)

\* What the server does to connections and inbox keeps that.
AccountStep ==
  /\ IsSeq(inbox') /\ \A c \in Conns : IsSeq(conn'[c].in)
  /\ up /\ conn[mine].auth => conn'[mine].auth
  /\ up /\ Has(inbox', "login-result", FALSE)
       => Has(inbox, "login-result", FALSE) \/ conn'[mine].auth
  /\ up /\ Pending(conn[mine], inbox) => Pending(conn'[mine], inbox')

LEMMA AccountStepKeeps ==
  ASSUME AccountInv, AccountStep, UNCHANGED <<up, marked, page, saved, mine>>
  PROVE  AccountInv'
<1>1. up /\ Has(inbox', "login-result", FALSE) => conn'[mine].auth
  BY DEF AccountInv, AccountStep
<1>2. up /\ saved.login => Pending(conn'[mine], inbox')
  BY DEF AccountInv, AccountStep
<1> QED BY <1>1, <1>2 DEF AccountInv, AccountStep

LEMMA ReplySeq ==
  ASSUME IsSeq(inbox), NEW c, NEW msgs, IsSeq(msgs), Reply(c, msgs)
  PROVE  /\ IsSeq(inbox')
         /\ \A a, g : /\ Has(inbox, a, g) => Has(inbox', a, g)
                      /\ c = mine /\ up /\ Has(msgs, a, g) => Has(inbox', a, g)
                      /\ Has(inbox', a, g) => Has(inbox, a, g) \/ Has(msgs, a, g)
         /\ ~(c = mine /\ up) => inbox' = inbox
<1>1. CASE c = mine /\ up
  <2>1. inbox' = inbox \o msgs
    BY <1>1 DEF Reply
  <2> QED BY <1>1, <2>1, JoinedSeq
<1>2. CASE ~(c = mine /\ up)
  <2>1. inbox' = inbox
    BY <1>2 DEF Reply
  <2> QED BY <1>2, <2>1
<1> QED BY <1>1, <1>2

\* What the server says of rooms and seats.
LEMMA AnswersSeq ==
  ASSUME NEW r, NEW t
  PROVE  /\ IsSeq(<<Game(r)>>) /\ ~Has(<<Game(r)>>, "login-result", FALSE)
         /\ IsSeq(SeatGiven(t)) /\ ~Has(SeatGiven(t), "login-result", FALSE)
         /\ \A a \in {"join-no", "join-ok", "session-expired", "create-no", "create-ok"} :
              /\ IsSeq(<<Msg(a, r, 0)>>) /\ ~Has(<<Msg(a, r, 0)>>, "login-result", FALSE)
              /\ IsSeq(<<Msg(a, r, 0), Game(r)>>)
              /\ ~Has(<<Msg(a, r, 0), Game(r)>>, "login-result", FALSE)
              /\ IsSeq(<<Game(r), Msg(a, r, 0)>>)
              /\ ~Has(<<Game(r), Msg(a, r, 0)>>, "login-result", FALSE)
<1>2. ASSUME NEW m, NEW n, m.act # "login-result", n.act # "login-result"
      PROVE  /\ IsSeq(<<m>>) /\ ~Has(<<m>>, "login-result", FALSE)
             /\ IsSeq(<<m, n>>) /\ ~Has(<<m, n>>, "login-result", FALSE)
  <2>1. IsSeq(<<m>>) /\ ~Has(<<m>>, "login-result", FALSE)
    BY <1>2, OneSeq
  <2>2. IsSeq(<<m, n>>) /\ ~Has(<<m, n>>, "login-result", FALSE)
    BY <1>2, TwoSeq
  <2> QED BY <2>1, <2>2
<1>3. Game(r).act # "login-result"
  BY DEF Game, Msg
<1>4. IsSeq(SeatGiven(t)) /\ ~Has(SeatGiven(t), "login-result", FALSE)
  <2> DEFINE m == Msg("update-player-uuid", t.room, t.id)
             n == Game(t.room)
  <2>1. m.act # "login-result" /\ n.act # "login-result"
    BY DEF Game, Msg
  <2>2. SeatGiven(t) = <<m, n>>
    BY DEF SeatGiven
  <2> HIDE DEF m, n
  <2> QED BY <1>2, <2>1, <2>2
<1>5. ASSUME NEW a \in {"join-no", "join-ok", "session-expired", "create-no", "create-ok"}
      PROVE  Msg(a, r, 0).act # "login-result"
  BY DEF Msg
<1> DEFINE g == Game(r)
<1>6. IsSeq(<<g>>) /\ ~Has(<<g>>, "login-result", FALSE)
  <2> HIDE DEF g
  <2> QED BY <1>2, <1>3 DEF g
<1>7. ASSUME NEW a \in {"join-no", "join-ok", "session-expired", "create-no", "create-ok"}
      PROVE  /\ IsSeq(<<Msg(a, r, 0)>>) /\ ~Has(<<Msg(a, r, 0)>>, "login-result", FALSE)
             /\ IsSeq(<<Msg(a, r, 0), g>>) /\ ~Has(<<Msg(a, r, 0), g>>, "login-result", FALSE)
             /\ IsSeq(<<g, Msg(a, r, 0)>>) /\ ~Has(<<g, Msg(a, r, 0)>>, "login-result", FALSE)
  <2> DEFINE m == Msg(a, r, 0)
  <2>1. m.act # "login-result" /\ g.act # "login-result"
    BY <1>3, <1>5
  <2> HIDE DEF m, g
  <2> QED BY <1>2, <2>1 DEF m
<1> QED BY <1>4, <1>6, <1>7

\* A message is served by an answer: unless it was a reconnect-user, nothing that
\* is pending changes, and then the answer must be that the session has expired.
LEMMA AnswerStep ==
  ASSUME AccountInv, ServerInv, NEW c \in Conns, conn[c].in # <<>>,
         NEW msgs, IsSeq(msgs), ~Has(msgs, "login-result", FALSE), Reply(c, msgs),
         Touches(c), conn'[c].in = Tail(conn[c].in),
         \/ Head(conn[c].in).act # "reconnect-user"
         \/ conn[c].kicked
         \/ Has(msgs, "session-expired", TRUE)
  PROVE  AccountStep
<1>1. /\ IsSeq(inbox) /\ IsSeq(conn[c].in) /\ mine \in Conns
      /\ \A d \in Conns : IsSeq(conn[d].in)
  BY DEF AccountInv, ServerInv
<1>2. /\ IsSeq(inbox')
      /\ \A a, g : /\ Has(inbox, a, g) => Has(inbox', a, g)
                   /\ c = mine /\ up /\ Has(msgs, a, g) => Has(inbox', a, g)
                   /\ Has(inbox', a, g) => Has(inbox, a, g) \/ Has(msgs, a, g)
  BY <1>1, ReplySeq
<1>3. /\ IsSeq(conn'[c].in)
      /\ Has(conn[c].in, "reconnect-user", FALSE)
           => \/ Head(conn[c].in).act = "reconnect-user"
              \/ Has(conn'[c].in, "reconnect-user", FALSE)
  <2> DEFINE q == conn[c].in
  <2>1. IsSeq(q) /\ q # <<>> /\ conn'[c].in = Tail(q)
    BY <1>1
  <2> HIDE DEF q
  <2>2. /\ IsSeq(Tail(q))
        /\ \A a, g :
             Has(q, a, g) <=> \/ Head(q).act = a /\ (g => Head(q).room = None)
                              \/ Has(Tail(q), a, g)
    BY <2>1, TailSeq
  <2>3. Has(q, "reconnect-user", FALSE)
          => Head(q).act = "reconnect-user" \/ Has(Tail(q), "reconnect-user", FALSE)
    BY <2>2
  <2> QED BY <2>1, <2>2, <2>3 DEF q
<1>4. \A d \in Conns : IsSeq(conn'[d].in)
  BY <1>1, <1>3 DEF Touches
<1>5. conn'[mine].auth = conn[mine].auth /\ conn'[mine].open = conn[mine].open
      /\ conn'[mine].kicked = conn[mine].kicked
  BY <1>1 DEF Touches
<1>6. ASSUME up, Pending(conn[mine], inbox) PROVE Pending(conn'[mine], inbox')
  <2>1. CASE c = mine
    BY <1>2, <1>3, <1>5, <1>6, <2>1 DEF Pending, Cut
  <2>2. CASE c # mine
    <3>1. conn'[mine] = conn[mine]
      BY <1>1, <2>2 DEF Touches
    <3> QED BY <1>2, <1>6, <3>1 DEF Pending
  <2> QED BY <2>1, <2>2
<1> QED BY <1>2, <1>4, <1>5, <1>6 DEF AccountStep

LEMMA BindStep ==
  ASSUME AccountInv, ServerInv, NEW c \in Conns, conn[c].in # <<>>,
         NEW answers, IsSeq(answers), BindSession(c, answers)
  PROVE  AccountStep
<1> DEFINE r0 == [conn EXCEPT ![c].in = Tail(@)]
           r1 == [r0 EXCEPT ![c].auth = TRUE]
           r2 == Kick(r1, c)
<1>1. /\ DOMAIN r1 = Conns /\ \A d \in Conns : DOMAIN r1[d] = ConnFields
      /\ \A d \in Conns \ {c} : r1[d] = conn[d]
      /\ r1[c].auth = TRUE /\ r1[c].in = Tail(conn[c].in)
  BY DEF ServerInv, Shaped, ConnFields
<1>2. \/ r2 = r1
      \/ r2 = [r1 EXCEPT ![holder].kicked = TRUE] /\ holder \in Conns \ {c}
  BY DEF Kick
<1>3. conn' = r2 \/ \E t, s : conn' = [r2 EXCEPT ![c].table = t, ![c].seat = s]
  BY DEF BindSession, Rest
<1>4. \E msgs : IsSeq(msgs) /\ Reply(c, msgs)
  <2>1. Reply(c, answers) \/ \E t : Reply(c, answers \o SeatGiven(t))
    BY DEF BindSession
  <2> QED BY <2>1, AnswersSeq, JoinedSeq
<1> HIDE DEF r0, r1, r2
<1>5. /\ DOMAIN r2 = Conns /\ \A d \in Conns : DOMAIN r2[d] = ConnFields
      /\ r2[c].auth = TRUE /\ r2[c].in = Tail(conn[c].in)
      /\ \A d \in Conns \ {c} :
           /\ r2[d].in = conn[d].in /\ r2[d].auth = conn[d].auth
           /\ r2[d].open = conn[d].open
           /\ conn[d].kicked => r2[d].kicked
  BY <1>1, <1>2 DEF ConnFields
<1>6. /\ conn'[c].auth = TRUE /\ conn'[c].in = Tail(conn[c].in)
      /\ \A d \in Conns \ {c} : conn'[d] = r2[d]
  BY <1>3, <1>5 DEF ConnFields
<1>7. /\ IsSeq(inbox) /\ IsSeq(conn[c].in) /\ mine \in Conns
      /\ \A d \in Conns : IsSeq(conn[d].in)
  BY DEF AccountInv, ServerInv
<1>8. IsSeq(inbox') /\ (c = mine \/ inbox' = inbox)
  BY <1>4, <1>7, ReplySeq
<1>9. IsSeq(conn'[c].in)
  BY <1>6, <1>7, TailSeq
<1>10. \A d \in Conns : IsSeq(conn'[d].in)
  BY <1>5, <1>6, <1>7, <1>9
<1>11. CASE c = mine
  BY <1>6, <1>8, <1>10, <1>11 DEF AccountStep, Pending
<1>12. CASE c # mine
  <2>1. /\ conn'[mine].in = conn[mine].in /\ conn'[mine].auth = conn[mine].auth
        /\ conn'[mine].open = conn[mine].open
        /\ conn[mine].kicked => conn'[mine].kicked
    BY <1>5, <1>6, <1>7, <1>12
  <2> QED BY <1>8, <1>10, <1>12, <2>1 DEF AccountStep, Pending, Cut
<1> QED BY <1>11, <1>12

\* Whatever it is that a connection says.
LEMMA ServeAccount ==
  ASSUME AccountInv, ServerInv, NEW c \in Conns, Serve(c)
  PROVE  AccountStep
<1> DEFINE m == Head(conn[c].in)
<1>1. conn[c].in # <<>>
  BY DEF Serve
<1>2. ASSUME NEW t, NEW s, Written(c, t, s), NEW msgs, IsSeq(msgs),
             ~Has(msgs, "login-result", FALSE), Reply(c, msgs),
             m.act # "reconnect-user" \/ conn[c].kicked \/ Has(msgs, "session-expired", TRUE)
      PROVE  AccountStep
  <2>1. Touches(c) /\ conn'[c].in = Tail(conn[c].in)
    BY <1>2, RestTouches
  <2> QED BY <1>1, <1>2, <2>1, AnswerStep
<1>3. ASSUME NEW msgs, Answer(c, msgs), IsSeq(msgs), ~Has(msgs, "login-result", FALSE),
             m.act # "reconnect-user" \/ conn[c].kicked \/ Has(msgs, "session-expired", TRUE)
      PROVE  AccountStep
  <2>1. Written(c, 0, 0) /\ Reply(c, msgs)
    BY <1>3 DEF Answer, Written
  <2> QED BY <1>2, <1>3, <2>1
<1>4. ASSUME NEW r, NEW msgs, Enter(c, r, msgs), IsSeq(msgs),
             ~Has(msgs, "login-result", FALSE), m.act # "reconnect-user"
      PROVE  AccountStep
  <2>1. Written(c, r, 0) /\ Reply(c, msgs)
    BY <1>4 DEF Enter, Written
  <2> QED BY <1>2, <1>4, <2>1
<1>5. ASSUME Refused(c, m.act), Answer(c, <<>>) PROVE AccountStep
  <2>1. m.act = "reconnect-user" => conn[c].kicked
    BY <1>5 DEF Refused
  <2> QED BY <1>3, <1>5, <2>1, EmptySeq
<1>6. ASSUME m.act = "ping", Answer(c, <<Say("pong")>>) PROVE AccountStep
  <2>1. Say("pong").act # "login-result"
    BY DEF Say, Msg
  <2>2. IsSeq(<<Say("pong")>>) /\ ~Has(<<Say("pong")>>, "login-result", FALSE)
    BY <2>1, OneSeq
  <2> QED BY <1>3, <1>6, <2>2
<1>7. ASSUME m.act = "login", HandleLogin(c) PROVE AccountStep
  <2>1. IsSeq(<<Say("login-result"), Say("user-info")>>)
    BY TwoSeq
  <2>2. CASE Answer(c, <<>>)
    BY <1>3, <1>7, <2>2, EmptySeq
  <2> QED BY <1>1, <1>7, <2>1, <2>2, BindStep DEF HandleLogin
<1>8. ASSUME HandleReconnectUser(c) PROVE AccountStep
  <2>1. IsSeq(<<Say("user-info")>>)
    BY OneSeq
  <2>2. CASE Answer(c, <<Say("session-expired")>>)
    <3> DEFINE e == Say("session-expired")
    <3>1. e.act = "session-expired" /\ e.room = None
      BY DEF Say, Msg
    <3>2. /\ IsSeq(<<e>>) /\ Has(<<e>>, "session-expired", TRUE)
          /\ ~Has(<<e>>, "login-result", FALSE)
      <4> HIDE DEF e
      <4>1. IsSeq(<<e>>) /\ \A a, g : Has(<<e>>, a, g) <=> e.act = a /\ (g => e.room = None)
        BY OneSeq
      <4>2. Has(<<e>>, "session-expired", TRUE) <=> e.act = "session-expired" /\ e.room = None
        BY <4>1
      <4>3. Has(<<e>>, "login-result", FALSE) <=> e.act = "login-result"
        BY <4>1
      <4> QED BY <3>1, <4>1, <4>2, <4>3
    <3>3. Answer(c, <<e>>)
      BY <2>2
    <3> HIDE DEF e
    <3> QED BY <1>3, <3>2, <3>3
  <2> QED BY <1>1, <1>8, <2>1, <2>2, BindStep DEF HandleReconnectUser
<1>9. ASSUME m.act = "get-user", HandleGetUser(c) PROVE AccountStep
  <2>1. Say("user-info").act # "login-result"
    BY DEF Say, Msg
  <2>2. IsSeq(<<Say("user-info")>>) /\ ~Has(<<Say("user-info")>>, "login-result", FALSE)
    BY <2>1, OneSeq
  <2> QED BY <1>3, <1>9, <2>2 DEF HandleGetUser
<1>10. ASSUME NEW r, m.act # "reconnect-user", HandleJoinTable(c, r) \/ HandleCreateTable(c, r)
       PROVE  AccountStep
  BY <1>3, <1>4, <1>10, AnswersSeq DEF HandleJoinTable, HandleCreateTable
<1>11. ASSUME NEW r, NEW id, m.act # "reconnect-user", HandleReconnectTable(c, r, id)
       PROVE  AccountStep
  <2>1. CASE \/ Answer(c, <<Msg("join-no", r, 0)>>)
             \/ Answer(c, <<Msg("session-expired", r, 0)>>)
             \/ Enter(c, r, <<Game(r)>>)
    BY <1>3, <1>4, <1>11, <2>1, AnswersSeq
  <2>2. CASE /\ conn' = [Rest(c) EXCEPT ![c].table = r, ![c].seat = id]
             /\ Reply(c, SeatGiven(seat))
    <3>1. Written(c, r, id)
      BY <2>2 DEF Written
    <3> QED BY <1>2, <1>11, <2>2, <3>1, AnswersSeq
  <2> QED BY <1>11, <2>1, <2>2 DEF HandleReconnectTable
<1>12. ASSUME m.act = "leave-table", HandleLeaveTable(c) PROVE AccountStep
  <2>1. Written(c, None, 0) /\ Reply(c, <<>>)
    BY <1>12 DEF HandleLeaveTable, Written
  <2> QED BY <1>2, <1>12, <2>1, EmptySeq
<1>13. ASSUME m.act = "take-seat", HandleTakeSeat(c) PROVE AccountStep
  <2>1. CASE Answer(c, <<>>)
    BY <1>3, <1>13, <2>1, EmptySeq
  <2>2. ASSUME NEW s, conn' = [Rest(c) EXCEPT ![c].seat = s.id], Reply(c, SeatGiven(s))
        PROVE  AccountStep
    <3>1. Written(c, 0, s.id)
      BY <2>2 DEF Written
    <3> QED BY <1>2, <1>13, <2>2, <3>1, AnswersSeq
  <2> QED BY <1>13, <2>1, <2>2 DEF HandleTakeSeat
<1> QED BY <1>5, <1>6, <1>7, <1>8, <1>9, <1>10, <1>11, <1>12, <1>13 DEF Serve

\* A connection is registered, or told something.
LEMMA QuietStep ==
  ASSUME AccountInv, ServerInv, NEW c \in Conns, Touches(c), conn'[c].in = conn[c].in,
         NEW msgs, IsSeq(msgs), ~Has(msgs, "login-result", FALSE),
         inbox' = inbox \/ inbox' = inbox \o msgs
  PROVE  AccountStep
<1>1. /\ IsSeq(inbox) /\ mine \in Conns
      /\ \A d \in Conns : IsSeq(conn[d].in)
  BY DEF AccountInv, ServerInv
<1>2. /\ IsSeq(inbox')
      /\ Has(inbox, "session-expired", TRUE) => Has(inbox', "session-expired", TRUE)
      /\ Has(inbox', "login-result", FALSE) => Has(inbox, "login-result", FALSE)
  <2>1. CASE inbox' = inbox
    BY <1>1, <2>1
  <2>2. CASE inbox' = inbox \o msgs
    <3>1. /\ IsSeq(inbox \o msgs)
          /\ \A a, g : Has(inbox \o msgs, a, g) <=> Has(inbox, a, g) \/ Has(msgs, a, g)
      BY <1>1, JoinedSeq
    <3> QED BY <2>2, <3>1
  <2> QED BY <2>1, <2>2
<1>3. \A d \in Conns : IsSeq(conn'[d].in)
  BY <1>1 DEF Touches
<1>4. /\ conn'[mine].auth = conn[mine].auth /\ conn'[mine].open = conn[mine].open
      /\ conn'[mine].kicked = conn[mine].kicked /\ conn'[mine].in = conn[mine].in
  BY <1>1 DEF Touches
<1> QED BY <1>2, <1>3, <1>4 DEF AccountStep, Pending, Cut

\* The connections stay as they are but for what cuts one.
LEMMA CutStep ==
  ASSUME AccountInv, ServerInv,
         \A d \in Conns : conn'[d] # conn[d] =>
           conn'[d].auth = conn[d].auth /\ Cut(conn'[d]) /\ IsSeq(conn'[d].in),
         IsSeq(inbox'), Has(inbox', "login-result", FALSE) => Has(inbox, "login-result", FALSE),
         Has(inbox, "session-expired", TRUE) => Has(inbox', "session-expired", TRUE)
  PROVE  AccountStep
<1>1. /\ mine \in Conns /\ \A d \in Conns : IsSeq(conn[d].in)
  BY DEF AccountInv, ServerInv
<1>2. ASSUME NEW d \in Conns PROVE conn'[d].auth = conn[d].auth /\ IsSeq(conn'[d].in)
  <2>1. CASE conn'[d] = conn[d]
    BY <1>1, <2>1
  <2>2. CASE conn'[d] # conn[d]
    BY <2>2
  <2> QED BY <2>1, <2>2
<1>3. ASSUME Pending(conn[mine], inbox) PROVE Pending(conn'[mine], inbox')
  <2>1. CASE conn'[mine] = conn[mine]
    BY <1>3, <2>1 DEF Pending
  <2>2. CASE conn'[mine] # conn[mine]
    BY <1>1, <2>2 DEF Pending
  <2> QED BY <2>1, <2>2
<1> QED BY <1>1, <1>2, <1>3 DEF AccountStep

LEMMA ServerAccount ==
  ASSUME AccountInv, ServerInv, Server
  PROVE  AccountInv'
<1>0. UNCHANGED <<up, marked, page, saved, mine>>
  BY DEF Server, Serve, TableRuns, Forget, Detach, RoomPublishes, Settle, GraceChecks,
     GraceEvicts, OtherDevice, RoomDies, browser, link, server
<1>00. IsSeq(inbox) /\ mine \in Conns /\ DOMAIN conn = Conns
  BY DEF AccountInv, ServerInv, Shaped
<1>1. ASSUME NEW c \in Conns, Serve(c) PROVE AccountStep
  BY <1>1, ServeAccount
<1>2. ASSUME NEW c \in Conns, TableRuns(c) PROVE AccountStep
  <2>1. Touches(c) /\ conn'[c].in = conn[c].in
    BY <1>2 DEF TableRuns, Touches, ServerInv, Shaped, ConnFields
  <2>2. inbox' = inbox \/ inbox' = inbox \o <<>> \/ \E r : inbox' = inbox \o <<Game(r)>>
    BY <1>2 DEF TableRuns, Reply
  <2> QED BY <2>1, <2>2, QuietStep, EmptySeq, AnswersSeq
<1>3. ASSUME NEW c \in Conns, Detach(c) PROVE AccountStep
  <2>1. conn' = [conn EXCEPT ![c] = [conn[c] EXCEPT !.open = FALSE, !.table = None, !.in = <<>>]]
    BY <1>3, <1>00 DEF Detach
  <2>2. /\ \A d \in Conns \ {c} : conn'[d] = conn[d]
        /\ conn'[c].open = FALSE /\ conn'[c].auth = conn[c].auth /\ conn'[c].in = <<>>
    BY <2>1 DEF ServerInv, Shaped, ConnFields
  <2>3. \A d \in Conns : conn'[d] # conn[d] =>
          conn'[d].auth = conn[d].auth /\ Cut(conn'[d]) /\ IsSeq(conn'[d].in)
    BY <2>2, EmptySeq DEF Cut
  <2>4. Reply(c, <<>>) \/ Reply(c, <<Msg("session-expired", None, 0)>>)
    BY <1>3 DEF Detach, Say
  <2>5. /\ IsSeq(inbox')
        /\ Has(inbox', "login-result", FALSE) => Has(inbox, "login-result", FALSE)
        /\ Has(inbox, "session-expired", TRUE) => Has(inbox', "session-expired", TRUE)
    <3>1. PICK msgs : Reply(c, msgs) /\ IsSeq(msgs) /\ ~Has(msgs, "login-result", FALSE)
      BY <2>4, EmptySeq, AnswersSeq
    <3> QED BY <1>00, <3>1, ReplySeq
  <2> QED BY <2>3, <2>5, CutStep
<1>4. ASSUME OtherDevice PROVE AccountStep
  <2>1. /\ inbox' = inbox
        /\ IF holder \in Conns THEN conn' = [conn EXCEPT ![holder].kicked = TRUE] ELSE conn' = conn
    BY <1>4 DEF OtherDevice, Kick, Conns, Elsewhere
  <2>2. \A d \in Conns : IF d = holder
          THEN conn'[d].kicked = TRUE /\ conn'[d].auth = conn[d].auth /\ conn'[d].in = conn[d].in
          ELSE conn'[d] = conn[d]
    BY <2>1 DEF ServerInv, Shaped, ConnFields
  <2>3. \A d \in Conns : conn'[d] # conn[d] =>
          conn'[d].auth = conn[d].auth /\ Cut(conn'[d]) /\ IsSeq(conn'[d].in)
    BY <2>2 DEF Cut, AccountInv
  <2> QED BY <1>00, <2>1, <2>3, CutStep
<1>5. ASSUME \/ Forget(1) \/ Forget(2) \/ \E r \in Rooms : RoomDies(r)
             \/ \E id \in 1 .. SeatLimit : GraceChecks(id) \/ GraceEvicts(id)
      PROVE  AccountStep
  <2>1. conn' = conn /\ inbox' = inbox
    BY <1>5 DEF Forget, GraceChecks, GraceEvicts, RoomDies
  <2> QED BY <1>00, <2>1, CutStep
<1>6. ASSUME RoomPublishes \/ Settle PROVE AccountStep
  <2>1. PICK msgs : /\ conn' = conn /\ (inbox' = inbox \/ inbox' = inbox \o msgs)
                    /\ IsSeq(msgs) /\ ~Has(msgs, "login-result", FALSE)
    <3>1. CASE RoomPublishes
      <4>1. conn' = conn /\ inbox' = Append(inbox, Game(conn[mine].sub))
        BY <3>1 DEF RoomPublishes, server
      <4>2. Append(inbox, Game(conn[mine].sub)) = inbox \o <<Game(conn[mine].sub)>>
        BY <1>00 DEF IsSeq
      <4> QED BY <4>1, <4>2, AnswersSeq
    <3>2. CASE Settle
      <4> DEFINE m == Say("settlement")
                 n == Game(seat.room)
      <4>1. conn' = conn /\ (inbox' = inbox \/ inbox' = inbox \o <<m, n>>)
        BY <3>2 DEF Settle
      <4>2. m.act # "login-result" /\ n.act # "login-result"
        BY DEF Say, Game, Msg
      <4> HIDE DEF m, n
      <4>3. IsSeq(<<m, n>>) /\ ~Has(<<m, n>>, "login-result", FALSE)
        BY <4>2, TwoSeq
      <4> QED BY <4>1, <4>3
    <3> QED BY <1>6, <3>1, <3>2
  <2>2. Touches(mine) /\ conn'[mine].in = conn[mine].in
    BY <1>00, <2>1 DEF Touches, ServerInv, Shaped
  <2> QED BY <1>00, <2>1, <2>2, QuietStep
<1>7. AccountStep
  BY <1>1, <1>2, <1>3, <1>4, <1>5, <1>6 DEF Server, Conns
<1> QED BY <1>0, <1>7, AccountStepKeeps

\* What the page may be left with: p and v are page and saved, and named says
\* that the account may have been named to it.
Holds(p, v, named) ==
  /\ DOMAIN v = SavedFields
  /\ v.login => v.name /\ p.name /\ (saved.login \/ named)

LEMMA EditsHold ==
  ASSUME PageShape, DOMAIN saved = SavedFields, NEW named, Holds(page, saved, named),
         NEW r, NEW s
  PROVE  /\ Holds(page, saved, named) /\ Holds([page EXCEPT !.game = r], saved, named)
         /\ Holds([page EXCEPT !.seat = s, !.table = r], SaveRoom(saved, r, s), named)
         /\ Holds([page EXCEPT !.settle = FALSE], saved, named)
         /\ Holds([ClearGame(page) EXCEPT !.table = r], SaveRoom(saved, r, s), named)
         /\ Holds(LeaveRoom(page), saved, named)
         /\ Holds(LeaveRoom(page), ForgetRoom(saved), named)
         /\ Holds(Named(page), [saved EXCEPT !.name = TRUE], named)
         /\ Holds(ResetGame(page), NoLogin, named)
         /\ Holds(ShowSettlement(page), saved, named)
<1> USE DEF Holds, PageShape, SavedFields
<1>1. Holds([page EXCEPT !.game = r], saved, named)
  OBVIOUS
<1>2. Holds([page EXCEPT !.seat = s, !.table = r], SaveRoom(saved, r, s), named)
  BY DEF SaveRoom
<1>3. Holds([page EXCEPT !.settle = FALSE], saved, named)
  OBVIOUS
<1>4. Holds([ClearGame(page) EXCEPT !.table = r], SaveRoom(saved, r, s), named)
  BY DEF SaveRoom, ClearGame
<1>5. Holds(LeaveRoom(page), saved, named) /\ Holds(LeaveRoom(page), ForgetRoom(saved), named)
  BY DEF LeaveRoom, ForgetRoom
<1>6. Holds(Named(page), [saved EXCEPT !.name = TRUE], named)
  BY DEF Named
<1>7. Holds(ResetGame(page), NoLogin, named)
  BY DEF NoLogin
<1>8. Holds(ShowSettlement(page), saved, named)
  BY DEF ShowSettlement, ClearGame
<1> QED BY <1>1, <1>2, <1>3, <1>4, <1>5, <1>6, <1>7, <1>8

\* What a message leaves the page with: only a login-result logs it in, and the
\* notice that the account's session has expired logs it out.
LEMMA ReceiveHolds ==
  ASSUME PageShape, DOMAIN saved = SavedFields, saved.login => saved.name /\ page.name, NEW m
  PROVE  /\ Holds(Receive(m).page, Receive(m).saved, m.act = "login-result")
         /\ m.act = "session-expired" /\ m.room = None => ~Receive(m).saved.login
         /\ IsSeq(Receive(m).say)
<1> DEFINE named == m.act = "login-result"
           o == Receive(m)
<1>0. Holds(page, saved, named)
  BY DEF Holds
<1>1. CASE abandoned /\ DroppedByGuard(m)
  <2>1. /\ o.page = page /\ o.saved = saved
        /\ o.say = <<Msg("leave-table", m.room, 0)>> \/ o.say = <<>>
    BY <1>1 DEF Receive, Guard, Outcome
  <2>2. m.act # "session-expired"
    BY <1>1 DEF DroppedByGuard
  <2> HIDE DEF o, named
  <2>3. IsSeq(o.say)
    BY <2>1, EmptySeq, OneSeq
  <2> QED BY <1>0, <2>1, <2>2, <2>3 DEF o, named
<1>2. CASE ~(abandoned /\ DroppedByGuard(m))
  <2>0. o = Handle(m)
    BY <1>2 DEF Receive
  <2>1. CASE m.act = "session-expired"
    <3>1. /\ o.say = <<>>
          /\ \/ o.page = ResetGame(page) /\ o.saved = NoLogin
             \/ m.room # None /\ o.page = LeaveRoom(page) /\ o.saved \in {saved, ForgetRoom(saved)}
      BY <2>0, <2>1 DEF Handle, Expire, Outcome
    <3>2. ~NoLogin.login
      BY DEF NoLogin
    <3> HIDE DEF o, named
    <3> QED BY <1>0, <3>1, <3>2, EditsHold, EmptySeq DEF o, named
  <2>2. CASE m.act = "login-result"
    <3>1. /\ o.say = <<>> /\ o.page = Named(page)
          /\ o.saved = [saved EXCEPT !.login = TRUE, !.name = TRUE]
      BY <2>0, <2>2 DEF Handle, Outcome
    <3>2. Holds(Named(page), [saved EXCEPT !.login = TRUE, !.name = TRUE], TRUE)
      BY DEF Holds, SavedFields, Named, PageShape
    <3> QED BY <2>2, <3>1, <3>2, EmptySeq
  <2>3. CASE m.act # "session-expired" /\ m.act # "login-result"
    <3>1. /\ o.say = <<>> \/ o.say = <<Say("get-user")>>
          /\ \/ o.page = page /\ o.saved = saved
             \/ o.page = [page EXCEPT !.game = m.room] /\ o.saved = saved
             \/ /\ o.page = [page EXCEPT !.seat = m.seat, !.table = m.room]
                /\ o.saved = SaveRoom(saved, m.room, m.seat)
             \/ o.page = LeaveRoom(page) /\ o.saved = saved
             \/ /\ o.page = [ClearGame(page) EXCEPT !.table = m.room]
                /\ o.saved = SaveRoom(saved, m.room, 0)
             \/ o.page = Named(page) /\ o.saved = [saved EXCEPT !.name = TRUE]
             \/ o.page = ShowSettlement(page) /\ o.saved = saved
      <4> DEFINE acts == {"update-game", "update-player-uuid", "create-no", "join-ok",
                          "user-info", "settlement"}
      <4>1. CASE m.act = "update-game"
        BY <2>0, <4>1 DEF Handle, Outcome
      <4>2. CASE m.act = "update-player-uuid"
        BY <2>0, <4>2 DEF Handle, Outcome
      <4>3. CASE m.act = "create-no"
        BY <2>0, <4>3 DEF Handle, Outcome
      <4>4. CASE m.act = "join-ok"
        BY <2>0, <4>4 DEF Handle, Outcome
      <4>5. CASE m.act = "user-info"
        <5>1. Handle(m) = Outcome(Named(page), [saved EXCEPT !.name = TRUE], abandoned,
                                  saved.table = None, <<>>)
          BY <4>5 DEF Handle
        <5> QED BY <2>0, <5>1 DEF Outcome
      <4>6. CASE m.act = "settlement"
        BY <2>0, <4>6 DEF Handle, Outcome
      <4>7. CASE m.act = "pong" \/ m.act = "create-ok" \/ m.act = "join-no"
        <5>1. \E a, ready : Handle(m) = Outcome(page, saved, a, ready, <<>>)
          BY <4>7 DEF Handle
        <5> QED BY <2>0, <5>1 DEF Outcome
      <4>8. CASE m.act \notin acts \union {"pong", "create-ok", "join-no"}
        <5>1. Handle(m) = Outcome(page, saved, abandoned, FALSE, <<>>)
          BY <2>3, <4>8 DEF Handle
        <5> QED BY <2>0, <5>1 DEF Outcome
      <4> QED BY <4>1, <4>2, <4>3, <4>4, <4>5, <4>6, <4>7, <4>8
    <3> HIDE DEF o, named
    <3>2. Holds(o.page, o.saved, named)
      BY <1>0, <3>1, EditsHold
    <3>3. IsSeq(o.say)
      BY <3>1, EmptySeq, OneSeq
    <3> QED BY <2>3, <3>2, <3>3 DEF o, named
  <2> QED BY <2>1, <2>2, <2>3
<1> QED BY <1>1, <1>2

LEMMA MountSeq == \A p, q : IsSeq(Mount(p, q))
BY EmptySeq, OneSeq DEF Mount

\* The page sends, which takes nothing back.
LEMMA SendAccount ==
  ASSUME AccountInv, ServerInv, NEW msgs, IsSeq(msgs), Send(msgs)
  PROVE  /\ \A c \in Conns : IsSeq(conn'[c].in)
         /\ conn'[mine].auth = conn[mine].auth
         /\ \A q : Pending(conn[mine], q) => Pending(conn'[mine], q)
<1>1. /\ mine \in Conns /\ DOMAIN conn = Conns /\ DOMAIN conn[mine] = ConnFields
      /\ \A c \in Conns : IsSeq(conn[c].in)
  BY DEF AccountInv, ServerInv, Shaped
<1>2. CASE conn' = conn
  BY <1>1, <1>2
<1>3. CASE conn' = [conn EXCEPT ![mine] = [conn[mine] EXCEPT !.in = conn[mine].in \o msgs]]
  <2>1. /\ \A c \in Conns \ {mine} : conn'[c] = conn[c]
        /\ conn'[mine].in = conn[mine].in \o msgs /\ conn'[mine].auth = conn[mine].auth
        /\ conn'[mine].open = conn[mine].open /\ conn'[mine].kicked = conn[mine].kicked
    BY <1>1, <1>3 DEF ConnFields
  <2>2. /\ IsSeq(conn'[mine].in)
        /\ Has(conn[mine].in, "reconnect-user", FALSE)
             => Has(conn'[mine].in, "reconnect-user", FALSE)
    <3> DEFINE q == conn[mine].in
    <3>1. IsSeq(q) /\ conn'[mine].in = q \o msgs
      BY <1>1, <2>1
    <3> HIDE DEF q
    <3>2. /\ IsSeq(q \o msgs)
          /\ \A a, g : Has(q \o msgs, a, g) <=> Has(q, a, g) \/ Has(msgs, a, g)
      BY <3>1, JoinedSeq
    <3> QED BY <3>1, <3>2 DEF q
  <2> QED BY <1>1, <2>1, <2>2 DEF Pending, Cut
<1> QED BY <1>1, <1>2, <1>3 DEF Send

LEMMA PageAccount ==
  ASSUME AccountInv, ServerInv, PageShape, PageReceives
  PROVE  AccountInv'
<1> DEFINE m == Head(inbox)
           o == Receive(m)
<1>1. /\ up /\ inbox # <<>> /\ IsSeq(inbox) /\ inbox' = Tail(inbox)
      /\ page' = o.page /\ saved' = o.saved /\ mine' = mine
      /\ Send(o.say \o Mount(page, o.page))
      /\ IF o.ready THEN LinkReady ELSE UNCHANGED link
  BY DEF PageReceives, Render, AccountInv
<1>2. up' = up
  BY <1>1 DEF LinkReady, link
<1>3. /\ Holds(o.page, o.saved, m.act = "login-result")
      /\ m.act = "session-expired" /\ m.room = None => ~o.saved.login
      /\ IsSeq(o.say)
  BY <1>1, ReceiveHolds DEF AccountInv
<1> HIDE DEF m, o
<1>4. /\ \A c \in Conns : IsSeq(conn'[c].in)
      /\ conn'[mine].auth = conn[mine].auth
      /\ \A q : Pending(conn[mine], q) => Pending(conn'[mine], q)
  BY <1>1, <1>3, MountSeq, JoinedSeq, SendAccount
<1>5. /\ IsSeq(inbox')
      /\ Has(inbox, "login-result", FALSE)
           <=> m.act = "login-result" \/ Has(inbox', "login-result", FALSE)
      /\ Has(inbox, "session-expired", TRUE)
           <=> \/ m.act = "session-expired" /\ m.room = None
              \/ Has(inbox', "session-expired", TRUE)
  BY <1>1, TailSeq DEF m
<1>6. Has(inbox', "login-result", FALSE) => conn'[mine].auth
  BY <1>1, <1>4, <1>5 DEF AccountInv
<1>7. ASSUME saved'.login PROVE Pending(conn'[mine], inbox')
  <2>1. saved.login \/ m.act = "login-result"
    BY <1>1, <1>3, <1>7 DEF Holds
  <2>2. CASE m.act = "login-result"
    BY <1>1, <1>4, <1>5, <2>2 DEF AccountInv, Pending
  <2>3. CASE saved.login
    <3>1. Pending(conn[mine], inbox)
      BY <1>1, <2>3 DEF AccountInv
    <3>2. ~(m.act = "session-expired" /\ m.room = None)
      BY <1>1, <1>3, <1>7
    <3>3. Pending(conn[mine], inbox')
      BY <1>5, <3>1, <3>2 DEF Pending
    <3> QED BY <1>4, <3>3
  <2> QED BY <2>1, <2>2, <2>3
<1>8. DOMAIN saved' = SavedFields /\ (saved'.login => saved'.name /\ page'.name)
  BY <1>1, <1>3 DEF Holds
<1> QED BY <1>1, <1>2, <1>4, <1>5, <1>6, <1>7, <1>8 DEF AccountInv

LEMMA UserAccount ==
  ASSUME AccountInv, ServerInv, PageShape, User
  PROVE  AccountInv'
<1>1. ASSUME NEW q, NEW v, NEW msgs, IsSeq(msgs), UserStep(q, v, msgs),
             up => Holds(q, v, FALSE), DOMAIN v = SavedFields, v.login => v.name
      PROVE  AccountInv'
  <2>1. /\ page' = q /\ saved' = v /\ inbox' = inbox /\ mine' = mine
        /\ up' = up /\ marked' = marked /\ Send(msgs \o Mount(page, q))
    BY <1>1 DEF UserStep, Render, link
  <2>2. /\ \A c \in Conns : IsSeq(conn'[c].in)
        /\ conn'[mine].auth = conn[mine].auth
        /\ \A t : Pending(conn[mine], t) => Pending(conn'[mine], t)
    BY <1>1, <2>1, MountSeq, JoinedSeq, SendAccount
  <2> QED BY <1>1, <2>1, <2>2 DEF AccountInv, Holds
<1>2. up => Holds(page, saved, FALSE)
  BY DEF AccountInv, Holds
<1>3. /\ DOMAIN saved = SavedFields /\ (saved.login => saved.name)
      /\ \A act : IsSeq(<<Say(act)>>) /\ \A r, s : IsSeq(<<Msg(act, r, s)>>)
  BY OneSeq DEF AccountInv
<1>4. /\ DOMAIN ForgetRoom(saved) = SavedFields
      /\ ForgetRoom(saved).login => ForgetRoom(saved).name
      /\ \A r, s : DOMAIN SaveRoom(saved, r, s) = SavedFields
      /\ \A r, s : SaveRoom(saved, r, s).login => SaveRoom(saved, r, s).name
  BY <1>3 DEF SaveRoom, ForgetRoom, SavedFields
<1>5. DOMAIN NoLogin = SavedFields /\ ~NoLogin.login
  BY DEF NoLogin, SavedFields
<1>6. ASSUME Login \/ TakeSeat \/ \E r \in Rooms : Join(r) PROVE AccountInv'
  <2>1. \E act, r : UserStep(page, saved, <<Msg(act, r, 0)>>)
    BY <1>6 DEF Login, TakeSeat, Join, Say
  <2> QED BY <1>1, <1>2, <1>3, <2>1
<1>7. ASSUME NEW r \in Rooms, Create(r) PROVE AccountInv'
  <2>1. /\ UserStep([ClearGame(page) EXCEPT !.table = r], SaveRoom(saved, r, 0),
                    <<Msg("create-table", r, 0)>>)
        /\ up
    BY <1>7 DEF Create
  <2>2. Holds([ClearGame(page) EXCEPT !.table = r], SaveRoom(saved, r, 0), FALSE)
    BY <1>2, <1>3, <2>1, EditsHold
  <2>3. IsSeq(<<Msg("create-table", r, 0)>>)
    BY OneSeq
  <2> DEFINE q == [ClearGame(page) EXCEPT !.table = r]
             v == SaveRoom(saved, r, 0)
             msgs == <<Msg("create-table", r, 0)>>
  <2>4. UserStep(q, v, msgs) /\ Holds(q, v, FALSE) /\ IsSeq(msgs)
    BY <2>1, <2>2, <2>3
  <2>5. DOMAIN v = SavedFields /\ (v.login => v.name)
    BY <1>4
  <2> HIDE DEF q, v, msgs
  <2> QED BY <1>1, <2>4, <2>5
<1>8. ASSUME Logout PROVE AccountInv'
  <2>1. UserStep(ResetGame(page), NoLogin, <<>>)
    BY <1>8 DEF Logout
  <2>2. Holds(ResetGame(page), NoLogin, FALSE)
    BY <1>5 DEF Holds
  <2> QED BY <1>1, <1>5, <2>1, <2>2, EmptySeq
<1>9. ASSUME HandleLeave PROVE AccountInv'
  <2>1. UserStep(LeaveRoom(page), ForgetRoom(saved), <<Msg("leave-table", page.table, 0)>>)
    BY <1>9 DEF HandleLeave
  <2>2. up => Holds(LeaveRoom(page), ForgetRoom(saved), FALSE)
    BY <1>2, <1>3, EditsHold
  <2> DEFINE q == LeaveRoom(page)
             v == ForgetRoom(saved)
             msgs == <<Msg("leave-table", page.table, 0)>>
  <2>3. UserStep(q, v, msgs) /\ (up => Holds(q, v, FALSE)) /\ IsSeq(msgs)
    BY <2>1, <2>2, OneSeq
  <2>4. DOMAIN v = SavedFields /\ (v.login => v.name)
    BY <1>4
  <2> HIDE DEF q, v, msgs
  <2> QED BY <1>1, <2>3, <2>4
<1>10. ASSUME CloseSettlement PROVE AccountInv'
  <2>1. UserStep([page EXCEPT !.settle = FALSE], saved, <<>>)
    BY <1>10 DEF CloseSettlement
  <2>2. up => Holds([page EXCEPT !.settle = FALSE], saved, FALSE)
    BY <1>2, <1>3, EditsHold
  <2> QED BY <1>1, <1>3, <2>1, <2>2, EmptySeq
<1> QED BY <1>6, <1>7, <1>8, <1>9, <1>10 DEF User

\* A prefix of a sequence.
LEMMA PrefixSeq ==
  ASSUME NEW q, IsSeq(q), NEW k \in 0 .. Len(q)
  PROVE  IsSeq(SubSeq(q, 1, k))
<1>1. PICK S : q \in Seq(S)
  BY DEF IsSeq
<1>2. SubSeq(q, 1, k) \in Seq(S)
  BY <1>1
<1> QED BY <1>2 DEF IsSeq

\* A new socket's first messages: an account that is logged in is named.
LEMMA ReplaySeq ==
  /\ IsSeq(Replay)
  /\ saved.login => Has(Replay, "reconnect-user", FALSE)
<1> DEFINE u == Say("reconnect-user")
           j == Msg("rejoin-table", saved.table, saved.seat)
<1>1. u.act = "reconnect-user"
  BY DEF Say, Msg
<1>2. \/ Replay = <<>> /\ ~saved.login
      \/ Replay = <<u>> \o <<>>
      \/ Replay = <<u>> \o <<j>>
  BY DEF Replay
<1> HIDE DEF u, j
<1>3. /\ IsSeq(<<u>>) /\ IsSeq(<<j>>) /\ IsSeq(<<>>)
      /\ Has(<<u>>, "reconnect-user", FALSE)
  BY <1>1, OneSeq, EmptySeq
<1>4. /\ IsSeq(<<u>> \o <<>>) /\ Has(<<u>> \o <<>>, "reconnect-user", FALSE)
      /\ IsSeq(<<u>> \o <<j>>) /\ Has(<<u>> \o <<j>>, "reconnect-user", FALSE)
  BY <1>3, JoinedSeq
<1> QED BY <1>2, <1>3, <1>4

LEMMA SocketAccount ==
  ASSUME AccountInv, ServerInv, PageShape, Socket
  PROVE  AccountInv'
<1>1. CASE SocketOpens
  <2> DEFINE first == <<Say("ping")>> \o Replay \o Mount(page, Replayed(page))
  <2>1. PICK c \in Conns :
          /\ mine' = c
          /\ conn' = [conn EXCEPT ![c] = [Closed EXCEPT !.open = TRUE, !.in = first]]
    BY <1>1 DEF SocketOpens
  <2>2. /\ up' /\ ~up /\ marked' = marked /\ saved' = saved /\ inbox' = <<>>
        /\ page' = Replayed(page)
    BY <1>1 DEF SocketOpens, LinkOpen
  <2>3. IsSeq(first) /\ (saved.login => Has(first, "reconnect-user", FALSE))
    <3>1. IsSeq(<<Say("ping")>>) /\ IsSeq(Mount(page, Replayed(page)))
      BY OneSeq, MountSeq
    <3>2. /\ IsSeq(<<Say("ping")>> \o Replay)
          /\ saved.login => Has(<<Say("ping")>> \o Replay, "reconnect-user", FALSE)
      BY <3>1, ReplaySeq, JoinedSeq
    <3> QED BY <3>1, <3>2, JoinedSeq
  <2> HIDE DEF first
  <2>4. conn'[c].in = first /\ \A d \in Conns \ {c} : conn'[d] = conn[d]
    BY <2>1 DEF ServerInv, Shaped, Closed
  <2>5. \A d \in Conns : IsSeq(conn'[d].in)
    BY <2>3, <2>4 DEF AccountInv
  <2>6. saved.login => Replayed(page).name
    BY DEF AccountInv, Replayed, PageShape
  <2>7. saved.login => Pending(conn'[mine'], inbox')
    BY <2>1, <2>3, <2>4 DEF Pending
  <2>8. IsSeq(inbox') /\ ~Has(inbox', "login-result", FALSE)
    BY <2>2, EmptySeq
  <2> QED BY <2>2, <2>5, <2>6, <2>7, <2>8 DEF AccountInv
<1>2. CASE SocketFails \/ ServerClosed \/ AttemptTimesOut \/ OutageTimesOut \/ Reload
  <2>1. SocketGone /\ ~up' /\ ~marked'
    BY <1>2 DEF SocketFails, ServerClosed, AttemptTimesOut, OutageTimesOut, GiveUp, Reload,
       LinkFail, LinkReplace, LinkGiveUp, Dropped
  <2>2. saved' = saved \/ saved' = ForgetRoom(saved)
    BY <1>2 DEF SocketFails, ServerClosed, AttemptTimesOut, OutageTimesOut, GiveUp, Reload,
       browser, Render
  <2>3. DOMAIN saved' = SavedFields /\ (saved'.login => saved'.name)
    BY <2>2 DEF AccountInv, ForgetRoom, SavedFields
  <2>4. \A d \in Conns : IsSeq(conn'[d].in)
    <3>1. PICK k \in 0 .. Len(conn[mine].in) :
            conn' = [conn EXCEPT ![mine].in = SubSeq(@, 1, k)]
      BY <2>1 DEF SocketGone
    <3>2. /\ mine \in Conns /\ DOMAIN conn = Conns /\ DOMAIN conn[mine] = ConnFields
          /\ \A d \in Conns : IsSeq(conn[d].in)
      BY DEF AccountInv, ServerInv, Shaped
    <3>3. /\ \A d \in Conns \ {mine} : conn'[d] = conn[d]
          /\ conn'[mine].in = SubSeq(conn[mine].in, 1, k)
      BY <3>1, <3>2 DEF ConnFields
    <3> QED BY <3>2, <3>3, PrefixSeq
  <2>5. IsSeq(inbox')
    BY <2>1, EmptySeq DEF SocketGone
  <2> QED BY <2>1, <2>3, <2>4, <2>5 DEF AccountInv
<1> QED BY <1>1, <1>2 DEF Socket

LEMMA InitAccount == Init => AccountInv
<1> SUFFICES ASSUME Init PROVE AccountInv
  OBVIOUS
<1>1. /\ ~up /\ ~marked /\ saved = NoLogin /\ inbox = <<>>
      /\ conn = [c \in Conns |-> Closed]
  BY DEF Init, LinkInit
<1>2. \A c \in Conns : conn[c].in = <<>>
  BY <1>1 DEF Closed
<1>3. DOMAIN saved = SavedFields /\ ~saved.login
  BY <1>1 DEF NoLogin, SavedFields
<1> QED BY <1>1, <1>2, <1>3, EmptySeq DEF AccountInv

LEMMA NextAccount == IInv /\ ServerInv /\ AccountInv /\ [Next]_vars => AccountInv'
<1> SUFFICES ASSUME PageShape, ServerInv, AccountInv, [Next]_vars PROVE AccountInv'
  BY DEF IInv
<1>1. CASE UNCHANGED vars
  <2>1. UNCHANGED <<up, marked, page, saved, inbox, conn, mine>>
    BY <1>1 DEF vars, link, browser, server
  <2> QED BY <2>1 DEF AccountInv
<1> QED BY <1>1, PageAccount, UserAccount, SocketAccount, ServerAccount DEF Next

LEMMA AtRestTheAccountsOwn == ServerInv /\ AccountInv => AccountAgrees
<1> SUFFICES ASSUME ServerInv, AccountInv, AtRest PROVE page.name /\ holder = mine
  BY DEF AccountAgrees
<1>1. /\ up /\ saved.login /\ inbox = <<>> /\ mine \in Conns
      /\ conn[mine].open /\ ~conn[mine].kicked /\ conn[mine].in = <<>>
  BY DEF AtRest, AccountInv, ServerInv
<1>2. Pending(conn[mine], inbox) /\ page.name
  BY <1>1 DEF AccountInv
<1>3. conn[mine].auth
  BY <1>1, <1>2, EmptySeq DEF Pending, Cut
<1>4. Heard(conn[mine], mine, holder, up /\ mine = mine)
  BY <1>1 DEF ServerInv, OnlyHolderSpeaks
<1> QED BY <1>1, <1>2, <1>3, <1>4 DEF Heard, Speaks

\* Once nothing is under way, a page that is logged in shows its player, and its
\* connection is the one the server has bound the account to: whatever was lost
\* on the way, and however often the account was taken over by another device
\* (index.tsx, session.go).
THEOREM AccountsAgree == Spec => []AccountAgrees
<1>1. IInv /\ [Next]_vars => IInv'
  BY NextInv
<1>2. IInv /\ ServerInv /\ AccountInv /\ [Next]_vars => AccountInv'
  BY NextAccount
<1> QED BY <1>1, <1>2, InitInv, InitAccount, AtRestTheAccountsOwn, ServerInvariance, PTL DEF Spec

=================================================================================
