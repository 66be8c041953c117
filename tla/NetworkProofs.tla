------------------------------ MODULE NetworkProofs ------------------------------
(***************************************************************************)
(* Proofs about the two connections of a page: the socket to the server    *)
(* (module Connection) and the voice room (module Voice).                  *)
(*                                                                         *)
(* For any rooms and any number of clicks, requests and faults of Voice,   *)
(* parts 1 and 2 say what each operation of the manager leaves alone       *)
(* (Keeps) and which facts its steps keep; part 3 is their types.  Then,   *)
(* for every order of clicks, replies, permissions and rooms:              *)
(*   4. nobody is recorded unasked;                                        *)
(*   5. voice is connected to the player's room, unless a room is left     *)
(*      while a token is under way ("late reply");                         *)
(*   6. the other player is heard as the controls say;                     *)
(*   7. a microphone that looks on is heard by the room, unless LiveKit    *)
(*      refuses its track or one of four timings loses it (NoTrackLost);   *)
(*   8. what goes out has the capture and the filter chosen last, unless a *)
(*      third change also overtakes two ("overtaken").                     *)
(* Each exclusion is one under which the code breaks that promise.         *)
(*                                                                         *)
(* Part 9, for any number of disturbances and any heartbeat of Connection: *)
(* the page is never stranded, and its connection implements the link that *)
(* module Client builds on.                                                *)
(***************************************************************************)
EXTENDS Connection, Voice, SequenceTheorems, TLAPS

(***************************************************************************)
(* PART 1.  What each operation of the manager leaves alone.               *)
(***************************************************************************)
Fields ==
  {"room", "socket", "token", "spaced", "asking", "lk", "lkRoom", "retry", "speaker",
   "mic", "asked", "ask", "hw", "raw", "track", "published", "sent", "going", "filtering", "echo",
   "noise", "micEcho", "applied", "rev", "changes", "muted", "audio"}

\* x is w but for the fields in F.
Keeps(x, w, F) ==
  /\ DOMAIN x = Fields /\ DOMAIN w = Fields
  /\ \A f \in Fields \ F : x[f] = w[f]

LEMMA KeepsChain ==
  ASSUME NEW x, NEW y, NEW z, NEW F, NEW G, Keeps(x, y, F), Keeps(y, z, G)
  PROVE  Keeps(x, z, F \union G)
BY DEF Keeps

\* x asked for a token of the room w is in, or not.
MayAsk(x, w) ==
  x.asking = w.asking \/ (w.room # None /\ x.asking = Append(w.asking, w.room))

\* x connects, or not: only without a connection, in a room, with its token.
MayConnect(x, w) ==
  \/ x.lk = w.lk /\ x.lkRoom = w.lkRoom
  \/ /\ w.lk \notin {"connecting", "connected", "reconnecting"}
     /\ w.room # None /\ w.token.age \notin {"none", "spent"}
     /\ x.lk = "connecting" /\ x.lkRoom = w.token.room

LEMMA RequestTokenKeeps ==
  ASSUME NEW w, DOMAIN w = Fields, NEW force
  PROVE  /\ Keeps(RequestToken(w, force), w, {"spaced", "asking"})
         /\ MayAsk(RequestToken(w, force), w)
BY DEF RequestToken, Keeps, Fields, MayAsk

LEMMA EnsureConnectedKeeps ==
  ASSUME NEW w, DOMAIN w = Fields, NEW x, x = EnsureConnected(w)
  PROVE  Keeps(x, w, {"spaced", "asking", "lk", "lkRoom"}) /\ MayAsk(x, w) /\ MayConnect(x, w)
<1>1. CASE x = w
  BY <1>1 DEF Keeps, MayAsk, MayConnect
<1>2. CASE x = RequestToken(w, FALSE)
  <2> DEFINE y == RequestToken(w, FALSE)
  <2>1. Keeps(y, w, {"spaced", "asking"}) /\ MayAsk(y, w)
    BY RequestTokenKeeps, Zenon
  <2> HIDE DEF y
  <2>2. Keeps(y, w, {"spaced", "asking", "lk", "lkRoom"}) /\ MayConnect(y, w)
    BY <2>1 DEF Keeps, Fields, MayConnect
  <2> QED BY <1>2, <2>1, <2>2 DEF y
<1>3. CASE x = ConnectRoom(w)
  <2>1. CASE x = w \/ x = RequestToken(w, FALSE)
    BY <2>1, <1>1, <1>2
  <2>2. CASE x # w /\ x # RequestToken(w, FALSE)
    <3>1. /\ w.lk \notin {"connecting", "connected", "reconnecting"}
          /\ w.room # None /\ w.token.age \notin {"none", "spent"}
      BY <2>2 DEF EnsureConnected
    <3> QED BY <1>3, <3>1 DEF ConnectRoom, Keeps, Fields, MayAsk, MayConnect
  <2> QED BY <2>1, <2>2
<1> QED BY <1>1, <1>2, <1>3 DEF EnsureConnected

LEMMA IfActiveKeeps ==
  ASSUME NEW w, DOMAIN w = Fields, NEW x, x = IfActive(w)
  PROVE  Keeps(x, w, {"spaced", "asking", "lk", "lkRoom"}) /\ MayAsk(x, w) /\ MayConnect(x, w)
<1>1. CASE x = w
  BY <1>1 DEF Keeps, MayAsk, MayConnect
<1>2. CASE x = EnsureConnected(w)
  BY <1>2, EnsureConnectedKeeps
<1> QED BY <1>1, <1>2 DEF IfActive

LEMMA DropRoomKeeps ==
  ASSUME NEW w, DOMAIN w = Fields, NEW x, x = DropRoom(w)
  PROVE  /\ Keeps(x, w, {"lk", "lkRoom", "published", "sent", "going", "audio", "filtering"})
         /\ x.lk = "none" /\ x.lkRoom = None /\ x.published = NoTrack /\ x.sent = {}
         /\ x.audio = "none" /\ x.filtering = Left(w.filtering)
BY DEF DropRoom, Keeps, Fields

\* What the capture is constrained to when it is asked for c.
Answered(w, c) == IF w.raw = 0 THEN w.applied ELSE [c EXCEPT !.echo = @ /\ ~refuses]

LEMMA ConstrainKeeps ==
  ASSUME NEW w, DOMAIN w = Fields, NEW c
  PROVE  /\ Keeps(Constrain(w, c), w, {"applied"})
         /\ Constrain(w, c).applied =
              IF w.raw = 0 THEN w.applied ELSE [c EXCEPT !.echo = @ /\ ~refuses]
BY DEF Constrain, Keeps, Fields

LEMMA PublishKeeps ==
  ASSUME NEW w, DOMAIN w = Fields, NEW t, NEW filtered, NEW x, x = Publish(w, t, filtered)
  PROVE  /\ Keeps(x, w, {"applied", "published", "sent", "going"})
         /\ x.applied = Constrain(w, Constraints(w)).applied
         /\ x.published = [track |-> t, filtered |-> filtered]
         /\ x.sent = w.sent \union {x.published}
<1> DEFINE c == Constrain(w, Constraints(w))
           p == [track |-> t, filtered |-> filtered]
<1>1. Keeps(c, w, {"applied"})
  BY ConstrainKeeps
<1>2. x = [c EXCEPT !.published = p, !.sent = @ \union {p}, !.going = @ \union {p}]
  BY DEF Publish
<1> HIDE DEF c, p
<1>3. Keeps(x, w, {"applied", "published", "sent", "going"})
  BY <1>1, <1>2 DEF Keeps
<1>4. x.applied = c.applied /\ x.published = p /\ x.sent = w.sent \union {p}
  BY <1>1, <1>2 DEF Keeps, Fields
<1> QED BY <1>3, <1>4 DEF c, p

LEMMA PublishMicKeeps ==
  ASSUME NEW w, DOMAIN w = Fields, NEW x, x = PublishMic(w)
  PROVE  /\ Keeps(x, w, {"applied", "published", "sent", "going", "filtering"})
         /\ \/ (w.track = 0 \/ w.published.track # 0 \/ w.lk # "connected") /\ x = w
            \/ /\ w.track # 0 /\ w.published.track = 0 /\ w.lk = "connected"
               /\ \/ /\ w.noise
                     /\ Keeps(x, w, {"filtering"})
                     /\ x.filtering = w.filtering \union {[track |-> w.track, gone |-> FALSE]}
                  \/ ~w.noise /\ x = Publish(w, w.track, FALSE)
<1> DEFINE Idles == w.track = 0 \/ w.published.track # 0 \/ w.lk # "connected"
<1>1. CASE Idles
  BY <1>1 DEF PublishMic, Keeps
<1>2. CASE ~Idles /\ w.noise
  <2>1. x = [w EXCEPT !.filtering = @ \union {[track |-> w.track, gone |-> FALSE]}]
    BY <1>2 DEF PublishMic
  <2>2. Keeps(x, w, {"filtering"})
    BY <2>1 DEF Keeps, Fields
  <2>3. x.filtering = w.filtering \union {[track |-> w.track, gone |-> FALSE]}
    BY <2>1 DEF Fields
  <2> QED BY <1>2, <2>2, <2>3 DEF Keeps
<1>3. CASE ~Idles /\ ~w.noise
  <2>1. x = Publish(w, w.track, FALSE)
    BY <1>3 DEF PublishMic
  <2>2. Keeps(x, w, {"applied", "published", "sent", "going"})
    BY <2>1, PublishKeeps, Zenon
  <2> QED BY <1>3, <2>1, <2>2 DEF Keeps
<1> QED BY <1>1, <1>2, <1>3

LEMMA UnpublishMicKeeps ==
  ASSUME NEW w, DOMAIN w = Fields, NEW x, x = UnpublishMic(w)
  PROVE  /\ Keeps(x, w, {"published", "sent", "going"})
         /\ x.published = NoTrack /\ x.sent = w.sent \ {w.published}
BY DEF UnpublishMic, Keeps, Fields

LEMMA ReleaseMicKeeps ==
  ASSUME NEW w, DOMAIN w = Fields, NEW x, x = ReleaseMic(w)
  PROVE  /\ Keeps(x, w, {"hw", "raw", "track", "changes"})
         /\ x.hw = w.hw \ {w.raw} /\ x.raw = 0 /\ x.track = 0 /\ x.changes = <<>>
BY DEF ReleaseMic, Keeps, Fields

LEMMA ApplyOutputKeeps ==
  ASSUME NEW w, DOMAIN w = Fields, NEW x, x = ApplyOutput(w)
  PROVE  /\ Keeps(x, w, {"audio"})
         /\ x.audio = IF w.audio = "none" THEN "none"
                      ELSE IF w.speaker /\ ~w.muted THEN "playing" ELSE "muted"
BY DEF ApplyOutput, Keeps, Fields

---------------------------------------------------------------------------------
(* The actions: the fields each of them changes, and startMic.             *)

Shape == DOMAIN v = Fields

LEMMA EnterRoomDoes ==
  ASSUME Shape, NEW r \in Rooms, EnterRoom(r)
  PROVE  /\ Keeps(v', v, {"room", "spaced", "asking", "lk", "lkRoom", "published", "sent", "going",
                         "audio", "filtering"})
         /\ v.room = None /\ v'.room = r /\ v'.published = NoTrack /\ v'.sent = {}
         /\ v'.audio = "none" /\ v'.filtering = Left(v.filtering)
         /\ \/ v'.lk = "none"
            \/ v'.lk = "connecting" /\ v.token.age # "none" /\ v'.lkRoom = v.token.room
         /\ \E a : a \in {v.asking, Append(v.asking, r)} /\ v'.asking \in {a, Append(a, r)}
         /\ UNCHANGED <<starting, refuses>>
<1> DEFINE w1 == DropRoom(v)
           w2 == [w1 EXCEPT !.room = r]
           w3 == RequestToken(w2, FALSE)
<1>1. /\ Keeps(w1, v, {"lk", "lkRoom", "published", "sent", "going", "audio", "filtering"})
      /\ w1.lk = "none" /\ w1.published = NoTrack /\ w1.sent = {}
      /\ w1.audio = "none" /\ w1.filtering = Left(v.filtering)
  BY DropRoomKeeps DEF Shape
<1> HIDE DEF w1
<1>2. Keeps(w2, w1, {"room"}) /\ w2.room = r
  BY <1>1 DEF Keeps, Fields
<1> HIDE DEF w2
<1>3. Keeps(w3, w2, {"spaced", "asking"}) /\ MayAsk(w3, w2)
  BY <1>2, RequestTokenKeeps, Zenon DEF Keeps
<1>4. v' = IfActive(w3)
  BY DEF EnterRoom, w1, w2
<1> HIDE DEF w3
<1>5. /\ Keeps(v', w3, {"spaced", "asking", "lk", "lkRoom"})
      /\ MayAsk(v', w3) /\ MayConnect(v', w3)
  BY <1>3, <1>4, IfActiveKeeps DEF Keeps
<1>6. v.room = None /\ UNCHANGED <<starting, refuses>>
  BY DEF EnterRoom, Quiet
<1>7. /\ w2.lk = "none" /\ w3.lk = "none" /\ w3.token = v.token
      /\ w2.asking = v.asking /\ w3.room = r
  BY <1>1, <1>2, <1>3 DEF Keeps, Fields
<1>8. /\ w3.asking \in {v.asking, Append(v.asking, r)}
      /\ v'.asking \in {w3.asking, Append(w3.asking, r)}
  BY <1>2, <1>3, <1>5, <1>7 DEF MayAsk
<1>9. \/ v'.lk = "none"
      \/ v'.lk = "connecting" /\ v.token.age # "none" /\ v'.lkRoom = v.token.room
  BY <1>5, <1>7 DEF MayConnect
<1>10. /\ v'.room = r /\ v'.published = NoTrack /\ v'.sent = {} /\ v'.audio = "none"
       /\ v'.filtering = Left(v.filtering)
  BY <1>1, <1>2, <1>3, <1>5 DEF Keeps, Fields
<1>11. Keeps(v', v, {"room", "spaced", "asking", "lk", "lkRoom", "published", "sent", "going",
                     "audio", "filtering"})
  BY <1>1, <1>2, <1>3, <1>5 DEF Keeps
<1> QED BY <1>6, <1>8, <1>9, <1>10, <1>11

\* Leaving, or mic off up to the last assignments.
LEMMA GiveUpMic ==
  ASSUME NEW u, DOMAIN u = Fields, NEW x, x = ReleaseMic(UnpublishMic(u))
  PROVE  /\ Keeps(x, u, {"published", "sent", "going", "hw", "raw", "track", "changes"})
         /\ x.published = NoTrack /\ x.sent = u.sent \ {u.published}
         /\ x.hw = u.hw \ {u.raw} /\ x.raw = 0 /\ x.track = 0 /\ x.changes = <<>>
<1> DEFINE y == UnpublishMic(u)
<1>1. /\ Keeps(y, u, {"published", "sent", "going"})
      /\ y.published = NoTrack /\ y.sent = u.sent \ {u.published}
  BY UnpublishMicKeeps
<1> HIDE DEF y
<1>2. /\ Keeps(x, y, {"hw", "raw", "track", "changes"})
      /\ x.hw = y.hw \ {y.raw} /\ x.raw = 0 /\ x.track = 0 /\ x.changes = <<>>
  BY <1>1, ReleaseMicKeeps DEF Keeps, y
<1> QED BY <1>1, <1>2 DEF Keeps, Fields

LEMMA LeaveRoomDoes ==
  ASSUME Shape, LeaveRoom
  PROVE  /\ Keeps(v', v, {"room", "token", "mic", "speaker", "asked", "ask", "lk", "lkRoom",
                         "published", "sent", "going", "audio", "filtering", "hw", "raw", "track",
                         "changes"})
         /\ v'.room = None /\ v'.token = NoToken /\ v'.mic = FALSE /\ v'.speaker = FALSE
         /\ v'.asked = FALSE /\ v'.ask = v.ask + 1 /\ v'.lk = "none" /\ v'.lkRoom = None
         /\ v'.published = NoTrack /\ v'.sent = {} /\ v'.audio = "none"
         /\ v'.filtering = Left(v.filtering) /\ v'.hw = v.hw \ {v.raw}
         /\ v'.raw = 0 /\ v'.track = 0 /\ v'.changes = <<>>
         /\ UNCHANGED <<starting, refuses>>
<1> DEFINE u == [v EXCEPT !.asked = FALSE, !.ask = @ + 1]
           w == ReleaseMic(UnpublishMic(u))
           d == DropRoom(w)
<1>1. Keeps(u, v, {"asked", "ask"}) /\ u.asked = FALSE /\ u.ask = v.ask + 1
  BY DEF Shape, Keeps, Fields
<1> HIDE DEF u
<1>2. /\ Keeps(w, u, {"published", "sent", "going", "hw", "raw", "track", "changes"})
      /\ w.hw = u.hw \ {u.raw} /\ w.raw = 0 /\ w.track = 0 /\ w.changes = <<>>
  BY <1>1, GiveUpMic DEF Keeps
<1> HIDE DEF w
<1>3. /\ Keeps(d, w, {"lk", "lkRoom", "published", "sent", "going", "audio", "filtering"})
      /\ d.lk = "none" /\ d.lkRoom = None /\ d.published = NoTrack /\ d.sent = {}
      /\ d.audio = "none" /\ d.filtering = Left(w.filtering)
  BY <1>2, DropRoomKeeps DEF Keeps
<1>4. v' = [d EXCEPT !.room = None, !.token = NoToken, !.mic = FALSE, !.speaker = FALSE]
  BY DEF LeaveRoom, u, w
<1> HIDE DEF d
<1>5. /\ Keeps(v', d, {"room", "token", "mic", "speaker"})
      /\ v'.room = None /\ v'.token = NoToken /\ v'.mic = FALSE /\ v'.speaker = FALSE
  BY <1>3, <1>4 DEF Keeps, Fields
<1>6. UNCHANGED <<starting, refuses>>
  BY DEF LeaveRoom, Quiet
<1>7. Keeps(v', v, {"room", "token", "mic", "speaker", "asked", "ask", "lk", "lkRoom",
                    "published", "sent", "going", "audio", "filtering", "hw", "raw", "track",
                    "changes"})
  BY <1>1, <1>2, <1>3, <1>5 DEF Keeps
<1>8. /\ v'.asked = FALSE /\ v'.ask = v.ask + 1 /\ v'.hw = v.hw \ {v.raw}
      /\ v'.raw = 0 /\ v'.track = 0 /\ v'.changes = <<>>
  BY <1>1, <1>2, <1>3, <1>5 DEF Keeps, Fields
<1>9. /\ v'.lk = "none" /\ v'.lkRoom = None /\ v'.published = NoTrack /\ v'.sent = {}
      /\ v'.audio = "none" /\ v'.filtering = Left(v.filtering)
  BY <1>1, <1>2, <1>3, <1>5 DEF Keeps, Fields
<1> QED BY <1>5, <1>6, <1>7, <1>8, <1>9

LEMMA TokenArrivesDoes ==
  ASSUME Shape, TokenArrives
  PROVE  /\ Keeps(v', v, {"asking", "token", "spaced", "lk", "lkRoom"})
         /\ v.asking # <<>>
         /\ \/ v'.asking = Tail(v.asking)
            \/ v.room # None /\ v'.asking = Append(Tail(v.asking), v.room)
         /\ v'.token = [room |-> Head(v.asking), age |-> "fresh"]
         /\ \/ v'.lk = v.lk /\ v'.lkRoom = v.lkRoom
            \/ /\ v.lk \notin {"connecting", "connected", "reconnecting"}
               /\ v'.lk = "connecting" /\ v'.lkRoom = Head(v.asking)
         /\ UNCHANGED <<starting, refuses>>
<1> DEFINE t == [room |-> Head(v.asking), age |-> "fresh"]
           w == [v EXCEPT !.asking = Tail(@), !.token = t]
<1>1. Keeps(w, v, {"asking", "token"}) /\ w.asking = Tail(v.asking) /\ w.token = t
  BY DEF Shape, Keeps, Fields
<1>2. v.asking # <<>> /\ v' = IfActive(w) /\ UNCHANGED <<starting, refuses>>
  BY DEF TokenArrives, Quiet
<1> HIDE DEF w
<1>3. Keeps(v', w, {"spaced", "asking", "lk", "lkRoom"}) /\ MayAsk(v', w) /\ MayConnect(v', w)
  BY <1>1, <1>2, IfActiveKeeps DEF Keeps
<1>4. Keeps(v', v, {"asking", "token", "spaced", "lk", "lkRoom"}) /\ v'.token = t
  BY <1>1, <1>3 DEF Keeps, Fields
<1>5. /\ w.lk = v.lk /\ w.lkRoom = v.lkRoom /\ w.room = v.room
  BY <1>1 DEF Keeps, Fields
<1> QED BY <1>1, <1>2, <1>3, <1>4, <1>5 DEF MayAsk, MayConnect

LEMMA TokenWearsOut ==
  ASSUME Shape, TokenRefused \/ SpacingEnds \/ TokenAges \/ SocketDrops
  PROVE  /\ Keeps(v', v, {"asking", "token", "spaced", "socket"})
         /\ \/ v'.asking = v.asking \/ v'.asking = <<>>
            \/ v.asking # <<>> /\ v'.asking = Tail(v.asking)
         /\ \/ v'.token = v.token
            \/ v.token.age # "none" /\ \E a \in {"old", "spent"} :
                 v'.token = [v.token EXCEPT !.age = a]
         /\ UNCHANGED <<starting, refuses>>
<1>1. CASE TokenRefused
  BY <1>1 DEF TokenRefused, Fault, Shape, Keeps, Fields
<1>2. CASE SpacingEnds
  BY <1>2 DEF SpacingEnds, Quiet, Shape, Keeps, Fields
<1>3. CASE TokenAges
  BY <1>3 DEF TokenAges, Fault, Shape, Keeps, Fields
<1>4. CASE SocketDrops
  BY <1>4 DEF SocketDrops, Fault, Shape, Keeps, Fields
<1> QED BY <1>1, <1>2, <1>3, <1>4

LEMMA SocketReturnsDoes ==
  ASSUME Shape, SocketReturns
  PROVE  /\ Keeps(v', v, {"socket", "asking", "spaced", "lk", "lkRoom"})
         /\ v'.asking = <<>> /\ MayConnect(v', v)
         /\ UNCHANGED <<starting, refuses>>
<1> DEFINE w == [v EXCEPT !.socket = TRUE]
           x == IfActive(w)
<1>1. Keeps(w, v, {"socket"})
  BY DEF Shape, Keeps, Fields
<1>2. v' = [x EXCEPT !.asking = <<>>] /\ UNCHANGED <<starting, refuses>>
  BY DEF SocketReturns, Quiet
<1> HIDE DEF w
<1>3. Keeps(x, w, {"spaced", "asking", "lk", "lkRoom"}) /\ MayConnect(x, w)
  BY <1>1, IfActiveKeeps DEF Keeps
<1> HIDE DEF x
<1>4. Keeps(v', x, {"asking"}) /\ v'.asking = <<>>
  BY <1>2, <1>3 DEF Keeps, Fields
<1>5. Keeps(v', v, {"socket", "asking", "spaced", "lk", "lkRoom"})
  BY <1>1, <1>3, <1>4 DEF Keeps
<1>6. MayConnect(v', v)
  BY <1>1, <1>3, <1>4 DEF Keeps, Fields, MayConnect
<1> QED BY <1>2, <1>4, <1>5, <1>6

LEMMA RetryFiresDoes ==
  ASSUME Shape, RetryFires
  PROVE  /\ Keeps(v', v, {"retry", "asking", "spaced", "lk", "lkRoom"})
         /\ MayAsk(v', v) /\ MayConnect(v', v)
         /\ UNCHANGED <<starting, refuses>>
<1> DEFINE w == [v EXCEPT !.retry = FALSE]
<1>1. Keeps(w, v, {"retry"})
  BY DEF Shape, Keeps, Fields
<1>2. v' = IfActive(w) /\ UNCHANGED <<starting, refuses>>
  BY DEF RetryFires, Quiet
<1> HIDE DEF w
<1>3. Keeps(v', w, {"spaced", "asking", "lk", "lkRoom"}) /\ MayAsk(v', w) /\ MayConnect(v', w)
  BY <1>1, <1>2, IfActiveKeeps DEF Keeps
<1>4. Keeps(v', v, {"retry", "asking", "spaced", "lk", "lkRoom"})
  BY <1>1, <1>3 DEF Keeps
<1>5. MayAsk(v', v) /\ MayConnect(v', v)
  BY <1>1, <1>3 DEF Keeps, Fields, MayAsk, MayConnect
<1> QED BY <1>2, <1>4, <1>5

LEMMA ConnectedDoes ==
  ASSUME Shape, Connected, NEW w, w = [v EXCEPT !.lk = "connected"]
  PROVE  /\ Keeps(v', v, {"lk", "applied", "published", "sent", "going", "filtering"})
         /\ Keeps(w, v, {"lk"}) /\ w.lk = "connected" /\ v'.lk = "connected"
         /\ v' = PublishMic(w) /\ v.lk = "connecting"
         /\ UNCHANGED <<starting, refuses>>
<1>1. Keeps(w, v, {"lk"}) /\ w.lk = "connected"
  BY DEF Shape, Keeps, Fields
<1>2. v' = PublishMic(w) /\ v.lk = "connecting" /\ UNCHANGED <<starting, refuses>>
  BY DEF Connected, Quiet
<1>3. Keeps(v', w, {"applied", "published", "sent", "going", "filtering"})
  <2>1. DOMAIN w = Fields
    BY <1>1 DEF Keeps
  <2> QED BY <1>2, <2>1, PublishMicKeeps, Zenon
<1> QED BY <1>1, <1>2, <1>3 DEF Keeps, Fields

LEMMA ConnectFailsDoes ==
  ASSUME Shape, ConnectFails
  PROVE  /\ Keeps(v', v, {"lk", "lkRoom", "token"})
         /\ v.lk = "connecting" /\ v'.lk = "idle" /\ v'.token = NoToken
         /\ UNCHANGED <<starting, refuses>>
BY DEF ConnectFails, Fault, Shape, Keeps, Fields

LEMMA DisconnectedDoes ==
  ASSUME Shape, Disconnected
  PROVE  /\ Keeps(v', v, {"lk", "lkRoom", "published", "sent", "going", "audio", "filtering",
                         "retry", "asking", "spaced"})
         /\ MayAsk(v', v) /\ v'.lk = "none" /\ v'.published = NoTrack /\ v'.sent = {}
         /\ v'.audio = "none" /\ v'.filtering = Left(v.filtering)
         /\ UNCHANGED <<starting, refuses>>
<1> DEFINE w == DropRoom(v)
           x == RequestToken(w, TRUE)
<1>1. /\ Keeps(w, v, {"lk", "lkRoom", "published", "sent", "going", "audio", "filtering"})
      /\ w.lk = "none" /\ w.published = NoTrack /\ w.sent = {}
      /\ w.audio = "none" /\ w.filtering = Left(v.filtering)
  BY DropRoomKeeps DEF Shape
<1>2. v' = w \/ v' = [x EXCEPT !.retry = TRUE]
  BY Zenon DEF Disconnected
<1>3. UNCHANGED <<starting, refuses>>
  BY DEF Disconnected, Fault
<1> HIDE DEF w
<1>4. Keeps(x, w, {"spaced", "asking"}) /\ MayAsk(x, w)
  BY <1>1, RequestTokenKeeps, Zenon DEF Keeps
<1> HIDE DEF x
<1>5. CASE v' = w
  BY <1>1, <1>3, <1>5 DEF Keeps, Fields, MayAsk
<1>6. CASE v' = [x EXCEPT !.retry = TRUE]
  <2>1. Keeps(v', x, {"retry"})
    BY <1>4, <1>6 DEF Keeps, Fields
  <2>2. MayAsk(v', v)
    BY <2>1, <1>1, <1>4 DEF MayAsk, Keeps, Fields
  <2> QED BY <2>1, <2>2, <1>1, <1>3, <1>4 DEF Keeps, Fields
<1> QED BY <1>2, <1>5, <1>6

LEMMA LinkMends ==
  ASSUME Shape, Reconnecting \/ Reconnected
  PROVE  /\ Keeps(v', v, {"lk"}) /\ {v.lk, v'.lk} = {"connected", "reconnecting"}
         /\ UNCHANGED <<starting, refuses>>
BY DEF Reconnecting, Reconnected, Fault, Quiet, Shape, Keeps, Fields

LEMMA PeerDoes ==
  ASSUME Shape, PeerSpeaks \/ PeerStops
  PROVE  /\ Keeps(v', v, {"audio"}) /\ UNCHANGED <<starting, refuses>>
         /\ \/ v'.audio = "none"
            \/ /\ v.lk = "connected"
               /\ v'.audio = IF v.speaker /\ ~v.muted THEN "playing" ELSE "muted"
<1>1. CASE PeerSpeaks
  <2> DEFINE w == [v EXCEPT !.audio = "muted"]
  <2>1. Keeps(w, v, {"audio"}) /\ w.audio = "muted"
    BY DEF Shape, Keeps, Fields
  <2>2. v.lk = "connected" /\ v' = ApplyOutput(w) /\ UNCHANGED <<starting, refuses>>
    BY <1>1 DEF PeerSpeaks, Quiet
  <2> HIDE DEF w
  <2>3. /\ Keeps(v', w, {"audio"})
        /\ v'.audio = IF w.audio = "none" THEN "none"
                      ELSE IF w.speaker /\ ~w.muted THEN "playing" ELSE "muted"
    BY <2>1, <2>2, ApplyOutputKeeps DEF Keeps
  <2>4. w.speaker = v.speaker /\ w.muted = v.muted
    BY <2>1 DEF Keeps, Fields
  <2>5. Keeps(v', v, {"audio"})
    BY <2>1, <2>3 DEF Keeps
  <2> QED BY <2>1, <2>2, <2>3, <2>4, <2>5
<1>2. CASE PeerStops
  BY <1>2 DEF PeerStops, Quiet, Shape, Keeps, Fields
<1> QED BY <1>1, <1>2

LEMMA SetMicOnDoes ==
  ASSUME Shape, SetMicOn
  PROVE  /\ Keeps(v', v, {"asked", "ask"}) /\ v'.asked = TRUE /\ v'.ask = v.ask + 1
         /\ v.room # None /\ ~v.asked /\ v.ask < AskLimit
         /\ starting' = [starting EXCEPT ![v.ask + 1] = [at |-> "permission", echo |-> v.echo]]
         /\ UNCHANGED refuses
BY DEF SetMicOn, Quiet, Shape, Keeps, Fields

LEMMA SetMicOffDoes ==
  ASSUME Shape, SetMicOff
  PROVE  /\ Keeps(v', v, {"asked", "ask", "mic", "published", "sent", "going", "hw", "raw", "track",
                         "changes"})
         /\ v'.asked = FALSE /\ v'.ask = v.ask + 1 /\ v'.mic = FALSE /\ v.mic
         /\ v'.published = NoTrack /\ v'.sent = v.sent \ {v.published}
         /\ v'.hw = v.hw \ {v.raw} /\ v'.raw = 0 /\ v'.track = 0 /\ v'.changes = <<>>
         /\ UNCHANGED <<starting, refuses>>
<1> DEFINE w == ReleaseMic(UnpublishMic(v))
<1>1. /\ Keeps(w, v, {"published", "sent", "going", "hw", "raw", "track", "changes"})
      /\ w.published = NoTrack /\ w.sent = v.sent \ {v.published}
      /\ w.hw = v.hw \ {v.raw} /\ w.raw = 0 /\ w.track = 0 /\ w.changes = <<>>
  BY GiveUpMic DEF Shape
<1>2. /\ v.mic /\ v' = [w EXCEPT !.asked = FALSE, !.ask = @ + 1, !.mic = FALSE]
      /\ UNCHANGED <<starting, refuses>>
  BY DEF SetMicOff, Quiet
<1> HIDE DEF w
<1> QED BY <1>1, <1>2 DEF Keeps, Fields

\* The end of startMic: the constraints are asked for again, or the track goes out.
LEMMA StartedDoes ==
  ASSUME Shape, NEW w, DOMAIN w = Fields, NEW r, Started(w, r)
  PROVE  \/ /\ starting[r].echo # w.echo
            /\ v' = Constrain(w, Constraints(w)) /\ Keeps(v', w, {"applied"})
            /\ starting' = [starting EXCEPT ![r] = [at |-> "apply", echo |-> w.echo]]
         \/ /\ \E u : /\ Keeps(u, w, {"micEcho"}) /\ u.micEcho = w.echo
                     /\ \E p : /\ p = PublishMic(u)
                              /\ Keeps(v', p, {"mic", "asking", "spaced", "lk", "lkRoom"})
                              /\ v'.mic = TRUE /\ MayAsk(v', p) /\ MayConnect(v', p)
            /\ Keeps(v', w, {"micEcho", "applied", "published", "sent", "going", "filtering", "mic",
                             "asking", "spaced", "lk", "lkRoom"})
            /\ Stop(r)
<1>1. CASE starting[r].echo # w.echo
  <2>1. Keeps(Constrain(w, Constraints(w)), w, {"applied"})
    BY ConstrainKeeps
  <2> QED BY <1>1, <2>1 DEF Started
<1>2. CASE starting[r].echo = w.echo
  <2> DEFINE u  == [w EXCEPT !.micEcho = w.echo]
             p  == PublishMic(u)
             on == [p EXCEPT !.mic = TRUE]
  <2>1. Keeps(u, w, {"micEcho"}) /\ u.micEcho = w.echo
    BY DEF Keeps, Fields
  <2>2. (v' = on \/ v' = EnsureConnected(on)) /\ Stop(r)
    BY <1>2 DEF Started
  <2> HIDE DEF u
  <2>3. Keeps(p, u, {"applied", "published", "sent", "going", "filtering"})
    <3>1. DOMAIN u = Fields
      BY <2>1 DEF Keeps
    <3> QED BY <3>1, PublishMicKeeps, Zenon
  <2>4. p = PublishMic(u)
    OBVIOUS
  <2> HIDE DEF p
  <2>5. Keeps(on, p, {"mic"}) /\ on.mic = TRUE
    BY <2>3 DEF Keeps, Fields
  <2> HIDE DEF on
  <2>6. /\ Keeps(v', on, {"spaced", "asking", "lk", "lkRoom"})
        /\ MayAsk(v', on) /\ MayConnect(v', on)
    <3>1. CASE v' = on
      BY <3>1, <2>5 DEF Keeps, MayAsk, MayConnect
    <3>2. CASE v' = EnsureConnected(on)
      BY <3>2, <2>5, EnsureConnectedKeeps DEF Keeps
    <3> QED BY <2>2, <3>1, <3>2
  <2>7. Keeps(v', p, {"mic", "asking", "spaced", "lk", "lkRoom"}) /\ v'.mic = TRUE
    BY <2>5, <2>6 DEF Keeps, Fields
  <2>8. MayAsk(v', p) /\ MayConnect(v', p)
    BY <2>5, <2>6 DEF Keeps, Fields, MayAsk, MayConnect
  <2>9. Keeps(v', w, {"micEcho", "applied", "published", "sent", "going", "filtering", "mic",
                      "asking", "spaced", "lk", "lkRoom"})
    BY <2>1, <2>3, <2>7 DEF Keeps
  <2> QED BY <2>1, <2>2, <2>4, <2>7, <2>8, <2>9
<1> QED BY <1>1, <1>2

LEMMA PermissionGrantedDoes ==
  ASSUME Shape, NEW r \in Asks, PermissionGranted(r)
  PROVE  /\ starting[r].at = "permission" /\ UNCHANGED refuses
         /\ \/ r # v.ask /\ Stop(r) /\ v' = v
            \/ /\ r = v.ask /\ starting' = [starting EXCEPT ![r].at = "resume"]
               /\ Keeps(v', v, {"raw", "applied", "hw"})
               /\ v'.raw = r /\ v'.hw = v.hw \union {r}
               /\ v'.applied = Answered([v EXCEPT !.raw = r],
                                        [Constraints(v) EXCEPT !.echo = starting[r].echo])
<1> DEFINE u == [v EXCEPT !.raw = r]
           c == [Constraints(v) EXCEPT !.echo = starting[r].echo]
           w == Constrain(u, c)
<1>1. Keeps(u, v, {"raw"}) /\ u.raw = r
  BY DEF Shape, Keeps, Fields
<1>2. /\ starting[r].at = "permission" /\ UNCHANGED refuses
      /\ \/ r # v.ask /\ Stop(r) /\ v' = v
         \/ /\ r = v.ask /\ starting' = [starting EXCEPT ![r].at = "resume"]
            /\ v' = [w EXCEPT !.hw = @ \union {r}]
  <2>1. starting[r].at = "permission" /\ UNCHANGED refuses
    BY DEF PermissionGranted, Quiet
  <2>2. CASE r # v.ask
    BY <2>1, <2>2 DEF PermissionGranted
  <2>3. CASE r = v.ask
    <3>1. v' = [w EXCEPT !.hw = @ \union {r}]
      BY <2>3, Zenon DEF PermissionGranted
    <3>2. starting' = [starting EXCEPT ![r].at = "resume"]
      BY <2>3 DEF PermissionGranted
    <3> QED BY <2>1, <2>3, <3>1, <3>2
  <2> QED BY <2>2, <2>3
<1> HIDE DEF u, c
<1>3. Keeps(w, u, {"applied"}) /\ w.applied = Answered(u, c)
  <2>1. DOMAIN u = Fields
    BY <1>1 DEF Keeps
  <2> QED BY <2>1, ConstrainKeeps, Zenon DEF Answered
<1> HIDE DEF w
<1>4. CASE v' = [w EXCEPT !.hw = @ \union {r}]
  <2>1. Keeps(v', w, {"hw"}) /\ v'.hw = w.hw \union {r}
    BY <1>3, <1>4 DEF Keeps, Fields
  <2>2. Keeps(v', v, {"raw", "applied", "hw"})
    BY <2>1, <1>1, <1>3 DEF Keeps
  <2>3. v'.raw = r /\ v'.hw = v.hw \union {r} /\ v'.applied = Answered(u, c)
    BY <2>1, <1>1, <1>3 DEF Keeps, Fields
  <2> QED BY <2>2, <2>3, <1>2 DEF u, c
<1> QED BY <1>2, <1>4

LEMMA PermissionDeniedDoes ==
  ASSUME Shape, NEW r \in Asks, PermissionDenied(r)
  PROVE  /\ starting[r].at = "permission" /\ Stop(r) /\ UNCHANGED refuses
         /\ \/ r # v.ask /\ v' = v
            \/ r = v.ask /\ Keeps(v', v, {"asked"}) /\ v'.asked = FALSE
BY DEF PermissionDenied, Fault, Shape, Keeps, Fields

LEMMA GraphResumedDoes ==
  ASSUME Shape, NEW r \in Asks, GraphResumed(r)
  PROVE  /\ starting[r].at = "resume" /\ UNCHANGED refuses
         /\ \/ r # v.ask /\ Stop(r) /\ v' = v
            \/ /\ r = v.ask
               /\ \E w : Keeps(w, v, {"track"}) /\ w.track = r /\ Started(w, r)
<1> DEFINE w == [v EXCEPT !.track = r]
<1>1. Keeps(w, v, {"track"}) /\ w.track = r
  BY DEF Shape, Keeps, Fields
<1>2. /\ starting[r].at = "resume" /\ UNCHANGED refuses
      /\ \/ r # v.ask /\ Stop(r) /\ v' = v
         \/ r = v.ask /\ Started(w, r)
  BY DEF GraphResumed, Quiet
<1> HIDE DEF w
<1> QED BY <1>1, <1>2

LEMMA ChoiceAppliedDoes ==
  ASSUME Shape, NEW r \in Asks, ChoiceApplied(r)
  PROVE  /\ starting[r].at = "apply" /\ UNCHANGED refuses
         /\ \/ r # v.ask /\ Stop(r) /\ v' = v
            \/ r = v.ask /\ Started(v, r)
            \/ /\ r = v.ask /\ Stop(r) /\ refuses
               /\ Keeps(v', v, {"hw", "raw", "track", "changes", "asked"})
               /\ v'.hw = v.hw \ {v.raw} /\ v'.raw = 0 /\ v'.track = 0 /\ v'.changes = <<>>
               /\ v'.asked = FALSE
<1> DEFINE w == ReleaseMic(v)
<1>1. /\ Keeps(w, v, {"hw", "raw", "track", "changes"})
      /\ w.hw = v.hw \ {v.raw} /\ w.raw = 0 /\ w.track = 0 /\ w.changes = <<>>
  BY ReleaseMicKeeps DEF Shape
<1>2. /\ starting[r].at = "apply" /\ UNCHANGED refuses
      /\ \/ r # v.ask /\ Stop(r) /\ v' = v
         \/ r = v.ask /\ Started(v, r)
         \/ r = v.ask /\ Stop(r) /\ refuses /\ v' = [w EXCEPT !.asked = FALSE]
  BY DEF ChoiceApplied, Quiet
<1> HIDE DEF w
<1> QED BY <1>1, <1>2 DEF Keeps, Fields

\* What a step of startMic may come to.
LEMMA MicGoesOn ==
  ASSUME Shape, NEW r \in Asks,
         PermissionGranted(r) \/ PermissionDenied(r) \/ GraphResumed(r) \/ ChoiceApplied(r)
  PROVE  \/ v' = v \/ Keeps(v', v, {"raw", "applied", "hw", "asked", "track", "changes"})
         \/ \E w : Keeps(w, v, {"track"}) /\ Started(w, r)
<1>1. CASE PermissionGranted(r)
  <2>1. v' = v \/ Keeps(v', v, {"raw", "applied", "hw"})
    BY <1>1, PermissionGrantedDoes
  <2> QED BY <2>1 DEF Keeps
<1>2. CASE PermissionDenied(r)
  <2>1. v' = v \/ Keeps(v', v, {"asked"})
    BY <1>2, PermissionDeniedDoes
  <2> QED BY <2>1 DEF Keeps
<1>3. CASE GraphResumed(r)
  BY <1>3, GraphResumedDoes
<1>4. CASE ChoiceApplied(r)
  <2>1. v' = v \/ Started(v, r) \/ Keeps(v', v, {"hw", "raw", "track", "changes", "asked"})
    BY <1>4, ChoiceAppliedDoes
  <2>2. Keeps(v, v, {"track"})
    BY DEF Shape, Keeps
  <2>3. CASE Keeps(v', v, {"hw", "raw", "track", "changes", "asked"})
    BY <2>3 DEF Keeps
  <2> QED BY <2>1, <2>2, <2>3
<1> QED BY <1>1, <1>2, <1>3, <1>4

LEMMA StartedConnects ==
  ASSUME Shape, NEW r \in Asks, NEW w, Keeps(w, v, {"track"}), Started(w, r)
  PROVE  /\ Keeps(v', v, {"track", "micEcho", "applied", "published", "sent", "going", "filtering",
                          "mic", "asking", "spaced", "lk", "lkRoom"})
         /\ MayAsk(v', v) /\ MayConnect(v', v)
<1>1. DOMAIN w = Fields
  BY DEF Keeps
<1>2. w.room = v.room /\ w.token = v.token /\ w.asking = v.asking /\ w.lk = v.lk
      /\ w.lkRoom = v.lkRoom
  BY DEF Keeps, Fields
<1>3. \/ Keeps(v', w, {"applied"})
      \/ \E u : /\ Keeps(u, w, {"micEcho"})
                /\ \E p : /\ p = PublishMic(u)
                          /\ Keeps(v', p, {"mic", "asking", "spaced", "lk", "lkRoom"})
                          /\ MayAsk(v', p) /\ MayConnect(v', p)
  BY <1>1, StartedDoes
<1>4. CASE Keeps(v', w, {"applied"})
  <2>1. v'.asking = v.asking /\ v'.lk = v.lk /\ v'.lkRoom = v.lkRoom
    BY <1>2, <1>4 DEF Keeps, Fields
  <2> QED BY <1>4, <2>1 DEF Keeps, MayAsk, MayConnect
<1>5. ASSUME NEW u, Keeps(u, w, {"micEcho"}), NEW p, p = PublishMic(u),
             Keeps(v', p, {"mic", "asking", "spaced", "lk", "lkRoom"}),
             MayAsk(v', p), MayConnect(v', p)
      PROVE  /\ Keeps(v', v, {"track", "micEcho", "applied", "published", "sent", "going", "filtering",
                              "mic", "asking", "spaced", "lk", "lkRoom"})
             /\ MayAsk(v', v) /\ MayConnect(v', v)
  <2>1. DOMAIN u = Fields
    BY <1>5 DEF Keeps
  <2>2. Keeps(p, u, {"applied", "published", "sent", "going", "filtering"})
    BY <1>5, <2>1, PublishMicKeeps, Zenon
  <2>3. p.room = v.room /\ p.token = v.token /\ p.asking = v.asking /\ p.lk = v.lk
        /\ p.lkRoom = v.lkRoom
    BY <1>2, <1>5, <2>2 DEF Keeps, Fields
  <2>4. MayAsk(v', v) /\ MayConnect(v', v)
    BY <1>5, <2>3 DEF MayAsk, MayConnect
  <2> QED BY <1>5, <2>2, <2>4 DEF Keeps
<1> QED BY <1>3, <1>4, <1>5

---------------------------------------------------------------------------------
(* The queue of changes.                                                   *)

\* A change that waits its turn is appended.
Queues(x, w, kind) ==
  x.changes = Append(w.changes, [kind |-> kind, rev |-> x.rev, ask |-> w.ask, at |-> "wait",
                                 to |-> Constraints(x)])

LEMMA SetChoiceDoes ==
  ASSUME Shape, SetEchoCancellation \/ SetNoiseCancellation
  PROVE  /\ \/ Keeps(v', v, {"echo", "rev", "changes"}) /\ (v.mic => Queues(v', v, "echo"))
            \/ /\ Keeps(v', v, {"noise", "rev", "changes"}) /\ (v.mic => Queues(v', v, "noise"))
               /\ MicStays /\ Steady
         /\ ~v.mic => v'.changes = v.changes
         /\ v'.echo \in {v.echo, ~v.echo} /\ v'.noise \in {v.noise, ~v.noise}
         /\ v'.rev = v.rev + 1 /\ MayChange /\ ~TurnOfChange
         /\ UNCHANGED <<starting, refuses>>
<1>1. CASE SetEchoCancellation
  <2> DEFINE w == [v EXCEPT !.echo = ~@, !.rev = @ + 1]
  <2>1. Keeps(w, v, {"echo", "rev"}) /\ w.rev = v.rev + 1 /\ w.echo = ~v.echo
    BY DEF Shape, Keeps, Fields
  <2>2. /\ v' = Changed(w, "echo") /\ MayChange /\ ~TurnOfChange
        /\ UNCHANGED <<starting, refuses>>
    BY <1>1 DEF SetEchoCancellation, Click
  <2> HIDE DEF w
  <2>3. CASE v.mic
    <3>1. v' = [w EXCEPT !.changes = Append(@, Change(w, "echo"))]
      BY <2>1, <2>2, <2>3 DEF Changed, Keeps, Fields
    <3>2. Keeps(v', w, {"changes"}) /\ v'.changes = Append(w.changes, Change(w, "echo"))
      BY <2>1, <3>1 DEF Keeps, Fields
    <3>3. Constraints(v') = Constraints(w) /\ w.changes = v.changes /\ w.ask = v.ask
      BY <2>1, <3>2 DEF Keeps, Fields, Constraints
    <3>4. Queues(v', v, "echo")
      BY <3>2, <3>3 DEF Queues, Change, Keeps, Fields
    <3>5. Keeps(v', v, {"echo", "rev", "changes"})
      BY <2>1, <3>2 DEF Keeps
    <3> QED BY <2>1, <2>2, <2>3, <3>2, <3>4, <3>5 DEF Keeps, Fields
  <2>4. CASE ~v.mic
    <3>1. v' = w
      BY <2>1, <2>2, <2>4 DEF Changed, Keeps, Fields
    <3> QED BY <2>1, <2>2, <2>4, <3>1 DEF Keeps, Fields
  <2> QED BY <2>3, <2>4
<1>2. CASE SetNoiseCancellation
  <2> DEFINE w == [v EXCEPT !.noise = ~@, !.rev = @ + 1]
  <2>1. Keeps(w, v, {"noise", "rev"}) /\ w.rev = v.rev + 1 /\ w.noise = ~v.noise
    BY DEF Shape, Keeps, Fields
  <2>2. /\ v' = Changed(w, "noise") /\ MayChange /\ ~TurnOfChange /\ MicStays /\ Steady
        /\ UNCHANGED <<starting, refuses>>
    BY <1>2 DEF SetNoiseCancellation, Click
  <2> HIDE DEF w
  <2>3. CASE v.mic
    <3>1. v' = [w EXCEPT !.changes = Append(@, Change(w, "noise"))]
      BY <2>1, <2>2, <2>3 DEF Changed, Keeps, Fields
    <3>2. Keeps(v', w, {"changes"}) /\ v'.changes = Append(w.changes, Change(w, "noise"))
      BY <2>1, <3>1 DEF Keeps, Fields
    <3>3. Constraints(v') = Constraints(w) /\ w.changes = v.changes /\ w.ask = v.ask
      BY <2>1, <3>2 DEF Keeps, Fields, Constraints
    <3>4. Queues(v', v, "noise")
      BY <3>2, <3>3 DEF Queues, Change, Keeps, Fields
    <3>5. Keeps(v', v, {"noise", "rev", "changes"})
      BY <2>1, <3>2 DEF Keeps
    <3> QED BY <2>1, <2>2, <2>3, <3>2, <3>4, <3>5 DEF Keeps, Fields
  <2>4. CASE ~v.mic
    <3>1. v' = w
      BY <2>1, <2>2, <2>4 DEF Changed, Keeps, Fields
    <3> QED BY <2>1, <2>2, <2>4, <3>1 DEF Keeps, Fields
  <2> QED BY <2>3, <2>4
<1> QED BY <1>1, <1>2

LEMMA ReloadSettingsDoes ==
  ASSUME Shape, ReloadSettings
  PROVE  /\ Keeps(v', v, {"echo", "noise", "muted", "audio", "applied", "changes"})
         /\ v'.echo \in BOOLEAN /\ v'.noise \in BOOLEAN /\ v'.muted \in BOOLEAN
         /\ v'.audio = IF v.audio = "none" THEN "none"
                       ELSE IF v.speaker /\ ~v'.muted THEN "playing" ELSE "muted"
         /\ v'.applied = Answered(v, Constraints(v'))
         /\ IF v'.noise # v.noise /\ v.published.track # 0
            THEN Queues(v', v, "reload") ELSE v'.changes = v.changes
         /\ MayChange /\ MicStays /\ Steady /\ ~TurnOfChange
         /\ UNCHANGED <<starting, refuses>>
<1>1. PICK e \in BOOLEAN, n \in BOOLEAN, m \in BOOLEAN :
        LET w == [v EXCEPT !.echo = e, !.noise = n, !.muted = m]
            c == Constrain(ApplyOutput(w), Constraints(w))
        IN  v' = IF n # v.noise /\ v.published.track # 0
                 THEN [c EXCEPT !.changes = Append(@, Change(c, "reload"))] ELSE c
  BY DEF ReloadSettings
<1> DEFINE w == [v EXCEPT !.echo = e, !.noise = n, !.muted = m]
           a == ApplyOutput(w)
           k == Constraints(w)
           c == Constrain(a, k)
<1>2. Keeps(w, v, {"echo", "noise", "muted"}) /\ w.echo = e /\ w.noise = n /\ w.muted = m
  BY DEF Shape, Keeps, Fields
<1>3. v' = IF n # v.noise /\ v.published.track # 0
           THEN [c EXCEPT !.changes = Append(@, Change(c, "reload"))] ELSE c
  BY <1>1, Zenon
<1>4. /\ MayChange /\ MicStays /\ Steady /\ ~TurnOfChange
      /\ UNCHANGED <<starting, refuses>>
  BY DEF ReloadSettings, Click
<1> HIDE DEF w
<1>5. /\ Keeps(a, w, {"audio"})
      /\ a.audio = IF w.audio = "none" THEN "none"
                   ELSE IF w.speaker /\ ~w.muted THEN "playing" ELSE "muted"
  <2>1. DOMAIN w = Fields
    BY <1>2 DEF Keeps
  <2> QED BY <2>1, ApplyOutputKeeps
<1>6. k = [echo |-> e, suppress |-> ~n]
  BY <1>2 DEF Constraints
<1> HIDE DEF a, k
<1>7. Keeps(c, a, {"applied"}) /\ c.applied = Answered(a, k)
  <2>1. DOMAIN a = Fields
    BY <1>5 DEF Keeps
  <2> QED BY <2>1, ConstrainKeeps, Zenon DEF Answered
<1> HIDE DEF c
<1>8. /\ Keeps(v', c, {"changes"})
      /\ IF n # v.noise /\ v.published.track # 0
         THEN v'.changes = Append(c.changes, Change(c, "reload")) ELSE v'.changes = c.changes
  BY <1>3, <1>7 DEF Keeps, Fields
<1>9. Keeps(v', v, {"echo", "noise", "muted", "audio", "applied", "changes"})
  BY <1>2, <1>5, <1>7, <1>8 DEF Keeps
<1>10. /\ v'.echo = e /\ v'.noise = n /\ v'.muted = m /\ v'.audio = a.audio
       /\ v'.applied = c.applied /\ c.changes = v.changes
       /\ c.rev = v.rev /\ v'.rev = v.rev /\ c.ask = v.ask
       /\ c.echo = e /\ c.noise = n /\ w.speaker = v.speaker /\ w.audio = v.audio
       /\ a.raw = v.raw /\ a.applied = v.applied
  BY <1>2, <1>5, <1>7, <1>8 DEF Keeps, Fields
<1>11. Constraints(v') = k /\ Constraints(c) = k
  BY <1>6, <1>10 DEF Constraints
<1>12. v'.applied = Answered(v, Constraints(v'))
  BY <1>7, <1>10, <1>11 DEF Answered
<1>13. IF v'.noise # v.noise /\ v.published.track # 0
       THEN Queues(v', v, "reload") ELSE v'.changes = v.changes
  BY <1>8, <1>10, <1>11 DEF Queues, Change
<1>14. v'.audio = IF v.audio = "none" THEN "none"
                  ELSE IF v.speaker /\ ~v'.muted THEN "playing" ELSE "muted"
  BY <1>5, <1>10, <1>2
<1> QED BY <1>4, <1>9, <1>10, <1>12, <1>13, <1>14

---------------------------------------------------------------------------------
(* The turn of a change, its answer, a filter that starts, a publication.  *)

\* The first change is taken further.
HeadAt(x, w, stage) ==
  x.changes = [w.changes EXCEPT ![1] = [@ EXCEPT !.at = stage, !.to = Constraints(w)]]

LEMMA DoneKeeps ==
  ASSUME NEW w, DOMAIN w = Fields, NEW x, x = Done(w)
  PROVE  Keeps(x, w, {"changes"}) /\ x.changes = Tail(w.changes)
BY DEF Done, Keeps, Fields

LEMMA AtKeeps ==
  ASSUME NEW w, DOMAIN w = Fields, NEW stage, NEW x, x = At(w, stage)
  PROVE  Keeps(x, w, {"changes"}) /\ HeadAt(x, w, stage)
BY DEF At, Keeps, Fields, HeadAt

LEMMA ApplyKeeps ==
  ASSUME NEW w, DOMAIN w = Fields, NEW x, x = Apply(w)
  PROVE  /\ Keeps(x, w, {"applied", "changes"})
         /\ x.applied = Answered(w, Constraints(w)) /\ HeadAt(x, w, "apply")
<1> DEFINE k == Constraints(w)
           c == Constrain(w, k)
<1>1. Keeps(c, w, {"applied"}) /\ c.applied = Answered(w, k)
  BY ConstrainKeeps, Zenon DEF Answered
<1>2. x = At(c, "apply")
  BY DEF Apply
<1> HIDE DEF c
<1>3. Keeps(x, c, {"changes"}) /\ HeadAt(x, c, "apply")
  BY <1>1, <1>2, AtKeeps DEF Keeps
<1>4. Constraints(c) = Constraints(w) /\ c.changes = w.changes
  BY <1>1 DEF Keeps, Fields, Constraints
<1>5. HeadAt(x, w, "apply")
  BY <1>3, <1>4 DEF HeadAt
<1> QED BY <1>1, <1>3, <1>5 DEF Keeps, Fields

\* x is w with its first change done, or under way at the browser.
Proceeds(x, w) ==
  \/ Overtaken(w, Head(w.changes)) /\ Keeps(x, w, {"changes"}) /\ x.changes = Tail(w.changes)
  \/ /\ ~Overtaken(w, Head(w.changes)) /\ Keeps(x, w, {"applied", "changes"})
     /\ x.applied = Answered(w, Constraints(w)) /\ HeadAt(x, w, "apply")

LEMMA ToApplyProceeds ==
  ASSUME NEW w, DOMAIN w = Fields, NEW x, x = ToApply(w)
  PROVE  Proceeds(x, w) /\ Keeps(x, w, {"applied", "changes"})
<1>1. CASE Overtaken(w, Head(w.changes))
  <2>1. x = Done(w)
    BY <1>1 DEF ToApply
  <2> QED BY <1>1, <2>1, DoneKeeps DEF Proceeds, Keeps
<1>2. CASE ~Overtaken(w, Head(w.changes))
  <2>1. x = Apply(w)
    BY <1>2 DEF ToApply
  <2> QED BY <1>2, <2>1, ApplyKeeps DEF Proceeds, Keeps
<1> QED BY <1>1, <1>2

LEMMA ChangeRunsDoes ==
  ASSUME Shape, ChangeRuns
  PROVE  /\ Keeps(v', v, {"changes", "applied", "published", "sent", "going", "filtering"})
         /\ TurnOfChange /\ UNCHANGED <<starting, refuses>>
         /\ \/ Head(v.changes).at = "publish" /\ Proceeds(v', v)
            \/ /\ Head(v.changes).at = "wait"
               /\ \/ Overtaken(v, Head(v.changes))
                  \/ Head(v.changes).kind = "reload" /\ v.published.track = 0
               /\ Keeps(v', v, {"changes"}) /\ v'.changes = Tail(v.changes)
            \/ /\ Head(v.changes).at = "wait" /\ ~Overtaken(v, Head(v.changes))
               /\ Head(v.changes).kind = "echo" \/ v.published.track = 0
               /\ Keeps(v', v, {"applied", "changes"})
               /\ v'.applied = Answered(v, Constraints(v)) /\ HeadAt(v', v, "apply")
            \/ /\ Head(v.changes).at = "wait" /\ ~Overtaken(v, Head(v.changes))
               /\ Head(v.changes).kind # "echo" /\ v.published.track # 0
               /\ \E u, p : /\ u = UnpublishMic(v) /\ p = PublishMic(u)
                           /\ Keeps(v', p, {"changes"}) /\ HeadAt(v', p, "publish")
<1> DEFINE c == Head(v.changes)
<1>1. TurnOfChange /\ UNCHANGED <<starting, refuses>>
  BY DEF ChangeRuns
<1>2. DOMAIN v = Fields /\ c.at \in {"wait", "publish"}
  BY <1>1 DEF Shape, TurnOfChange
<1>3. CASE c.at = "publish"
  <2>1. v' = ToApply(v)
    BY <1>3 DEF ChangeRuns
  <2>2. Proceeds(v', v) /\ Keeps(v', v, {"applied", "changes"})
    BY <1>2, <2>1, ToApplyProceeds
  <2> QED BY <1>1, <1>3, <2>2 DEF Keeps
<1>4. CASE /\ c.at = "wait"
           /\ \/ Overtaken(v, c)
              \/ ~Overtaken(v, c) /\ c.kind = "reload" /\ v.published.track = 0
  <2>1. v' = Done(v)
    BY <1>4 DEF ChangeRuns
  <2>2. Keeps(v', v, {"changes"}) /\ v'.changes = Tail(v.changes)
    BY <1>2, <2>1, DoneKeeps
  <2> QED BY <1>1, <1>4, <2>2 DEF Keeps
<1>5. CASE /\ c.at = "wait" /\ ~Overtaken(v, c)
           /\ c.kind = "echo" \/ (v.published.track = 0 /\ c.kind # "reload")
  <2>1. v' = Apply(v)
    BY <1>5 DEF ChangeRuns
  <2>2. /\ Keeps(v', v, {"applied", "changes"})
        /\ v'.applied = Answered(v, Constraints(v)) /\ HeadAt(v', v, "apply")
    BY <1>2, <2>1, ApplyKeeps
  <2> QED BY <1>1, <1>5, <2>2 DEF Keeps
<1>6. CASE c.at = "wait" /\ ~Overtaken(v, c) /\ c.kind # "echo" /\ v.published.track # 0
  <2> DEFINE u == UnpublishMic(v)
             p == PublishMic(u)
  <2>1. v' = At(p, "publish")
    BY <1>6 DEF ChangeRuns, Republished
  <2>2. Keeps(u, v, {"published", "sent", "going"})
    BY <1>2, UnpublishMicKeeps
  <2>3. u = UnpublishMic(v) /\ p = PublishMic(u)
    OBVIOUS
  <2> HIDE DEF u
  <2>4. Keeps(p, u, {"applied", "published", "sent", "going", "filtering"})
    <3>1. DOMAIN u = Fields
      BY <2>2 DEF Keeps
    <3> QED BY <3>1, PublishMicKeeps, Zenon
  <2> HIDE DEF p
  <2>5. Keeps(v', p, {"changes"}) /\ HeadAt(v', p, "publish")
    BY <2>1, <2>4, AtKeeps DEF Keeps
  <2>6. Keeps(v', v, {"changes", "applied", "published", "sent", "going", "filtering"})
    BY <2>2, <2>4, <2>5 DEF Keeps
  <2> QED BY <1>1, <1>6, <2>3, <2>5, <2>6
<1> QED BY <1>2, <1>3, <1>4, <1>5, <1>6

LEMMA ChangeAppliedDoes ==
  ASSUME Shape, ChangeApplied
  PROVE  /\ Keeps(v', v, {"changes", "micEcho", "echo"})
         /\ v.changes # <<>> /\ Head(v.changes).at = "apply"
         /\ v'.changes = Tail(v.changes)
         /\ \/ v'.echo = v.echo
            \/ /\ refuses /\ Head(v.changes).to.echo /\ Head(v.changes).kind = "echo"
               /\ v'.echo = v.micEcho
         /\ v'.micEcho \in {v.micEcho, Head(v.changes).to.echo}
         /\ UNCHANGED <<starting, refuses>>
<1> DEFINE w == Done(v)
           c == Head(v.changes)
<1>1. /\ c.at = "apply" /\ v.changes # <<>> /\ UNCHANGED <<starting, refuses>>
      /\ \/ v' = w
         \/ v' = [w EXCEPT !.micEcho = c.to.echo]
         \/ refuses /\ c.to.echo /\ c.kind = "echo" /\ v' = [w EXCEPT !.echo = v.micEcho]
  BY DEF ChangeApplied, Quiet
<1>2. Keeps(w, v, {"changes"}) /\ w.changes = Tail(v.changes)
  BY DoneKeeps DEF Shape
<1> HIDE DEF w, c
<1> QED BY <1>1, <1>2 DEF Keeps, Fields, c

LEMMA FilterStartsDoes ==
  ASSUME Shape, NEW x \in v.filtering, NEW ok \in BOOLEAN, FilterStarts(x, ok)
  PROVE  /\ Keeps(v', v, {"filtering", "noise", "published", "applied", "sent", "going"})
         /\ UNCHANGED <<starting, refuses>>
         /\ \E w, p :
              /\ Keeps(w, v, {"filtering", "noise"})
              /\ w.filtering = v.filtering \ {x} /\ w.noise = (v.noise /\ ok)
              /\ p = Publish(w, x.track, ok)
              /\ IF x.gone THEN Keeps(v', p, {"sent"}) ELSE v' = p
<1> DEFINE w == [v EXCEPT !.filtering = @ \ {x}, !.noise = @ /\ ok]
           p == Publish(w, x.track, ok)
<1>1. /\ v' = IF x.gone THEN [p EXCEPT !.sent = v.sent] ELSE p
      /\ UNCHANGED <<starting, refuses>>
  BY Zenon DEF FilterStarts, Quiet, Fault
<1>2. /\ Keeps(w, v, {"filtering", "noise"})
      /\ w.filtering = v.filtering \ {x} /\ w.noise = (v.noise /\ ok)
  BY DEF Shape, Keeps, Fields
<1> HIDE DEF w
<1>3. Keeps(p, w, {"applied", "published", "sent", "going"})
  <2>1. DOMAIN w = Fields
    BY <1>2 DEF Keeps
  <2> QED BY <2>1, PublishKeeps, Zenon
<1>4. p = Publish(w, x.track, ok)
  OBVIOUS
<1> HIDE DEF p
<1>5. IF x.gone THEN Keeps(v', p, {"sent"}) ELSE v' = p
  BY <1>1, <1>3 DEF Keeps, Fields
<1>6. Keeps(v', v, {"filtering", "noise", "published", "applied", "sent", "going"})
  BY <1>2, <1>3, <1>5 DEF Keeps
<1> QED BY <1>1, <1>2, <1>4, <1>5, <1>6

LEMMA PublishEndsDoes ==
  ASSUME Shape, NEW x \in v.going, NEW ok \in BOOLEAN, PublishEnds(x, ok)
  PROVE  /\ Keeps(v', v, {"going", "sent", "published"}) /\ UNCHANGED <<starting, refuses>>
         /\ \/ v'.sent = v.sent /\ v'.published = v.published
            \/ /\ x \in v.sent => "publish fails" \in Awkward
               /\ v'.sent = v.sent \ {x}
               /\ v'.published = IF v.published = x THEN NoTrack ELSE v.published
<1>1. UNCHANGED <<starting, refuses>> /\ (~ok /\ x \in v.sent => "publish fails" \in Awkward)
  BY DEF PublishEnds, Quiet, Fault
<1>2. CASE ok
  <2>1. v' = [v EXCEPT !.going = @ \ {x}]
    BY <1>2 DEF PublishEnds
  <2> QED BY <1>1, <2>1 DEF Shape, Keeps, Fields
<1>3. CASE ~ok
  <2>1. v' = [v EXCEPT !.going = @ \ {x}, !.sent = @ \ {x},
                       !.published = IF @ = x THEN NoTrack ELSE @]
    BY <1>3 DEF PublishEnds
  <2> QED BY <1>1, <1>3, <2>1 DEF Shape, Keeps, Fields
<1> QED BY <1>2, <1>3

LEMMA SetSpeakerDoes ==
  ASSUME Shape, SetSpeaker
  PROVE  /\ Keeps(v', v, {"speaker", "asking", "spaced", "lk", "lkRoom", "audio"})
         /\ v'.speaker = ~v.speaker /\ MayAsk(v', v) /\ MayConnect(v', v)
         /\ v'.audio = IF v.audio = "none" THEN "none"
                       ELSE IF v'.speaker /\ ~v.muted THEN "playing" ELSE "muted"
         /\ UNCHANGED <<starting, refuses>>
<1> DEFINE w == [v EXCEPT !.speaker = ~@]
           e == IF w.speaker /\ ~Active(v) THEN EnsureConnected(w) ELSE w
<1>1. Keeps(w, v, {"speaker"}) /\ w.speaker = ~v.speaker
  BY DEF Shape, Keeps, Fields
<1>2. v' = ApplyOutput(e) /\ UNCHANGED <<starting, refuses>>
  BY DEF SetSpeaker, Click
<1>3. e = w \/ e = EnsureConnected(w)
  OBVIOUS
<1> HIDE DEF e, w
<1>4. /\ Keeps(e, w, {"asking", "spaced", "lk", "lkRoom"})
      /\ MayAsk(e, w) /\ MayConnect(e, w)
  <2>1. CASE e = w
    BY <1>1, <2>1 DEF Keeps, MayAsk, MayConnect
  <2>2. CASE e = EnsureConnected(w)
    BY <1>1, <2>2, EnsureConnectedKeeps DEF Keeps
  <2> QED BY <1>3, <2>1, <2>2
<1>5. /\ Keeps(v', e, {"audio"})
      /\ v'.audio = IF e.audio = "none" THEN "none"
                    ELSE IF e.speaker /\ ~e.muted THEN "playing" ELSE "muted"
  BY <1>2, <1>4, ApplyOutputKeeps DEF Keeps
<1>6. Keeps(v', v, {"speaker", "asking", "spaced", "lk", "lkRoom", "audio"})
  BY <1>1, <1>4, <1>5 DEF Keeps
<1>7. v'.speaker = ~v.speaker /\ MayAsk(v', v) /\ MayConnect(v', v)
  BY <1>1, <1>4, <1>5 DEF Keeps, Fields, MayAsk, MayConnect
<1>8. e.audio = v.audio /\ e.speaker = v'.speaker /\ e.muted = v.muted
  BY <1>1, <1>4, <1>5 DEF Keeps, Fields
<1> QED BY <1>2, <1>5, <1>6, <1>7, <1>8

LEMMA ToggleMutePeerDoes ==
  ASSUME Shape, ToggleMutePeer
  PROVE  /\ Keeps(v', v, {"muted", "audio"})
         /\ v'.audio = IF v.audio = "none" THEN "none"
                       ELSE IF v.speaker /\ ~v'.muted THEN "playing" ELSE "muted"
         /\ UNCHANGED <<starting, refuses>>
<1> DEFINE w == [v EXCEPT !.muted = ~@]
<1>1. Keeps(w, v, {"muted"}) /\ w.muted = ~v.muted
  BY DEF Shape, Keeps, Fields
<1>2. v' = ApplyOutput(w) /\ UNCHANGED <<starting, refuses>>
  BY DEF ToggleMutePeer, Click
<1> HIDE DEF w
<1>3. /\ Keeps(v', w, {"audio"})
      /\ v'.audio = IF w.audio = "none" THEN "none"
                    ELSE IF w.speaker /\ ~w.muted THEN "playing" ELSE "muted"
  BY <1>1, <1>2, ApplyOutputKeeps DEF Keeps
<1>4. w.audio = v.audio /\ w.speaker = v.speaker /\ w.muted = v'.muted
  BY <1>1, <1>3 DEF Keeps, Fields
<1> QED BY <1>1, <1>2, <1>3, <1>4 DEF Keeps, Fields

(***************************************************************************)
(* PART 2.  The invariants.                                                *)
(***************************************************************************)
Stages == {"idle", "permission", "resume", "apply"}
Wanted == [echo : BOOLEAN, suppress : BOOLEAN]
ChangeRecord ==
  [kind : {"echo", "noise", "reload"}, rev : Nat, ask : Nat,
   at : {"wait", "apply", "publish"}, to : Wanted]

TypeInv ==
  /\ Shape
  /\ v.token \in [room : Rooms \union {None}, age : {"none", "fresh", "old", "spent"}]
  /\ v.asking \in Seq(Rooms) /\ v.room \in Rooms \union {None}
  /\ v.ask \in Nat /\ v.rev \in Nat /\ v.raw \in Nat /\ v.track \in Nat
  /\ v.mic \in BOOLEAN /\ v.asked \in BOOLEAN
  /\ v.echo \in BOOLEAN /\ v.noise \in BOOLEAN /\ v.micEcho \in BOOLEAN
  /\ v.published \in [track : Nat, filtered : BOOLEAN]
  /\ v.filtering \subseteq [track : Nat, gone : BOOLEAN]
  /\ v.applied \in Wanted
  /\ v.changes \in Seq(ChangeRecord)
  /\ starting \in [Asks -> [at : Stages, echo : BOOLEAN]]
  /\ refuses \in BOOLEAN

\* One capture at most is open: that of the request that counts.
CaptureInv ==
  /\ v.hw = IF v.raw = 0 THEN {} ELSE {v.raw}
  /\ v.raw # 0 => v.raw = v.ask /\ v.asked
  /\ v.asked => v.room # None
  /\ \A r \in Asks : starting[r].at # "idle" => r <= v.ask
  /\ \A r \in Asks :
       r = v.ask /\ starting[r].at # "idle" =>
         v.asked /\ (starting[r].at = "permission" <=> v.raw = 0)

\* Requests, token and connection are of the room the player is in.
RoomOf(x) == Seq({x.room} \ {None})
RoomInv ==
  /\ v.asking \in RoomOf(v)
  /\ v.token.age # "none" => v.token.room = v.room /\ v.room # None
  /\ v.lk \notin {"none", "idle"} => v.lkRoom = v.room

Linked == v.lk \in {"connected", "reconnecting"}

\* The microphone is on with a track, that goes out or is about to.
TrackInv ==
  /\ v.mic => v.asked /\ v.track # 0
  /\ v.track \in {0, v.raw}
  /\ \A r \in Asks :
       r = v.ask /\ starting[r].at # "idle" =>
         ~v.mic /\ (starting[r].at = "apply" <=> v.track # 0)
  /\ v.changes # <<>> => v.mic

\* What goes out is the microphone's track, or that is about to, filtered.
Outgoing ==
  /\ v.published.track # 0 => v.mic /\ v.published.track = v.track /\ Linked
  /\ v.published.track = 0 => v.published = NoTrack
  /\ v.sent = IF v.published.track = 0 THEN {} ELSE {v.published}
  /\ v.filtering \subseteq {[track |-> v.track, gone |-> FALSE]}
  /\ v.filtering # {} => v.mic /\ v.noise /\ v.published.track = 0 /\ Linked
  /\ "publish fails" \notin Awkward /\ v.mic /\ Linked =>
       v.published.track # 0 \/ v.filtering # {}

\* While LiveKit reconnects no microphone starts, and no track is built anew.
AllEcho(c) == \A i \in 1 .. Len(c) : c[i].kind = "echo"
Quieted == v.lk = "reconnecting" => v.asked = v.mic /\ AllEcho(v.changes)

HeardInv == TrackInv /\ Outgoing /\ Quieted

\* The queue of changes of w: one that is being taken through, and one that waits.
Pending(w) == w.changes # <<>> /\ w.changes[Len(w.changes)].at = "wait"
QueueOf(w) ==
  /\ Len(w.changes) <= 2
  /\ \A i \in 1 .. Len(w.changes) : w.changes[i].ask = w.ask
  /\ Len(w.changes) = 2 => w.changes[1].at # "wait" /\ w.changes[2].at = "wait"
  /\ Pending(w) => ~Overtaken(w, w.changes[Len(w.changes)])

\* What goes out is the last choice, or the change that makes it so waits its turn.
Settled(w) == w.applied = Constraints(w) /\ w.published.filtered = w.noise
Reaches(w) ==
  w.mic /\ w.published.track # 0 /\ ~refuses =>
    IF Pending(w)
    THEN w.published.filtered = w.noise \/ w.changes[Len(w.changes)].kind # "echo"
    ELSE Settled(w)

QueueInv == QueueOf(v) /\ Reaches(v)

(***************************************************************************)
(* PART 3.  Types.                                                         *)
(***************************************************************************)
\* What the type invariant says of x, a manager.
Manager(x) ==
  /\ DOMAIN x = Fields
  /\ x.token \in [room : Rooms \union {None}, age : {"none", "fresh", "old", "spent"}]
  /\ x.asking \in Seq(Rooms) /\ x.room \in Rooms \union {None}
  /\ x.ask \in Nat /\ x.rev \in Nat /\ x.raw \in Nat /\ x.track \in Nat
  /\ x.mic \in BOOLEAN /\ x.asked \in BOOLEAN
  /\ x.echo \in BOOLEAN /\ x.noise \in BOOLEAN /\ x.micEcho \in BOOLEAN
  /\ x.published \in [track : Nat, filtered : BOOLEAN]
  /\ x.filtering \subseteq [track : Nat, gone : BOOLEAN]
  /\ x.applied \in Wanted
  /\ x.changes \in Seq(ChangeRecord)

LEMMA ManagerTyped ==
  TypeInv <=> /\ Manager(v) /\ refuses \in BOOLEAN
              /\ starting \in [Asks -> [at : Stages, echo : BOOLEAN]]
BY DEF TypeInv, Manager, Shape

LEMMA ConstraintsTyped ==
  ASSUME NEW x, Manager(x)
  PROVE  Constraints(x) \in Wanted
BY DEF Manager, Constraints, Wanted

LEMMA AnsweredTyped ==
  ASSUME NEW x, Manager(x), refuses \in BOOLEAN, NEW c \in Wanted
  PROVE  Answered(x, c) \in Wanted
BY DEF Manager, Answered, Wanted

LEMMA LeftTyped ==
  ASSUME NEW f, f \subseteq [track : Nat, gone : BOOLEAN]
  PROVE  Left(f) \subseteq [track : Nat, gone : BOOLEAN]
BY DEF Left

LEMMA PublishTyped ==
  ASSUME NEW w, Manager(w), refuses \in BOOLEAN, NEW t \in Nat, NEW f \in BOOLEAN,
         NEW x, x = Publish(w, t, f)
  PROVE  Manager(x)
<1>1. DOMAIN w = Fields
  BY DEF Manager
<1>2. /\ Keeps(x, w, {"applied", "published", "sent", "going"})
      /\ x.applied = Constrain(w, Constraints(w)).applied
      /\ x.published = [track |-> t, filtered |-> f]
  BY <1>1, PublishKeeps
<1>3. x.applied = Answered(w, Constraints(w))
  BY <1>1, <1>2, ConstrainKeeps DEF Answered
<1>4. x.applied \in Wanted
  BY <1>3, ConstraintsTyped, AnsweredTyped
<1>5. x.published \in [track : Nat, filtered : BOOLEAN]
  BY <1>2
<1> QED BY <1>2, <1>4, <1>5 DEF Keeps, Fields, Manager

LEMMA PublishMicTyped ==
  ASSUME NEW w, Manager(w), refuses \in BOOLEAN, NEW x, x = PublishMic(w)
  PROVE  Manager(x)
<1>1. DOMAIN w = Fields
  BY DEF Manager
<1>2. /\ Keeps(x, w, {"applied", "published", "sent", "going", "filtering"})
      /\ \/ x = w
         \/ /\ Keeps(x, w, {"filtering"})
            /\ x.filtering = w.filtering \union {[track |-> w.track, gone |-> FALSE]}
         \/ x = Publish(w, w.track, FALSE)
  BY <1>1, PublishMicKeeps
<1>3. CASE Keeps(x, w, {"filtering"})
           /\ x.filtering = w.filtering \union {[track |-> w.track, gone |-> FALSE]}
  <2>1. w.filtering \subseteq [track : Nat, gone : BOOLEAN] /\ w.track \in Nat
    BY DEF Manager
  <2>2. x.filtering \subseteq [track : Nat, gone : BOOLEAN]
    <3> DEFINE t == [track |-> w.track, gone |-> FALSE]
    <3>1. t \in [track : Nat, gone : BOOLEAN]
      BY <2>1
    <3>2. x.filtering = w.filtering \union {t}
      BY <1>3
    <3> HIDE DEF t
    <3> QED BY <2>1, <3>1, <3>2
  <2> QED BY <1>3, <2>2 DEF Keeps, Fields, Manager
<1>4. CASE x = Publish(w, w.track, FALSE)
  <2>1. PICK t, f : t = w.track /\ f = FALSE /\ x = Publish(w, t, f)
    BY <1>4
  <2>2. t \in Nat /\ f \in BOOLEAN
    BY <2>1 DEF Manager
  <2> QED BY <2>1, <2>2, PublishTyped
<1> QED BY <1>2, <1>3, <1>4

LEMMA UnpublishMicTyped ==
  ASSUME NEW w, Manager(w), NEW x, x = UnpublishMic(w)
  PROVE  Manager(x)
<1>1. Keeps(x, w, {"published", "sent", "going"}) /\ x.published = NoTrack
  BY UnpublishMicKeeps DEF Manager
<1>2. x.published \in [track : Nat, filtered : BOOLEAN]
  BY <1>1 DEF NoTrack
<1> QED BY <1>1, <1>2 DEF Keeps, Fields, Manager

LEMMA HeadAtTyped ==
  ASSUME NEW w, Manager(w), w.changes # <<>>, NEW stage \in {"apply", "publish"},
         NEW x, HeadAt(x, w, stage)
  PROVE  x.changes \in Seq(ChangeRecord)
<1> DEFINE c == w.changes
           k == Constraints(w)
<1>1. c \in Seq(ChangeRecord) /\ c # <<>> /\ k \in Wanted
  BY ConstraintsTyped DEF Manager
<1>2. Len(c) \in Nat /\ Len(c) > 0 /\ c[1] \in ChangeRecord
  BY <1>1
<1>3. x.changes = [c EXCEPT ![1] = [@ EXCEPT !.at = stage, !.to = k]]
  BY DEF HeadAt
<1> HIDE DEF c, k
<1>4. [c[1] EXCEPT !.at = stage, !.to = k] \in ChangeRecord
  BY <1>1, <1>2 DEF ChangeRecord
<1> QED BY <1>1, <1>2, <1>3, <1>4

LEMMA ProceedsTyped ==
  ASSUME NEW w, Manager(w), w.changes # <<>>, refuses \in BOOLEAN, NEW x, Proceeds(x, w)
  PROVE  Manager(x)
<1>1. CASE Keeps(x, w, {"changes"}) /\ x.changes = Tail(w.changes)
  <2>1. x.changes \in Seq(ChangeRecord)
    BY <1>1 DEF Manager
  <2> QED BY <1>1, <2>1 DEF Keeps, Fields, Manager
<1>2. CASE /\ Keeps(x, w, {"applied", "changes"})
           /\ x.applied = Answered(w, Constraints(w)) /\ HeadAt(x, w, "apply")
  <2>1. x.changes \in Seq(ChangeRecord) /\ x.applied \in Wanted
    BY <1>2, HeadAtTyped, ConstraintsTyped, AnsweredTyped
  <2> QED BY <1>2, <2>1 DEF Keeps, Fields, Manager
<1> QED BY <1>1, <1>2 DEF Proceeds

LEMMA AskTyped ==
  ASSUME NEW w, Manager(w), NEW x, MayAsk(x, w)
  PROVE  x.asking \in Seq(Rooms)
<1>1. w.asking \in Seq(Rooms) /\ w.room \in Rooms \union {None}
  BY DEF Manager
<1>2. CASE x.asking = w.asking
  BY <1>1, <1>2
<1>3. CASE w.room # None /\ x.asking = Append(w.asking, w.room)
  <2>1. w.room \in Rooms
    BY <1>1, <1>3
  <2> QED BY <1>1, <1>3, <2>1
<1> QED BY <1>2, <1>3 DEF MayAsk

LEMMA QueuesTyped ==
  ASSUME NEW w, Manager(w), NEW kind \in {"echo", "noise", "reload"}, NEW x,
         Queues(x, w, kind), x.rev \in Nat, Constraints(x) \in Wanted
  PROVE  x.changes \in Seq(ChangeRecord)
<1>1. [kind |-> kind, rev |-> x.rev, ask |-> w.ask, at |-> "wait", to |-> Constraints(x)]
        \in ChangeRecord
  BY DEF ChangeRecord, Manager
<1> QED BY <1>1 DEF Queues, Manager

LEMMA StartedTyped ==
  ASSUME TypeInv, NEW r \in Asks, NEW w, Manager(w), Started(w, r), UNCHANGED refuses
  PROVE  TypeInv'
<1>1. Shape /\ DOMAIN w = Fields /\ refuses \in BOOLEAN
      /\ starting \in [Asks -> [at : Stages, echo : BOOLEAN]]
  BY DEF TypeInv, Manager
<1>2. CASE /\ v' = Constrain(w, Constraints(w)) /\ Keeps(v', w, {"applied"})
           /\ starting' = [starting EXCEPT ![r] = [at |-> "apply", echo |-> w.echo]]
  <2>1. v'.applied = Answered(w, Constraints(w))
    BY <1>1, <1>2, ConstrainKeeps DEF Answered
  <2>2. v'.applied \in Wanted
    BY <1>1, <2>1, ConstraintsTyped, AnsweredTyped
  <2>3. Manager(v')
    BY <1>2, <2>2 DEF Keeps, Fields, Manager
  <2>4. starting' \in [Asks -> [at : Stages, echo : BOOLEAN]]
    BY <1>1, <1>2 DEF Manager, Stages
  <2> QED BY <1>1, <2>3, <2>4 DEF TypeInv, Manager, Shape
<1>3. ASSUME NEW u, NEW p, Keeps(u, w, {"micEcho"}), u.micEcho \in BOOLEAN, p = PublishMic(u),
             Keeps(v', p, {"mic", "asking", "spaced", "lk", "lkRoom"}), v'.mic = TRUE,
             MayAsk(v', p), Stop(r)
      PROVE  TypeInv'
  <2>1. Manager(u)
    BY <1>3 DEF Keeps, Fields, Manager
  <2>2. Manager(p)
    BY <1>1, <1>3, <2>1, PublishMicTyped
  <2>3. v'.asking \in Seq(Rooms)
    BY <1>3, <2>2, AskTyped
  <2>4. Manager(v')
    <3>1. v'.mic \in BOOLEAN
      BY <1>3
    <3>2. Keeps(v', p, {"mic", "asking", "spaced", "lk", "lkRoom"})
      BY <1>3
    <3> QED BY <2>2, <2>3, <3>1, <3>2 DEF Keeps, Fields, Manager
  <2>5. starting' \in [Asks -> [at : Stages, echo : BOOLEAN]]
    BY <1>1, <1>3 DEF Stop, Idle, Stages
  <2> QED BY <1>1, <2>4, <2>5 DEF TypeInv, Manager, Shape
<1>4. w.echo \in BOOLEAN
  BY DEF Manager
<1> QED BY <1>1, <1>2, <1>3, <1>4, StartedDoes
LEMMA TypeKept ==
  ASSUME TypeInv, Manager(v'), UNCHANGED <<starting, refuses>>
  PROVE  TypeInv'
<1>1. /\ starting' \in [Asks -> [at : Stages, echo : BOOLEAN]] /\ refuses' \in BOOLEAN
      /\ DOMAIN v' = Fields
  BY DEF TypeInv, Manager
<1> QED BY <1>1 DEF TypeInv, Manager, Shape

LEMMA TypeStopped ==
  ASSUME TypeInv, Manager(v'), UNCHANGED refuses, NEW r \in Asks, Stop(r)
  PROVE  TypeInv'
<1>1. /\ starting' \in [Asks -> [at : Stages, echo : BOOLEAN]] /\ refuses' \in BOOLEAN
      /\ DOMAIN v' = Fields
  BY DEF TypeInv, Manager, Stop, Idle, Stages
<1> QED BY <1>1 DEF TypeInv, Manager, Shape

LEMMA TypeStep ==
  ASSUME TypeInv, [Next]_vars
  PROVE  TypeInv'
<1>0. Shape /\ Manager(v) /\ refuses \in BOOLEAN
      /\ starting \in [Asks -> [at : Stages, echo : BOOLEAN]]
  BY ManagerTyped DEF Manager, Shape
<1>1. ASSUME NEW r \in Rooms, EnterRoom(r) PROVE TypeInv'
  <2>1. /\ Keeps(v', v, {"room", "spaced", "asking", "lk", "lkRoom", "published", "sent", "going",
                         "audio", "filtering"})
        /\ v'.room = r /\ v'.published = NoTrack /\ v'.filtering = Left(v.filtering)
        /\ UNCHANGED <<starting, refuses>>
        /\ \E a : a \in {v.asking, Append(v.asking, r)} /\ v'.asking \in {a, Append(a, r)}
    BY <1>0, <1>1, EnterRoomDoes
  <2>2. v'.filtering \subseteq [track : Nat, gone : BOOLEAN]
    <3>1. v.filtering \subseteq [track : Nat, gone : BOOLEAN]
      BY <1>0 DEF Manager
    <3> QED BY <2>1, <3>1, LeftTyped
  <2>3. v'.asking \in Seq(Rooms)
    <3>1. v.asking \in Seq(Rooms)
      BY <1>0 DEF Manager
    <3>2. PICK a : a \in {v.asking, Append(v.asking, r)} /\ v'.asking \in {a, Append(a, r)}
      BY <2>1
    <3>3. a \in Seq(Rooms)
      BY <3>1, <3>2, AppendProperties
    <3> QED BY <3>2, <3>3, AppendProperties
  <2>4. v'.published \in [track : Nat, filtered : BOOLEAN]
    BY <2>1 DEF NoTrack
  <2>5. Manager(v')
    BY <1>0, <2>1, <2>2, <2>3, <2>4 DEF Keeps, Fields, Manager
  <2> QED BY <2>1, <2>5, TypeKept
<1>2. CASE LeaveRoom
  <2>1. /\ Keeps(v', v, {"room", "token", "mic", "speaker", "asked", "ask", "lk", "lkRoom",
                         "published", "sent", "going", "audio", "filtering", "hw", "raw", "track",
                         "changes"})
        /\ v'.room = None /\ v'.token = NoToken /\ v'.mic = FALSE
        /\ v'.asked = FALSE /\ v'.ask = v.ask + 1
        /\ v'.published = NoTrack /\ v'.filtering = Left(v.filtering)
        /\ v'.raw = 0 /\ v'.track = 0 /\ v'.changes = <<>>
        /\ UNCHANGED <<starting, refuses>>
    BY <1>0, <1>2, LeaveRoomDoes
  <2>2. v'.filtering \subseteq [track : Nat, gone : BOOLEAN]
    <3>1. v.filtering \subseteq [track : Nat, gone : BOOLEAN]
      BY <1>0 DEF Manager
    <3> QED BY <2>1, <3>1, LeftTyped
  <2>3. /\ v'.published \in [track : Nat, filtered : BOOLEAN]
        /\ v'.token \in [room : Rooms \union {None}, age : {"none", "fresh", "old", "spent"}]
    BY <2>1 DEF NoTrack, NoToken
  <2>4. v'.ask \in Nat
    BY <1>0, <2>1 DEF Manager
  <2>5. v'.changes \in Seq(ChangeRecord)
    BY <2>1, EmptySeq
  <2>6. v'.mic \in BOOLEAN /\ v'.asked \in BOOLEAN
    BY <2>1, Zenon
  <2>7. v'.raw \in Nat /\ v'.track \in Nat /\ v'.room \in Rooms \union {None}
    BY <2>1
  <2>8. Keeps(v', v, {"room", "token", "mic", "speaker", "asked", "ask", "lk", "lkRoom",
                      "published", "sent", "going", "audio", "filtering", "hw", "raw", "track",
                      "changes"})
    BY <2>1
  <2>9. Manager(v')
    BY <1>0, <2>2, <2>3, <2>4, <2>5, <2>6, <2>7, <2>8 DEF Keeps, Fields, Manager
  <2> QED BY <2>1, <2>9, TypeKept
<1>3. CASE TokenArrives
  <2>1. /\ Keeps(v', v, {"asking", "token", "spaced", "lk", "lkRoom"})
        /\ v.asking # <<>>
        /\ \/ v'.asking = Tail(v.asking)
           \/ v.room # None /\ v'.asking = Append(Tail(v.asking), v.room)
        /\ v'.token = [room |-> Head(v.asking), age |-> "fresh"]
        /\ UNCHANGED <<starting, refuses>>
    BY <1>0, <1>3, TokenArrivesDoes
  <2>2. v.asking \in Seq(Rooms) /\ v.room \in Rooms \union {None}
    BY <1>0 DEF Manager
  <2>3. /\ v'.asking \in Seq(Rooms)
        /\ v'.token \in [room : Rooms \union {None}, age : {"none", "fresh", "old", "spent"}]
    <3>1. Tail(v.asking) \in Seq(Rooms) /\ Head(v.asking) \in Rooms
      BY <2>1, <2>2, HeadTailProperties
    <3>2. v'.asking \in Seq(Rooms)
      <4>1. v.room # None => v.room \in Rooms
        BY <2>2
      <4>2. v.room # None => Append(Tail(v.asking), v.room) \in Seq(Rooms)
        BY <3>1, <4>1, AppendProperties
      <4> QED BY <2>1, <3>1, <4>2
    <3>3. v'.token \in [room : Rooms \union {None}, age : {"none", "fresh", "old", "spent"}]
      BY <2>1, <3>1
    <3> QED BY <3>2, <3>3
  <2>4. Manager(v')
    BY <1>0, <2>1, <2>3 DEF Keeps, Fields, Manager
  <2> QED BY <2>1, <2>4, TypeKept
<1>4. CASE TokenRefused \/ SpacingEnds \/ TokenAges \/ SocketDrops
  <2>1. /\ Keeps(v', v, {"asking", "token", "spaced", "socket"})
        /\ \/ v'.asking = v.asking \/ v'.asking = <<>>
           \/ v.asking # <<>> /\ v'.asking = Tail(v.asking)
        /\ \/ v'.token = v.token
           \/ v.token.age # "none" /\ \E a \in {"old", "spent"} :
                v'.token = [v.token EXCEPT !.age = a]
        /\ UNCHANGED <<starting, refuses>>
    BY <1>0, <1>4, TokenWearsOut
  <2>2. /\ v.asking \in Seq(Rooms)
        /\ v.token \in [room : Rooms \union {None}, age : {"none", "fresh", "old", "spent"}]
    BY <1>0 DEF Manager
  <2>3. v'.asking \in Seq(Rooms)
    <3>1. <<>> \in Seq(Rooms) /\ (v.asking # <<>> => Tail(v.asking) \in Seq(Rooms))
      BY <2>2, EmptySeq, HeadTailProperties
    <3> QED BY <2>1, <2>2, <3>1
  <2>4. v'.token \in [room : Rooms \union {None}, age : {"none", "fresh", "old", "spent"}]
    BY <2>1, <2>2
  <2>5. Manager(v')
    BY <1>0, <2>1, <2>3, <2>4 DEF Keeps, Fields, Manager
  <2> QED BY <2>1, <2>5, TypeKept
<1>5. CASE SocketReturns
  <2>1. /\ Keeps(v', v, {"socket", "asking", "spaced", "lk", "lkRoom"})
        /\ v'.asking = <<>> /\ UNCHANGED <<starting, refuses>>
    BY <1>0, <1>5, SocketReturnsDoes
  <2>2. v'.asking \in Seq(Rooms)
    BY <2>1
  <2>3. Manager(v')
    BY <1>0, <2>1, <2>2 DEF Keeps, Fields, Manager
  <2> QED BY <2>1, <2>3, TypeKept
<1>6. CASE RetryFires
  <2>1. /\ Keeps(v', v, {"retry", "asking", "spaced", "lk", "lkRoom"})
        /\ MayAsk(v', v) /\ UNCHANGED <<starting, refuses>>
    BY <1>0, <1>6, RetryFiresDoes
  <2>2. v'.asking \in Seq(Rooms)
    BY <1>0, <2>1, AskTyped
  <2>3. Manager(v')
    BY <1>0, <2>1, <2>2 DEF Keeps, Fields, Manager
  <2> QED BY <2>1, <2>3, TypeKept
<1>7. CASE Connected
  <2>1. PICK w : w = [v EXCEPT !.lk = "connected"]
    OBVIOUS
  <2>2. /\ Keeps(w, v, {"lk"}) /\ v' = PublishMic(w) /\ UNCHANGED <<starting, refuses>>
    BY <1>0, <1>7, <2>1, ConnectedDoes
  <2>3. Manager(w)
    BY <1>0, <2>2 DEF Keeps, Fields, Manager
  <2>4. Manager(v')
    BY <1>0, <2>2, <2>3, PublishMicTyped
  <2> QED BY <2>2, <2>4, TypeKept
<1>8. CASE ConnectFails
  <2>1. /\ Keeps(v', v, {"lk", "lkRoom", "token"})
        /\ v'.token = NoToken /\ UNCHANGED <<starting, refuses>>
    BY <1>0, <1>8, ConnectFailsDoes
  <2>2. v'.token \in [room : Rooms \union {None}, age : {"none", "fresh", "old", "spent"}]
    BY <2>1 DEF NoToken
  <2>3. Manager(v')
    BY <1>0, <2>1, <2>2 DEF Keeps, Fields, Manager
  <2> QED BY <2>1, <2>3, TypeKept
<1>9. CASE Disconnected
  <2>1. /\ Keeps(v', v, {"lk", "lkRoom", "published", "sent", "going", "audio", "filtering",
                         "retry", "asking", "spaced"})
        /\ MayAsk(v', v) /\ v'.published = NoTrack /\ v'.filtering = Left(v.filtering)
        /\ UNCHANGED <<starting, refuses>>
    BY <1>0, <1>9, DisconnectedDoes
  <2>2. v'.asking \in Seq(Rooms)
    BY <1>0, <2>1, AskTyped
  <2>3. v'.filtering \subseteq [track : Nat, gone : BOOLEAN]
    <3>1. v.filtering \subseteq [track : Nat, gone : BOOLEAN]
      BY <1>0 DEF Manager
    <3> QED BY <2>1, <3>1, LeftTyped
  <2>4. v'.published \in [track : Nat, filtered : BOOLEAN]
    BY <2>1 DEF NoTrack
  <2>5. Manager(v')
    BY <1>0, <2>1, <2>2, <2>3, <2>4 DEF Keeps, Fields, Manager
  <2> QED BY <2>1, <2>5, TypeKept
<1>10. CASE Reconnecting \/ Reconnected \/ PeerSpeaks \/ PeerStops
  <2>1. Keeps(v', v, {"lk", "audio"}) /\ UNCHANGED <<starting, refuses>>
    BY <1>0, <1>10, LinkMends, PeerDoes DEF Keeps
  <2>2. Manager(v')
    BY <1>0, <2>1 DEF Keeps, Fields, Manager
  <2> QED BY <2>1, <2>2, TypeKept
<1>11. CASE SetMicOn
  <2>1. /\ Keeps(v', v, {"asked", "ask"}) /\ v'.asked = TRUE /\ v'.ask = v.ask + 1
        /\ v.ask < AskLimit
        /\ starting' = [starting EXCEPT ![v.ask + 1] = [at |-> "permission", echo |-> v.echo]]
        /\ UNCHANGED refuses
    BY <1>0, <1>11, SetMicOnDoes
  <2>2. v.ask \in Nat /\ v.echo \in BOOLEAN
    BY <1>0 DEF Manager
  <2>3. v'.asked \in BOOLEAN
    BY <2>1, Zenon
  <2>6. v'.ask \in Nat /\ Keeps(v', v, {"asked", "ask"})
    BY <2>1, <2>2
  <2>4. Manager(v')
    BY <1>0, <2>6, <2>3 DEF Keeps, Fields, Manager
  <2>5. starting' \in [Asks -> [at : Stages, echo : BOOLEAN]]
    BY <1>0, <2>1, <2>2 DEF Stages
  <2> QED BY <1>0, <2>1, <2>4, <2>5 DEF TypeInv, Manager, Shape
<1>12. CASE SetMicOff
  <2>1. /\ Keeps(v', v, {"asked", "ask", "mic", "published", "sent", "going", "hw", "raw", "track",
                         "changes"})
        /\ v'.asked = FALSE /\ v'.ask = v.ask + 1 /\ v'.mic = FALSE
        /\ v'.published = NoTrack /\ v'.raw = 0 /\ v'.track = 0 /\ v'.changes = <<>>
        /\ UNCHANGED <<starting, refuses>>
    BY <1>0, <1>12, SetMicOffDoes
  <2>2. v'.published \in [track : Nat, filtered : BOOLEAN]
    BY <2>1 DEF NoTrack
  <2>3. v'.mic \in BOOLEAN /\ v'.asked \in BOOLEAN
    BY <2>1, Zenon
  <2>4. v'.changes \in Seq(ChangeRecord)
    BY <2>1, EmptySeq
  <2>5. v'.ask \in Nat /\ v'.raw \in Nat /\ v'.track \in Nat
    BY <1>0, <2>1 DEF Manager
  <2>6. Keeps(v', v, {"asked", "ask", "mic", "published", "sent", "going", "hw", "raw", "track",
                      "changes"})
    BY <2>1
  <2>7. Manager(v')
    BY <1>0, <2>2, <2>3, <2>4, <2>5, <2>6 DEF Keeps, Fields, Manager
  <2> QED BY <2>1, <2>7, TypeKept
<1>13. ASSUME NEW r \in Asks, PermissionGranted(r) PROVE TypeInv'
  <2>1. UNCHANGED refuses
    BY <1>0, <1>13, PermissionGrantedDoes
  <2>2. CASE Stop(r) /\ v' = v
    BY <1>0, <2>1, <2>2, TypeStopped
  <2>3. CASE /\ starting' = [starting EXCEPT ![r].at = "resume"]
             /\ Keeps(v', v, {"raw", "applied", "hw"}) /\ v'.raw = r
             /\ v'.applied = Answered([v EXCEPT !.raw = r],
                                      [Constraints(v) EXCEPT !.echo = starting[r].echo])
    <3> DEFINE u == [v EXCEPT !.raw = r]
               c == [Constraints(v) EXCEPT !.echo = starting[r].echo]
    <3>1. c \in Wanted
      BY <1>0, ConstraintsTyped DEF Wanted
    <3>2. r \in Nat
      BY DEF Asks
    <3>3. u.raw = r /\ u.applied \in Wanted
      BY <1>0 DEF Manager, Fields
    <3>4. v'.applied = Answered(u, c)
      BY <2>3
    <3> HIDE DEF u, c
    <3>5. v'.applied \in Wanted
      BY <1>0, <3>1, <3>3, <3>4 DEF Answered, Wanted
    <3>6. Manager(v')
      BY <1>0, <2>3, <3>2, <3>5 DEF Keeps, Fields, Manager
    <3>7. starting' \in [Asks -> [at : Stages, echo : BOOLEAN]]
      BY <1>0, <2>3 DEF Stages
    <3> QED BY <1>0, <2>1, <3>6, <3>7 DEF TypeInv, Manager, Shape
  <2> QED BY <1>0, <1>13, <2>2, <2>3, PermissionGrantedDoes
<1>14. ASSUME NEW r \in Asks, PermissionDenied(r) PROVE TypeInv'
  <2>1. /\ Stop(r) /\ UNCHANGED refuses
        /\ \/ v' = v
           \/ Keeps(v', v, {"asked"}) /\ v'.asked = FALSE
    BY <1>0, <1>14, PermissionDeniedDoes
  <2>2. Manager(v')
    <3>1. CASE v' = v
      BY <1>0, <3>1
    <3>2. CASE Keeps(v', v, {"asked"}) /\ v'.asked = FALSE
      <4>1. v'.asked \in BOOLEAN
        BY <3>2, Zenon
      <4> QED BY <1>0, <3>2, <4>1 DEF Keeps, Fields, Manager
    <3> QED BY <2>1, <3>1, <3>2
  <2> QED BY <2>1, <2>2, TypeStopped
<1>15. ASSUME NEW r \in Asks, GraphResumed(r) PROVE TypeInv'
  <2>1. UNCHANGED refuses
    BY <1>0, <1>15, GraphResumedDoes
  <2>2. CASE Stop(r) /\ v' = v
    BY <1>0, <2>1, <2>2, TypeStopped
  <2>3. ASSUME NEW w, Keeps(w, v, {"track"}), w.track = r, Started(w, r)
        PROVE  TypeInv'
    <3>1. r \in Nat
      BY DEF Asks
    <3>2. Manager(w)
      BY <1>0, <2>3, <3>1 DEF Keeps, Fields, Manager
    <3> QED BY <2>1, <2>3, <3>2, StartedTyped
  <2> QED BY <1>0, <1>15, <2>2, <2>3, GraphResumedDoes
<1>16. ASSUME NEW r \in Asks, ChoiceApplied(r) PROVE TypeInv'
  <2>1. UNCHANGED refuses
    BY <1>0, <1>16, ChoiceAppliedDoes
  <2>2. CASE Stop(r) /\ v' = v
    BY <1>0, <2>1, <2>2, TypeStopped
  <2>3. CASE Started(v, r)
    BY <1>0, <2>1, <2>3, StartedTyped
  <2>4. CASE /\ Stop(r) /\ Keeps(v', v, {"hw", "raw", "track", "changes", "asked"})
             /\ v'.raw = 0 /\ v'.track = 0 /\ v'.changes = <<>> /\ v'.asked = FALSE
    <3>1. v'.changes \in Seq(ChangeRecord)
      BY <2>4, EmptySeq
    <3>3. v'.asked \in BOOLEAN
      BY <2>4, Zenon
    <3>4. /\ v'.raw \in Nat /\ v'.track \in Nat
          /\ Keeps(v', v, {"hw", "raw", "track", "changes", "asked"})
      BY <2>4
    <3>2. Manager(v')
      BY <1>0, <3>1, <3>3, <3>4 DEF Keeps, Fields, Manager
    <3> QED BY <2>1, <2>4, <3>2, TypeStopped
  <2> QED BY <1>0, <1>16, <2>2, <2>3, <2>4, ChoiceAppliedDoes
<1>17. CASE SetEchoCancellation \/ SetNoiseCancellation
  <2>1. PICK kind \in {"echo", "noise"} :
          /\ Keeps(v', v, {"echo", "noise", "rev", "changes"})
          /\ v.mic => Queues(v', v, kind)
          /\ ~v.mic => v'.changes = v.changes
          /\ v'.echo \in {v.echo, ~v.echo} /\ v'.noise \in {v.noise, ~v.noise}
          /\ v'.rev = v.rev + 1 /\ UNCHANGED <<starting, refuses>>
    BY <1>0, <1>17, SetChoiceDoes DEF Keeps
  <2>2. v.rev \in Nat /\ v.echo \in BOOLEAN /\ v.noise \in BOOLEAN
        /\ v.changes \in Seq(ChangeRecord)
    BY <1>0 DEF Manager
  <2>3. v'.rev \in Nat /\ v'.echo \in BOOLEAN /\ v'.noise \in BOOLEAN
    <3>1. v'.echo \in BOOLEAN /\ v'.noise \in BOOLEAN
      BY <2>1, <2>2, Zenon
    <3> QED BY <2>1, <2>2, <3>1
  <2>4. Constraints(v') \in Wanted
    BY <2>3 DEF Constraints, Wanted
  <2>5. v'.changes \in Seq(ChangeRecord)
    BY <1>0, <2>1, <2>2, <2>3, <2>4, QueuesTyped
  <2>6. Manager(v')
    BY <1>0, <2>1, <2>3, <2>5 DEF Keeps, Fields, Manager
  <2> QED BY <2>1, <2>6, TypeKept
<1>18. CASE ReloadSettings
  <2>1. /\ Keeps(v', v, {"echo", "noise", "muted", "audio", "applied", "changes"})
        /\ v'.echo \in BOOLEAN /\ v'.noise \in BOOLEAN
        /\ v'.applied = Answered(v, Constraints(v'))
        /\ Queues(v', v, "reload") \/ v'.changes = v.changes
        /\ UNCHANGED <<starting, refuses>>
    BY <1>0, <1>18, ReloadSettingsDoes
  <2>2. v.rev \in Nat /\ v'.rev = v.rev /\ v.changes \in Seq(ChangeRecord)
    BY <1>0, <2>1 DEF Manager, Keeps, Fields
  <2>3. Constraints(v') \in Wanted
    BY <2>1 DEF Constraints, Wanted
  <2>4. v'.applied \in Wanted
    BY <1>0, <2>1, <2>3, AnsweredTyped
  <2>5. v'.changes \in Seq(ChangeRecord)
    BY <1>0, <2>1, <2>2, <2>3, QueuesTyped
  <2>6. Manager(v')
    BY <1>0, <2>1, <2>4, <2>5 DEF Keeps, Fields, Manager
  <2> QED BY <2>1, <2>6, TypeKept
<1>19. CASE ChangeRuns
  <2>1. TurnOfChange /\ UNCHANGED <<starting, refuses>>
    BY <1>0, <1>19, ChangeRunsDoes
  <2>2. v.changes # <<>>
    BY <2>1 DEF TurnOfChange
  <2>6. CASE Proceeds(v', v)
    BY <1>0, <2>1, <2>2, <2>6, ProceedsTyped, TypeKept
  <2>3. CASE Keeps(v', v, {"changes"}) /\ v'.changes = Tail(v.changes)
    <3>1. v'.changes \in Seq(ChangeRecord)
      BY <1>0, <2>2, <2>3 DEF Manager
    <3>2. Manager(v')
      BY <1>0, <2>3, <3>1 DEF Keeps, Fields, Manager
    <3> QED BY <2>1, <3>2, TypeKept
  <2>4. CASE /\ Keeps(v', v, {"applied", "changes"})
             /\ v'.applied = Answered(v, Constraints(v)) /\ HeadAt(v', v, "apply")
    <3>1. v'.changes \in Seq(ChangeRecord) /\ v'.applied \in Wanted
      BY <1>0, <2>2, <2>4, HeadAtTyped, ConstraintsTyped, AnsweredTyped
    <3>2. Manager(v')
      BY <1>0, <2>4, <3>1 DEF Keeps, Fields, Manager
    <3> QED BY <2>1, <3>2, TypeKept
  <2>5. ASSUME NEW u, NEW p, u = UnpublishMic(v), p = PublishMic(u),
               Keeps(v', p, {"changes"}), HeadAt(v', p, "publish")
        PROVE  TypeInv'
    <3>1. DOMAIN v = Fields /\ Manager(u)
      BY <1>0, <2>5, UnpublishMicTyped DEF Manager
    <3>2. Keeps(u, v, {"published", "sent", "going"})
      BY <2>5, <3>1, UnpublishMicKeeps
    <3>3. DOMAIN u = Fields /\ Manager(p)
      BY <1>0, <2>5, <3>1, <3>2, PublishMicTyped DEF Keeps
    <3>4. Keeps(p, u, {"applied", "published", "sent", "going", "filtering"})
      BY <2>5, <3>3, PublishMicKeeps, Zenon
    <3>5. p.changes = v.changes
      BY <3>2, <3>4 DEF Keeps, Fields
    <3>6. v'.changes \in Seq(ChangeRecord)
      BY <2>2, <2>5, <3>3, <3>5, HeadAtTyped
    <3>7. Manager(v')
      BY <2>5, <3>3, <3>6 DEF Keeps, Fields, Manager
    <3> QED BY <2>1, <3>7, TypeKept
  <2> QED BY <1>0, <1>19, <2>3, <2>4, <2>5, <2>6, ChangeRunsDoes
<1>20. CASE ChangeApplied
  <2>1. /\ Keeps(v', v, {"changes", "micEcho", "echo"})
        /\ v.changes # <<>> /\ v'.changes = Tail(v.changes)
        /\ v'.echo \in {v.echo, v.micEcho}
        /\ v'.micEcho \in {v.micEcho, Head(v.changes).to.echo}
        /\ UNCHANGED <<starting, refuses>>
    BY <1>0, <1>20, ChangeAppliedDoes
  <2>2. v.changes \in Seq(ChangeRecord) /\ v.echo \in BOOLEAN /\ v.micEcho \in BOOLEAN
    BY <1>0 DEF Manager
  <2>3. Head(v.changes) \in ChangeRecord
    BY <2>1, <2>2
  <2>4. Head(v.changes).to.echo \in BOOLEAN
    BY <2>3 DEF ChangeRecord, Wanted
  <2>5. v'.changes \in Seq(ChangeRecord) /\ v'.echo \in BOOLEAN /\ v'.micEcho \in BOOLEAN
    BY <2>1, <2>2, <2>4
  <2>6. Manager(v')
    BY <1>0, <2>1, <2>5 DEF Keeps, Fields, Manager
  <2> QED BY <2>1, <2>6, TypeKept
<1>21. ASSUME NEW x \in v.filtering, NEW ok \in BOOLEAN, FilterStarts(x, ok) PROVE TypeInv'
  <2>1. PICK w, p :
          /\ Keeps(w, v, {"filtering", "noise"})
          /\ w.filtering = v.filtering \ {x} /\ w.noise = (v.noise /\ ok)
          /\ p = Publish(w, x.track, ok)
          /\ IF x.gone THEN Keeps(v', p, {"sent"}) ELSE v' = p
    BY <1>0, <1>21, FilterStartsDoes
  <2>2. UNCHANGED <<starting, refuses>>
    BY <1>0, <1>21, FilterStartsDoes
  <2>3. w.noise \in BOOLEAN /\ w.filtering \subseteq [track : Nat, gone : BOOLEAN]
    BY <1>0, <2>1 DEF Manager
  <2>4. Manager(w)
    BY <1>0, <2>1, <2>3 DEF Keeps, Fields, Manager
  <2>5. x.track \in Nat
    BY <1>0, <1>21 DEF Manager
  <2>6. Manager(p)
    BY <1>0, <2>1, <2>4, <2>5, PublishTyped
  <2>7. Manager(v')
    BY <2>1, <2>6 DEF Keeps, Fields, Manager
  <2> QED BY <2>2, <2>7, TypeKept
<1>22. CASE SetSpeaker
  <2>1. /\ Keeps(v', v, {"speaker", "asking", "spaced", "lk", "lkRoom", "audio"})
        /\ MayAsk(v', v) /\ UNCHANGED <<starting, refuses>>
    BY <1>0, <1>22, SetSpeakerDoes
  <2>2. v'.asking \in Seq(Rooms)
    BY <1>0, <2>1, AskTyped
  <2>3. Manager(v')
    BY <1>0, <2>1, <2>2 DEF Keeps, Fields, Manager
  <2> QED BY <2>1, <2>3, TypeKept
<1>23. CASE ToggleMutePeer
  <2>1. Keeps(v', v, {"muted", "audio"}) /\ UNCHANGED <<starting, refuses>>
    BY <1>0, <1>23, ToggleMutePeerDoes
  <2>2. Manager(v')
    BY <1>0, <2>1 DEF Keeps, Fields, Manager
  <2> QED BY <2>1, <2>2, TypeKept
<1>24. ASSUME NEW x \in v.going, NEW ok \in BOOLEAN, PublishEnds(x, ok) PROVE TypeInv'
  <2>1. /\ Keeps(v', v, {"going", "sent", "published"}) /\ UNCHANGED <<starting, refuses>>
        /\ v'.published \in {v.published, NoTrack}
    BY <1>0, <1>24, PublishEndsDoes
  <2>2. v.published \in [track : Nat, filtered : BOOLEAN]
    BY <1>0 DEF Manager
  <2>3. NoTrack \in [track : Nat, filtered : BOOLEAN]
    BY DEF NoTrack
  <2>4. v'.published \in [track : Nat, filtered : BOOLEAN]
    BY <2>1, <2>2, <2>3, Zenon
  <2>5. Manager(v')
    BY <1>0, <2>1, <2>4 DEF Keeps, Fields, Manager
  <2> QED BY <2>1, <2>5, TypeKept
<1>25. CASE UNCHANGED vars
  BY <1>0, <1>25, TypeKept DEF vars
<1> QED
  BY <1>1, <1>2, <1>3, <1>4, <1>5, <1>6, <1>7, <1>8, <1>9, <1>10, <1>11, <1>12, <1>13, <1>14,
     <1>15, <1>16, <1>17, <1>18, <1>19, <1>20, <1>21, <1>22, <1>23, <1>24,
     <1>25
  DEF Next, Page, Token, LiveKit, Mic, Settings

LEMMA TypeInit ==
  ASSUME Init
  PROVE  TypeInv
<1>1. /\ DOMAIN v = Fields
      /\ v.token = NoToken /\ v.asking = <<>> /\ v.room = None /\ v.ask = 0 /\ v.rev = 0
      /\ v.raw = 0 /\ v.track = 0 /\ v.published = NoTrack /\ v.filtering = {}
      /\ v.applied = [echo |-> FALSE, suppress |-> TRUE] /\ v.changes = <<>>
  BY DEF Init, Fields
<1>2. v.mic = FALSE /\ v.asked = FALSE /\ v.echo = FALSE /\ v.noise = FALSE /\ v.micEcho = FALSE
  BY DEF Init
<1>3. /\ v.mic \in BOOLEAN /\ v.asked \in BOOLEAN /\ v.echo \in BOOLEAN /\ v.noise \in BOOLEAN
      /\ v.micEcho \in BOOLEAN
  BY <1>2, Zenon
<1>4. /\ v.token \in [room : Rooms \union {None}, age : {"none", "fresh", "old", "spent"}]
      /\ v.published \in [track : Nat, filtered : BOOLEAN] /\ v.applied \in Wanted
  BY <1>1 DEF NoToken, NoTrack, Wanted
<1>5. v.asking \in Seq(Rooms) /\ v.changes \in Seq(ChangeRecord)
  BY <1>1, EmptySeq
<1>6. starting \in [Asks -> [at : Stages, echo : BOOLEAN]] /\ refuses \in BOOLEAN
  BY DEF Init, Idle, Stages
<1> QED BY <1>1, <1>3, <1>4, <1>5, <1>6 DEF TypeInv, Shape

\* The manager keeps the shape of VoiceManager (voice.ts:236), and startMic its stages.
THEOREM TypeCorrect == Spec => []TypeInv
<1>1. Init => TypeInv
  BY TypeInit
<1>2. TypeInv /\ [Next]_vars => TypeInv'
  BY TypeStep
<1> QED BY <1>1, <1>2, PTL DEF Spec

(***************************************************************************)
(* PART 4.  The microphone is open only while it is asked for.             *)
(***************************************************************************)
LEMMA CaptureKept ==
  ASSUME CaptureInv, UNCHANGED starting, v'.hw = v.hw, v'.raw = v.raw, v'.ask = v.ask,
         v'.asked = v.asked, v'.room = v.room
  PROVE  CaptureInv'
BY DEF CaptureInv

\* startMic goes on, or ends, with the capture it has.
LEMMA CaptureStarts ==
  ASSUME TypeInv, CaptureInv, NEW r \in Asks, r = v.ask, starting[r].at \in {"resume", "apply"},
         NEW w, Keeps(w, v, {"track"}), Started(w, r)
  PROVE  CaptureInv'
<1>1. /\ Shape /\ DOMAIN w = Fields
      /\ starting \in [Asks -> [at : Stages, echo : BOOLEAN]]
  BY DEF TypeInv, Keeps
<1>2. /\ \/ starting' = [starting EXCEPT ![r] = [at |-> "apply", echo |-> w.echo]]
         \/ starting' = [starting EXCEPT ![r] = Idle]
      /\ Keeps(v', w, {"micEcho", "applied", "published", "sent", "going", "filtering", "mic",
                       "asking", "spaced", "lk", "lkRoom"})
  <2>1. \/ /\ starting' = [starting EXCEPT ![r] = [at |-> "apply", echo |-> w.echo]]
           /\ Keeps(v', w, {"applied"})
        \/ /\ Stop(r)
           /\ Keeps(v', w, {"micEcho", "applied", "published", "sent", "going", "filtering", "mic",
                            "asking", "spaced", "lk", "lkRoom"})
    BY <1>1, StartedDoes
  <2> QED BY <2>1 DEF Stop, Keeps
<1>3. /\ v'.hw = v.hw /\ v'.raw = v.raw /\ v'.ask = v.ask /\ v'.asked = v.asked
      /\ v'.room = v.room
  BY <1>2 DEF Keeps, Fields
<1>4. v.asked /\ v.raw # 0
  BY DEF CaptureInv
<1>5. \A q \in Asks : starting'[q].at = starting[q].at \/ (q = r /\ starting'[q].at \in {"apply", "idle"})
  BY <1>1, <1>2 DEF Idle
<1> QED BY <1>3, <1>4, <1>5 DEF CaptureInv

LEMMA CaptureStops ==
  ASSUME TypeInv, CaptureInv, NEW r \in Asks, Stop(r), v' = v
  PROVE  CaptureInv'
<1>1. starting \in [Asks -> [at : Stages, echo : BOOLEAN]]
  BY DEF TypeInv
<1>2. \A q \in Asks : starting'[q].at \in {starting[q].at, "idle"}
  BY <1>1 DEF Stop, Idle
<1> QED BY <1>2 DEF CaptureInv

LEMMA CaptureStep ==
  ASSUME TypeInv, CaptureInv, [Next]_vars
  PROVE  CaptureInv'
<1>0. /\ Shape /\ v.ask \in Nat
      /\ starting \in [Asks -> [at : Stages, echo : BOOLEAN]]
  BY DEF TypeInv
<1>1. ASSUME NEW r \in Rooms, EnterRoom(r) PROVE CaptureInv'
  <2>1. /\ Keeps(v', v, {"room", "spaced", "asking", "lk", "lkRoom", "published", "sent", "going",
                         "audio", "filtering"})
        /\ v.room = None /\ UNCHANGED starting
    BY <1>0, <1>1, EnterRoomDoes
  <2>2. v'.hw = v.hw /\ v'.raw = v.raw /\ v'.ask = v.ask /\ v'.asked = v.asked
    BY <2>1 DEF Keeps, Fields
  <2> QED BY <2>1, <2>2 DEF CaptureInv
<1>2. CASE LeaveRoom
  <2>1. /\ v'.asked = FALSE /\ v'.ask = v.ask + 1 /\ v'.hw = v.hw \ {v.raw} /\ v'.raw = 0
        /\ UNCHANGED starting
    BY <1>0, <1>2, LeaveRoomDoes
  <2> QED BY <1>0, <2>1 DEF CaptureInv, Asks
<1>3. CASE \/ TokenArrives \/ TokenRefused \/ SpacingEnds \/ TokenAges \/ SocketDrops
           \/ SocketReturns \/ RetryFires \/ Connected \/ ConnectFails \/ Disconnected
           \/ Reconnecting \/ Reconnected \/ PeerSpeaks \/ PeerStops
  <2>1. UNCHANGED starting
    BY <1>3 DEF TokenArrives, TokenRefused, SpacingEnds, TokenAges, SocketDrops,
                SocketReturns, RetryFires, Connected, ConnectFails, Disconnected,
                Reconnecting, Reconnected, PeerSpeaks, PeerStops
  <2>2. Keeps(v', v, {"asking", "token", "spaced", "socket", "retry", "lk", "lkRoom", "applied",
                      "published", "sent", "going", "audio", "filtering"})
    <3>1. PICK w : w = [v EXCEPT !.lk = "connected"]
      OBVIOUS
    <3>2. CASE \/ TokenArrives \/ TokenRefused \/ SpacingEnds \/ TokenAges \/ SocketDrops
               \/ SocketReturns
      BY <1>0, <3>2, TokenArrivesDoes, TokenWearsOut, SocketReturnsDoes DEF Keeps
    <3>3. CASE RetryFires \/ Connected
      BY <1>0, <3>1, <3>3, RetryFiresDoes, ConnectedDoes DEF Keeps
    <3>4. CASE ConnectFails \/ Disconnected
      BY <1>0, <3>4, ConnectFailsDoes, DisconnectedDoes DEF Keeps
    <3>5. CASE Reconnecting \/ Reconnected \/ PeerSpeaks \/ PeerStops
      BY <1>0, <3>5, LinkMends, PeerDoes DEF Keeps
    <3> QED BY <1>3, <3>2, <3>3, <3>4, <3>5
  <2>3. /\ v'.hw = v.hw /\ v'.raw = v.raw /\ v'.ask = v.ask /\ v'.asked = v.asked
        /\ v'.room = v.room
    BY <2>2 DEF Keeps, Fields
  <2> QED BY <2>1, <2>3, CaptureKept
<1>4. CASE SetMicOn
  <2>1. /\ Keeps(v', v, {"asked", "ask"}) /\ v'.asked = TRUE /\ v'.ask = v.ask + 1
        /\ v.room # None /\ ~v.asked
        /\ starting' = [starting EXCEPT ![v.ask + 1] = [at |-> "permission", echo |-> v.echo]]
    BY <1>0, <1>4, SetMicOnDoes
  <2>2. v'.hw = v.hw /\ v'.raw = v.raw /\ v'.room = v.room
    BY <2>1 DEF Keeps, Fields
  <2>3. v.raw = 0
    BY <2>1 DEF CaptureInv
  <2>4. \A q \in Asks : starting'[q].at = IF q = v.ask + 1 THEN "permission" ELSE starting[q].at
    BY <1>0, <2>1
  <2> QED BY <1>0, <2>1, <2>2, <2>3, <2>4 DEF CaptureInv, Asks
<1>5. CASE SetMicOff
  <2>1. /\ Keeps(v', v, {"asked", "ask", "mic", "published", "sent", "going", "hw", "raw", "track",
                         "changes"})
        /\ v'.asked = FALSE /\ v'.ask = v.ask + 1 /\ v'.hw = v.hw \ {v.raw} /\ v'.raw = 0
        /\ UNCHANGED starting
    BY <1>0, <1>5, SetMicOffDoes
  <2> QED BY <1>0, <2>1 DEF CaptureInv, Asks
<1>6. ASSUME NEW r \in Asks, PermissionGranted(r) PROVE CaptureInv'
  <2>1. starting[r].at = "permission"
    BY <1>0, <1>6, PermissionGrantedDoes
  <2>2. CASE Stop(r) /\ v' = v
    BY <2>2, CaptureStops
  <2>3. CASE /\ r = v.ask /\ starting' = [starting EXCEPT ![r].at = "resume"]
             /\ Keeps(v', v, {"raw", "applied", "hw"})
             /\ v'.raw = r /\ v'.hw = v.hw \union {r}
    <3>1. v'.ask = v.ask /\ v'.asked = v.asked /\ v'.room = v.room
      BY <2>3 DEF Keeps, Fields
    <3>2. v.raw = 0 /\ v.asked /\ r # 0
      BY <2>1, <2>3 DEF CaptureInv, Asks
    <3>3. \A q \in Asks : starting'[q].at = IF q = r THEN "resume" ELSE starting[q].at
      BY <1>0, <2>3
    <3> QED BY <2>1, <2>3, <3>1, <3>2, <3>3 DEF CaptureInv
  <2> QED BY <1>0, <1>6, <2>2, <2>3, PermissionGrantedDoes
<1>7. ASSUME NEW r \in Asks, PermissionDenied(r) PROVE CaptureInv'
  <2>1. starting[r].at = "permission" /\ Stop(r)
    BY <1>0, <1>7, PermissionDeniedDoes
  <2>2. CASE v' = v
    BY <2>1, <2>2, CaptureStops
  <2>3. CASE r = v.ask /\ Keeps(v', v, {"asked"}) /\ v'.asked = FALSE
    <3>1. v'.hw = v.hw /\ v'.raw = v.raw /\ v'.ask = v.ask /\ v'.room = v.room
      BY <2>3 DEF Keeps, Fields
    <3>2. v.raw = 0
      BY <2>1, <2>3 DEF CaptureInv
    <3>3. \A q \in Asks : starting'[q].at = IF q = r THEN "idle" ELSE starting[q].at
      BY <1>0, <2>1 DEF Stop, Idle
    <3> QED BY <2>3, <3>1, <3>2, <3>3 DEF CaptureInv
  <2> QED BY <1>0, <1>7, <2>2, <2>3, PermissionDeniedDoes
<1>8. ASSUME NEW r \in Asks, GraphResumed(r) PROVE CaptureInv'
  <2>1. starting[r].at = "resume"
    BY <1>0, <1>8, GraphResumedDoes
  <2>2. CASE Stop(r) /\ v' = v
    BY <2>2, CaptureStops
  <2>3. ASSUME r = v.ask, NEW w, Keeps(w, v, {"track"}), Started(w, r)
        PROVE  CaptureInv'
    BY <2>1, <2>3, CaptureStarts
  <2> QED BY <1>0, <1>8, <2>2, <2>3, GraphResumedDoes
<1>9. ASSUME NEW r \in Asks, ChoiceApplied(r) PROVE CaptureInv'
  <2>1. starting[r].at = "apply"
    BY <1>0, <1>9, ChoiceAppliedDoes
  <2>2. CASE Stop(r) /\ v' = v
    BY <2>2, CaptureStops
  <2>3. CASE r = v.ask /\ Started(v, r)
    <3>1. Keeps(v, v, {"track"})
      BY <1>0 DEF Shape, Keeps
    <3> QED BY <2>1, <2>3, <3>1, CaptureStarts
  <2>4. CASE /\ r = v.ask /\ Stop(r)
             /\ Keeps(v', v, {"hw", "raw", "track", "changes", "asked"})
             /\ v'.hw = v.hw \ {v.raw} /\ v'.raw = 0 /\ v'.asked = FALSE
    <3>1. v'.ask = v.ask
      BY <2>4 DEF Keeps, Fields
    <3>2. \A q \in Asks : starting'[q].at = IF q = r THEN "idle" ELSE starting[q].at
      BY <1>0, <2>4 DEF Stop, Idle
    <3> QED BY <2>4, <3>1, <3>2 DEF CaptureInv
  <2> QED BY <1>0, <1>9, <2>2, <2>3, <2>4, ChoiceAppliedDoes
<1>10. CASE SetEchoCancellation \/ SetNoiseCancellation \/ ReloadSettings
  <2>1. /\ Keeps(v', v, {"echo", "noise", "rev", "muted", "audio", "applied", "changes"})
        /\ UNCHANGED starting
    BY <1>0, <1>10, SetChoiceDoes, ReloadSettingsDoes DEF Keeps
  <2>2. /\ v'.hw = v.hw /\ v'.raw = v.raw /\ v'.ask = v.ask /\ v'.asked = v.asked
        /\ v'.room = v.room
    BY <2>1 DEF Keeps, Fields
  <2> QED BY <2>1, <2>2, CaptureKept
<1>11. CASE ChangeRuns \/ ChangeApplied \/ SetSpeaker \/ ToggleMutePeer
  <2>1. /\ Keeps(v', v, {"changes", "applied", "published", "sent", "going", "filtering", "micEcho",
                         "echo", "speaker", "asking", "spaced", "lk", "lkRoom", "audio", "muted"})
        /\ UNCHANGED starting
    BY <1>0, <1>11, ChangeRunsDoes, ChangeAppliedDoes, SetSpeakerDoes, ToggleMutePeerDoes
    DEF Keeps
  <2>2. /\ v'.hw = v.hw /\ v'.raw = v.raw /\ v'.ask = v.ask /\ v'.asked = v.asked
        /\ v'.room = v.room
    BY <2>1 DEF Keeps, Fields
  <2> QED BY <2>1, <2>2, CaptureKept
<1>12. CASE \/ \E x \in v.filtering, ok \in BOOLEAN : FilterStarts(x, ok)
            \/ \E x \in v.going, ok \in BOOLEAN : PublishEnds(x, ok)
  <2>1. /\ Keeps(v', v, {"filtering", "noise", "published", "applied", "sent", "going"})
        /\ UNCHANGED starting
    BY <1>0, <1>12, FilterStartsDoes, PublishEndsDoes DEF Keeps
  <2>2. /\ v'.hw = v.hw /\ v'.raw = v.raw /\ v'.ask = v.ask /\ v'.asked = v.asked
        /\ v'.room = v.room
    BY <2>1 DEF Keeps, Fields
  <2> QED BY <2>1, <2>2, CaptureKept
<1>13. CASE UNCHANGED vars
  BY <1>13, CaptureKept DEF vars
<1> QED
  BY <1>1, <1>2, <1>3, <1>4, <1>5, <1>6, <1>7, <1>8, <1>9, <1>10, <1>11, <1>12, <1>13
  DEF Next, Page, Token, LiveKit, Mic, Settings

LEMMA CaptureSound == Spec => []CaptureInv
<1>1. Init => CaptureInv
  BY DEF Init, CaptureInv, Idle
<1>2. TypeInv /\ CaptureInv /\ [Next]_vars => CaptureInv'
  BY CaptureStep
<1> QED BY <1>1, <1>2, TypeCorrect, PTL DEF Spec

\* Nobody is recorded unasked: whatever the order in which permissions, the audio
\* graph, rooms and clicks come, only the capture that was asked for last has the
\* microphone open, in a room, until it is given up (voice.ts:1071 startMic,
\* micRequest; voice.ts:1192 releaseMic).
THEOREM NobodyIsRecordedUnasked == Spec => []RecordsOnlyWhenAsked
<1>1. CaptureInv => RecordsOnlyWhenAsked
  BY DEF CaptureInv, RecordsOnlyWhenAsked
<1> QED BY <1>1, CaptureSound, PTL

(***************************************************************************)
(* PART 5.  Voice is in the room of the player.                            *)
(***************************************************************************)
LEMMA TokenReads ==
  /\ NoToken.age = "none"
  /\ \A r : [room |-> r, age |-> "fresh"].age = "fresh" /\ [room |-> r, age |-> "fresh"].room = r
BY DEF NoToken

LEMMA NothingAsked ==
  ASSUME NEW x, x.asking = <<>>
  PROVE  x.asking \in RoomOf(x)
BY EmptySeq DEF RoomOf

LEMMA NoRoomNoAsk ==
  ASSUME NEW x, x.room = None, x.asking \in RoomOf(x)
  PROVE  x.asking = <<>>
<1> DEFINE S == {x.room} \ {None}
<1>1. S = {} /\ x.asking \in Seq(S)
  BY DEF RoomOf
<1>2. ASSUME x.asking # <<>> PROVE FALSE
  <2>1. Head(x.asking) \in S
    BY <1>1, <1>2, HeadTailProperties
  <2> QED BY <1>1, <2>1
<1> QED BY <1>2

LEMMA FirstAsked ==
  ASSUME NEW x, x.asking \in RoomOf(x), x.asking # <<>>
  PROVE  /\ x.room # None /\ Head(x.asking) = x.room /\ Tail(x.asking) \in RoomOf(x)
         /\ Append(Tail(x.asking), x.room) \in RoomOf(x)
<1> DEFINE S == {x.room} \ {None}
<1>1. x.asking \in Seq(S)
  BY DEF RoomOf
<1>2. Head(x.asking) \in S /\ Tail(x.asking) \in Seq(S)
  BY <1>1, HeadTailProperties
<1>3. x.room # None /\ Head(x.asking) = x.room /\ x.room \in S
  BY <1>2
<1> HIDE DEF S
<1>4. Append(Tail(x.asking), x.room) \in Seq(S)
  BY <1>2, <1>3, AppendProperties
<1> QED BY <1>2, <1>3, <1>4 DEF RoomOf, S

LEMMA AsksTwice ==
  ASSUME NEW S, NEW r \in S, NEW b,
         \E a : a \in {<<>>, Append(<<>>, r)} /\ b \in {a, Append(a, r)}
  PROVE  b \in Seq(S)
<1>1. PICK a : a \in {<<>>, Append(<<>>, r)} /\ b \in {a, Append(a, r)}
  OBVIOUS
<1>2. <<>> \in Seq(S)
  BY EmptySeq
<1>3. Append(<<>>, r) \in Seq(S)
  BY <1>2, AppendProperties
<1>4. a \in Seq(S)
  BY <1>1, <1>2, <1>3
<1>5. Append(a, r) \in Seq(S)
  BY <1>4, AppendProperties
<1> QED BY <1>1, <1>4, <1>5

LEMMA AskOfRoom ==
  ASSUME NEW x, NEW w, MayAsk(x, w), x.room = w.room, w.asking \in RoomOf(w)
  PROVE  x.asking \in RoomOf(x)
<1>1. CASE x.asking = w.asking
  BY <1>1 DEF RoomOf
<1>2. CASE w.room # None /\ x.asking = Append(w.asking, w.room)
  <2>1. w.room \in {w.room} \ {None} /\ w.asking \in Seq({w.room} \ {None})
    BY <1>2 DEF RoomOf
  <2>2. Append(w.asking, w.room) \in Seq({w.room} \ {None})
    BY <2>1, AppendProperties
  <2> QED BY <1>2, <2>2 DEF RoomOf
<1> QED BY <1>1, <1>2 DEF MayAsk

LEMMA RoomKept ==
  ASSUME RoomInv, v'.room = v.room, v'.token = v.token, v'.asking \in RoomOf(v'),
         MayConnect(v', v)
  PROVE  RoomInv'
BY DEF RoomInv, MayConnect

LEMMA RoomStarts ==
  ASSUME Shape, RoomInv, NEW r \in Asks, NEW w, Keeps(w, v, {"track"}), Started(w, r)
  PROVE  RoomInv'
<1>1. /\ Keeps(v', v, {"track", "micEcho", "applied", "published", "sent", "going", "filtering",
                       "mic", "asking", "spaced", "lk", "lkRoom"})
      /\ MayAsk(v', v) /\ MayConnect(v', v)
  BY StartedConnects
<1>2. v'.room = v.room /\ v'.token = v.token
  BY <1>1 DEF Keeps, Fields
<1>3. v.asking \in RoomOf(v)
  BY DEF RoomInv
<1>4. v'.asking \in RoomOf(v')
  BY <1>1, <1>2, <1>3, AskOfRoom
<1> QED BY <1>1, <1>2, <1>4, RoomKept

LEMMA RoomStep ==
  ASSUME "late reply" \notin Awkward, TypeInv, RoomInv, [Next]_vars
  PROVE  RoomInv'
<1>0. Shape /\ v.asking \in RoomOf(v) /\ DOMAIN v.token = {"room", "age"}
  BY DEF TypeInv, RoomInv
<1>1. ASSUME NEW r \in Rooms, EnterRoom(r) PROVE RoomInv'
  <2>1. /\ Keeps(v', v, {"room", "spaced", "asking", "lk", "lkRoom", "published", "sent", "going",
                         "audio", "filtering"})
        /\ v.room = None /\ v'.room = r
        /\ v'.lk = "none" \/ v.token.age # "none"
        /\ \E a : a \in {v.asking, Append(v.asking, r)} /\ v'.asking \in {a, Append(a, r)}
    BY <1>0, <1>1, EnterRoomDoes
  <2>2. v'.token = v.token
    BY <2>1 DEF Keeps, Fields
  <2>3. v.token.age = "none" /\ v.asking = <<>>
    BY <1>0, <2>1, NoRoomNoAsk DEF RoomInv
  <2>4. v'.asking \in RoomOf(v')
    <3> DEFINE S == {v'.room} \ {None}
    <3>1. r \in S
      BY <2>1, VoiceAssumption
    <3> HIDE DEF S
    <3>2. v'.asking \in Seq(S)
      BY <2>1, <2>3, <3>1, AsksTwice
    <3> QED BY <3>2 DEF S, RoomOf
  <2> QED BY <2>1, <2>2, <2>3, <2>4 DEF RoomInv
<1>2. CASE LeaveRoom
  <2>1. /\ Keeps(v', v, {"room", "token", "mic", "speaker", "asked", "ask", "lk", "lkRoom",
                         "published", "sent", "going", "audio", "filtering", "hw", "raw", "track",
                         "changes"})
        /\ v'.token = NoToken /\ v'.lk = "none"
    BY <1>0, <1>2, LeaveRoomDoes
  <2>2. v.asking = <<>>
    BY <1>2 DEF LeaveRoom
  <2>3. v'.asking = <<>>
    BY <2>1, <2>2 DEF Keeps, Fields
  <2>4. v'.token.age = "none"
    BY <2>1, TokenReads
  <2> QED BY <2>1, <2>3, <2>4, NothingAsked DEF RoomInv
<1>3. CASE TokenArrives
  <2>1. /\ Keeps(v', v, {"asking", "token", "spaced", "lk", "lkRoom"})
        /\ v.asking # <<>>
        /\ \/ v'.asking = Tail(v.asking)
           \/ v.room # None /\ v'.asking = Append(Tail(v.asking), v.room)
        /\ v'.token = [room |-> Head(v.asking), age |-> "fresh"]
        /\ \/ v'.lk = v.lk /\ v'.lkRoom = v.lkRoom
           \/ v'.lk = "connecting" /\ v'.lkRoom = Head(v.asking)
    BY <1>0, <1>3, TokenArrivesDoes
  <2>2. v'.room = v.room
    BY <2>1 DEF Keeps, Fields
  <2>3. /\ Head(v.asking) = v.room /\ v.room # None /\ v'.asking \in RoomOf(v)
    BY <1>0, <2>1, FirstAsked
  <2>4. v'.token.age = "fresh" /\ v'.token.room = v.room
    BY <2>1, <2>3, TokenReads
  <2>5. v'.asking \in RoomOf(v')
    BY <2>2, <2>3 DEF RoomOf
  <2>6. v'.lk \notin {"none", "idle"} => v'.lkRoom = v'.room
    BY <2>1, <2>2, <2>3 DEF RoomInv
  <2> QED BY <2>2, <2>3, <2>4, <2>5, <2>6 DEF RoomInv
<1>4. CASE TokenRefused \/ SpacingEnds \/ TokenAges \/ SocketDrops
  <2>1. /\ Keeps(v', v, {"asking", "token", "spaced", "socket"})
        /\ \/ v'.asking = v.asking \/ v'.asking = <<>>
           \/ v.asking # <<>> /\ v'.asking = Tail(v.asking)
        /\ \/ v'.token = v.token
           \/ v.token.age # "none" /\ \E a \in {"old", "spent"} :
                v'.token = [v.token EXCEPT !.age = a]
    BY <1>0, <1>4, TokenWearsOut
  <2>2. v'.room = v.room /\ v'.lk = v.lk /\ v'.lkRoom = v.lkRoom
    BY <2>1 DEF Keeps, Fields
  <2>3. v'.asking \in RoomOf(v')
    <3>1. CASE v'.asking = <<>>
      BY <3>1, NothingAsked
    <3>2. CASE v'.asking # <<>>
      <4>1. v'.asking \in RoomOf(v)
        BY <1>0, <2>1, <3>2, FirstAsked
      <4> QED BY <2>2, <4>1 DEF RoomOf
    <3> QED BY <3>1, <3>2
  <2>4. v'.token.age # "none" => v'.token.room = v.room /\ v.room # None
    BY <1>0, <2>1 DEF RoomInv
  <2> QED BY <2>2, <2>3, <2>4 DEF RoomInv
<1>5. CASE SocketReturns
  <2>1. /\ Keeps(v', v, {"socket", "asking", "spaced", "lk", "lkRoom"})
        /\ v'.asking = <<>> /\ MayConnect(v', v)
    BY <1>0, <1>5, SocketReturnsDoes
  <2>2. v'.room = v.room /\ v'.token = v.token
    BY <2>1 DEF Keeps, Fields
  <2>3. v'.asking \in RoomOf(v')
    BY <2>1, NothingAsked
  <2> QED BY <2>1, <2>2, <2>3, RoomKept
<1>6. CASE RetryFires \/ SetSpeaker
  <2>1. /\ Keeps(v', v, {"retry", "asking", "spaced", "lk", "lkRoom", "speaker", "audio"})
        /\ MayAsk(v', v) /\ MayConnect(v', v)
    BY <1>0, <1>6, RetryFiresDoes, SetSpeakerDoes DEF Keeps
  <2>2. v'.room = v.room /\ v'.token = v.token
    BY <2>1 DEF Keeps, Fields
  <2>3. v'.asking \in RoomOf(v')
    BY <1>0, <2>1, <2>2, AskOfRoom
  <2> QED BY <2>1, <2>2, <2>3, RoomKept
<1>7. CASE Connected
  <2>1. PICK w : w = [v EXCEPT !.lk = "connected"]
    OBVIOUS
  <2>2. /\ Keeps(v', v, {"lk", "applied", "published", "sent", "going", "filtering"})
        /\ v.lk = "connecting"
    BY <1>0, <1>7, <2>1, ConnectedDoes
  <2>3. v'.room = v.room /\ v'.token = v.token /\ v'.lkRoom = v.lkRoom /\ v'.asking = v.asking
    BY <2>2 DEF Keeps, Fields
  <2> QED BY <2>2, <2>3 DEF RoomInv, RoomOf
<1>8. CASE ConnectFails
  <2>1. Keeps(v', v, {"lk", "lkRoom", "token"}) /\ v'.lk = "idle" /\ v'.token = NoToken
    BY <1>0, <1>8, ConnectFailsDoes
  <2>2. v'.room = v.room /\ v'.asking = v.asking
    BY <2>1 DEF Keeps, Fields
  <2>3. v'.token.age = "none" /\ v'.asking \in RoomOf(v')
    BY <1>0, <2>1, <2>2, TokenReads DEF RoomOf
  <2> QED BY <2>1, <2>3 DEF RoomInv
<1>9. CASE Disconnected
  <2>1. /\ Keeps(v', v, {"lk", "lkRoom", "published", "sent", "going", "audio", "filtering",
                         "retry", "asking", "spaced"})
        /\ MayAsk(v', v) /\ v'.lk = "none"
    BY <1>0, <1>9, DisconnectedDoes
  <2>2. v'.room = v.room /\ v'.token = v.token
    BY <2>1 DEF Keeps, Fields
  <2>3. v'.asking \in RoomOf(v')
    BY <1>0, <2>1, <2>2, AskOfRoom
  <2> QED BY <2>1, <2>2, <2>3 DEF RoomInv
<1>10. CASE Reconnecting \/ Reconnected
  <2>1. Keeps(v', v, {"lk"}) /\ {v.lk, v'.lk} = {"connected", "reconnecting"}
    BY <1>0, <1>10, LinkMends
  <2>2. v'.room = v.room /\ v'.token = v.token /\ v'.lkRoom = v.lkRoom /\ v'.asking = v.asking
    BY <2>1 DEF Keeps, Fields
  <2> QED BY <2>1, <2>2 DEF RoomInv, RoomOf
<1>11. ASSUME NEW r \in Asks,
              PermissionGranted(r) \/ PermissionDenied(r) \/ GraphResumed(r) \/ ChoiceApplied(r)
       PROVE  RoomInv'
  <2>1. \/ v' = v \/ Keeps(v', v, {"raw", "applied", "hw", "asked", "track", "changes"})
        \/ \E w : Keeps(w, v, {"track"}) /\ Started(w, r)
    BY <1>0, <1>11, MicGoesOn
  <2>2. CASE v' = v
    BY <2>2 DEF RoomInv, RoomOf
  <2>3. CASE Keeps(v', v, {"raw", "applied", "hw", "asked", "track", "changes"})
    <3>1. /\ v'.room = v.room /\ v'.token = v.token /\ v'.asking = v.asking /\ v'.lk = v.lk
          /\ v'.lkRoom = v.lkRoom
      BY <2>3 DEF Keeps, Fields
    <3> QED BY <3>1 DEF RoomInv, RoomOf
  <2> QED BY <1>0, <2>1, <2>2, <2>3, RoomStarts
<1>12. CASE \/ PeerSpeaks \/ PeerStops \/ SetMicOn \/ SetMicOff
            \/ SetEchoCancellation \/ SetNoiseCancellation \/ ReloadSettings
            \/ ChangeRuns \/ ChangeApplied \/ ToggleMutePeer
            \/ \E x \in v.filtering, ok \in BOOLEAN : FilterStarts(x, ok)
            \/ \E x \in v.going, ok \in BOOLEAN : PublishEnds(x, ok)
  <2>1. Keeps(v', v, Fields \ {"room", "token", "asking", "lk", "lkRoom"})
    <3>1. CASE PeerSpeaks \/ PeerStops \/ ToggleMutePeer
      BY <1>0, <3>1, PeerDoes, ToggleMutePeerDoes DEF Keeps, Fields
    <3>2. CASE SetMicOn \/ SetMicOff
      BY <1>0, <3>2, SetMicOnDoes, SetMicOffDoes DEF Keeps, Fields
    <3>3. CASE SetEchoCancellation \/ SetNoiseCancellation
      <4>1. Keeps(v', v, {"echo", "rev", "changes"}) \/ Keeps(v', v, {"noise", "rev", "changes"})
        BY <1>0, <3>3, SetChoiceDoes
      <4> QED BY <4>1 DEF Keeps, Fields
    <3>4. CASE ReloadSettings
      BY <1>0, <3>4, ReloadSettingsDoes DEF Keeps, Fields
    <3>5. CASE ChangeRuns \/ ChangeApplied
      <4>1. \/ Keeps(v', v, {"changes", "applied", "published", "sent", "going", "filtering"})
            \/ Keeps(v', v, {"changes", "micEcho", "echo"})
        BY <1>0, <3>5, ChangeRunsDoes, ChangeAppliedDoes
      <4> QED BY <4>1 DEF Keeps, Fields
    <3>6. CASE \/ \E x \in v.filtering, ok \in BOOLEAN : FilterStarts(x, ok)
              \/ \E x \in v.going, ok \in BOOLEAN : PublishEnds(x, ok)
      <4>1. \/ Keeps(v', v, {"filtering", "noise", "published", "applied", "sent", "going"})
            \/ Keeps(v', v, {"going", "sent", "published"})
        BY <1>0, <3>6, FilterStartsDoes, PublishEndsDoes
      <4> QED BY <4>1 DEF Keeps, Fields
    <3> QED BY <1>12, <3>1, <3>2, <3>3, <3>4, <3>5, <3>6
  <2>2. /\ v'.room = v.room /\ v'.token = v.token /\ v'.asking = v.asking /\ v'.lk = v.lk
        /\ v'.lkRoom = v.lkRoom
    BY <2>1 DEF Keeps, Fields
  <2> QED BY <2>2 DEF RoomInv, RoomOf
<1>13. CASE UNCHANGED vars
  BY <1>13 DEF vars, RoomInv, RoomOf
<1> QED
  BY <1>1, <1>2, <1>3, <1>4, <1>5, <1>6, <1>7, <1>8, <1>9, <1>10, <1>11, <1>12, <1>13
  DEF Next, Page, Token, LiveKit, Mic, Settings

\* Unless a room is left while a token is under way, voice is only ever connected to
\* the room the player is in: no reply, retry or reconnection of an earlier room
\* reaches a later one (voice.ts:343 enterRoom, :400 leaveRoom, :362 setLiveKitToken).
THEOREM VoiceKeepsToItsRoom ==
  ASSUME "late reply" \notin Awkward
  PROVE  Spec => []VoiceStaysInRoom
<1>1. Init => RoomInv
  <2>1. ASSUME Init PROVE RoomInv
    <3>1. v.asking = <<>> /\ v.token = NoToken /\ v.lk = "none"
      BY <2>1 DEF Init
    <3>2. v.token.age = "none"
      BY <3>1, TokenReads
    <3> QED BY <3>1, <3>2, NothingAsked DEF RoomInv
  <2> QED BY <2>1
<1>2. TypeInv /\ RoomInv /\ [Next]_vars => RoomInv'
  BY RoomStep
<1>3. RoomInv => VoiceStaysInRoom
  BY DEF RoomInv, VoiceStaysInRoom
<1> QED BY <1>1, <1>2, <1>3, TypeCorrect, PTL DEF Spec

(***************************************************************************)
(* PART 6.  The other player plays as the controls say.                    *)
(***************************************************************************)
LEMMA PlayKept ==
  ASSUME PlaysWhatIsAsked, v'.audio = v.audio, v'.speaker = v.speaker, v'.muted = v.muted,
         Linked => Linked'
  PROVE  PlaysWhatIsAsked'
BY DEF PlaysWhatIsAsked, Linked

LEMMA PlayAnew ==
  ASSUME PlaysWhatIsAsked,
         v'.audio = IF v.audio = "none" THEN "none"
                    ELSE IF v'.speaker /\ ~v'.muted THEN "playing" ELSE "muted",
         Linked => Linked'
  PROVE  PlaysWhatIsAsked'
BY DEF PlaysWhatIsAsked, Linked

LEMMA PlayStep ==
  ASSUME TypeInv, PlaysWhatIsAsked, [Next]_vars
  PROVE  PlaysWhatIsAsked'
<1>0. Shape
  BY DEF TypeInv
<1>1. CASE (\E r \in Rooms : EnterRoom(r)) \/ LeaveRoom \/ Disconnected
  <2>1. v'.audio = "none"
    BY <1>0, <1>1, EnterRoomDoes, LeaveRoomDoes, DisconnectedDoes
  <2> QED BY <2>1 DEF PlaysWhatIsAsked
<1>2. CASE \/ TokenRefused \/ SpacingEnds \/ TokenAges \/ SocketDrops \/ SetMicOn \/ SetMicOff
           \/ SetEchoCancellation \/ SetNoiseCancellation \/ ChangeRuns \/ ChangeApplied
           \/ \E x \in v.filtering, ok \in BOOLEAN : FilterStarts(x, ok)
           \/ \E x \in v.going, ok \in BOOLEAN : PublishEnds(x, ok)
  <2>1. Keeps(v', v, Fields \ {"audio", "speaker", "muted", "lk"})
    <3>1. CASE TokenRefused \/ SpacingEnds \/ TokenAges \/ SocketDrops
      BY <1>0, <3>1, TokenWearsOut DEF Keeps, Fields
    <3>2. CASE SetMicOn \/ SetMicOff
      BY <1>0, <3>2, SetMicOnDoes, SetMicOffDoes DEF Keeps, Fields
    <3>3. CASE SetEchoCancellation \/ SetNoiseCancellation
      <4>1. Keeps(v', v, {"echo", "rev", "changes"}) \/ Keeps(v', v, {"noise", "rev", "changes"})
        BY <1>0, <3>3, SetChoiceDoes
      <4> QED BY <4>1 DEF Keeps, Fields
    <3>4. CASE ChangeRuns \/ ChangeApplied
      <4>1. \/ Keeps(v', v, {"changes", "applied", "published", "sent", "going", "filtering"})
            \/ Keeps(v', v, {"changes", "micEcho", "echo"})
        BY <1>0, <3>4, ChangeRunsDoes, ChangeAppliedDoes
      <4> QED BY <4>1 DEF Keeps, Fields
    <3>5. CASE \/ \E x \in v.filtering, ok \in BOOLEAN : FilterStarts(x, ok)
              \/ \E x \in v.going, ok \in BOOLEAN : PublishEnds(x, ok)
      <4>1. \/ Keeps(v', v, {"filtering", "noise", "published", "applied", "sent", "going"})
            \/ Keeps(v', v, {"going", "sent", "published"})
        BY <1>0, <3>5, FilterStartsDoes, PublishEndsDoes
      <4> QED BY <4>1 DEF Keeps, Fields
    <3> QED BY <1>2, <3>1, <3>2, <3>3, <3>4, <3>5
  <2>2. v'.audio = v.audio /\ v'.speaker = v.speaker /\ v'.muted = v.muted /\ v'.lk = v.lk
    BY <2>1 DEF Keeps, Fields
  <2> QED BY <2>2, PlayKept DEF Linked
<1>3. CASE \/ TokenArrives \/ SocketReturns \/ RetryFires \/ Connected \/ ConnectFails
           \/ Reconnecting \/ Reconnected
  <2>1. /\ Keeps(v', v, Fields \ {"audio", "speaker", "muted"})
        /\ Linked => Linked'
    <3>1. CASE TokenArrives
      <4>1. /\ Keeps(v', v, {"asking", "token", "spaced", "lk", "lkRoom"})
            /\ v'.lk = v.lk \/ v.lk \notin {"connecting", "connected", "reconnecting"}
        BY <1>0, <3>1, TokenArrivesDoes
      <4> QED BY <4>1 DEF Keeps, Fields, Linked
    <3>2. CASE SocketReturns \/ RetryFires
      <4>1. /\ \/ Keeps(v', v, {"socket", "asking", "spaced", "lk", "lkRoom"})
               \/ Keeps(v', v, {"retry", "asking", "spaced", "lk", "lkRoom"})
            /\ MayConnect(v', v)
        BY <1>0, <3>2, SocketReturnsDoes, RetryFiresDoes
      <4> QED BY <4>1 DEF Keeps, Fields, Linked, MayConnect
    <3>3. CASE Connected
      <4>1. PICK w : w = [v EXCEPT !.lk = "connected"]
        OBVIOUS
      <4>2. /\ Keeps(v', v, {"lk", "applied", "published", "sent", "going", "filtering"})
            /\ v'.lk = "connected"
        BY <1>0, <3>3, <4>1, ConnectedDoes
      <4> QED BY <4>2 DEF Keeps, Fields, Linked
    <3>4. CASE ConnectFails
      <4>1. Keeps(v', v, {"lk", "lkRoom", "token"}) /\ v.lk = "connecting"
        BY <1>0, <3>4, ConnectFailsDoes
      <4> QED BY <4>1 DEF Keeps, Fields, Linked
    <3>5. CASE Reconnecting \/ Reconnected
      <4>1. Keeps(v', v, {"lk"}) /\ {v.lk, v'.lk} = {"connected", "reconnecting"}
        BY <1>0, <3>5, LinkMends
      <4> QED BY <4>1 DEF Keeps, Fields, Linked
    <3> QED BY <1>3, <3>1, <3>2, <3>3, <3>4, <3>5
  <2>2. v'.audio = v.audio /\ v'.speaker = v.speaker /\ v'.muted = v.muted
    BY <2>1 DEF Keeps, Fields
  <2> QED BY <2>1, <2>2, PlayKept
<1>4. CASE PeerSpeaks \/ PeerStops
  <2>1. /\ Keeps(v', v, {"audio"})
        /\ \/ v'.audio = "none"
           \/ /\ v.lk = "connected"
              /\ v'.audio = IF v.speaker /\ ~v.muted THEN "playing" ELSE "muted"
    BY <1>0, <1>4, PeerDoes
  <2>2. v'.lk = v.lk /\ v'.speaker = v.speaker /\ v'.muted = v.muted
    BY <2>1 DEF Keeps, Fields
  <2> QED BY <2>1, <2>2 DEF PlaysWhatIsAsked
<1>5. ASSUME NEW r \in Asks,
             PermissionGranted(r) \/ PermissionDenied(r) \/ GraphResumed(r) \/ ChoiceApplied(r)
      PROVE  PlaysWhatIsAsked'
  <2>1. \/ v' = v \/ Keeps(v', v, {"raw", "applied", "hw", "asked", "track", "changes"})
        \/ \E w : Keeps(w, v, {"track"}) /\ Started(w, r)
    BY <1>0, <1>5, MicGoesOn
  <2>2. CASE v' = v
    BY <2>2, PlayKept DEF Linked
  <2>3. CASE Keeps(v', v, {"raw", "applied", "hw", "asked", "track", "changes"})
    <3>1. v'.audio = v.audio /\ v'.speaker = v.speaker /\ v'.muted = v.muted /\ v'.lk = v.lk
      BY <2>3 DEF Keeps, Fields
    <3> QED BY <3>1, PlayKept DEF Linked
  <2>4. ASSUME NEW w, Keeps(w, v, {"track"}), Started(w, r) PROVE PlaysWhatIsAsked'
    <3>1. /\ Keeps(v', v, {"track", "micEcho", "applied", "published", "sent", "going", "filtering",
                           "mic", "asking", "spaced", "lk", "lkRoom"})
          /\ MayConnect(v', v)
      BY <1>0, <2>4, StartedConnects
    <3>2. v'.audio = v.audio /\ v'.speaker = v.speaker /\ v'.muted = v.muted
      BY <3>1 DEF Keeps, Fields
    <3>3. Linked => Linked'
      BY <3>1 DEF MayConnect, Linked
    <3> QED BY <3>2, <3>3, PlayKept
  <2> QED BY <2>1, <2>2, <2>3, <2>4
<1>6. CASE ReloadSettings \/ SetSpeaker \/ ToggleMutePeer
  <2>1. /\ v'.audio = IF v.audio = "none" THEN "none"
                      ELSE IF v'.speaker /\ ~v'.muted THEN "playing" ELSE "muted"
        /\ Linked => Linked'
    <3>1. CASE ReloadSettings
      <4>1. /\ Keeps(v', v, {"echo", "noise", "muted", "audio", "applied", "changes"})
            /\ v'.audio = IF v.audio = "none" THEN "none"
                          ELSE IF v.speaker /\ ~v'.muted THEN "playing" ELSE "muted"
        BY <1>0, <3>1, ReloadSettingsDoes
      <4>2. v'.speaker = v.speaker /\ v'.lk = v.lk
        BY <4>1 DEF Keeps, Fields
      <4> QED BY <4>1, <4>2 DEF Linked
    <3>2. CASE SetSpeaker
      <4>1. /\ Keeps(v', v, {"speaker", "asking", "spaced", "lk", "lkRoom", "audio"})
            /\ MayConnect(v', v)
            /\ v'.audio = IF v.audio = "none" THEN "none"
                          ELSE IF v'.speaker /\ ~v.muted THEN "playing" ELSE "muted"
        BY <1>0, <3>2, SetSpeakerDoes
      <4>2. v'.muted = v.muted
        BY <4>1 DEF Keeps, Fields
      <4>3. Linked => Linked'
        BY <4>1 DEF MayConnect, Linked
      <4> QED BY <4>1, <4>2, <4>3
    <3>3. CASE ToggleMutePeer
      <4>1. /\ Keeps(v', v, {"muted", "audio"})
            /\ v'.audio = IF v.audio = "none" THEN "none"
                          ELSE IF v.speaker /\ ~v'.muted THEN "playing" ELSE "muted"
        BY <1>0, <3>3, ToggleMutePeerDoes
      <4>2. v'.speaker = v.speaker /\ v'.lk = v.lk
        BY <4>1 DEF Keeps, Fields
      <4> QED BY <4>1, <4>2 DEF Linked
    <3> QED BY <1>6, <3>1, <3>2, <3>3
  <2> QED BY <2>1, PlayAnew
<1>7. CASE UNCHANGED vars
  BY <1>7, PlayKept DEF vars, Linked
<1> QED
  BY <1>1, <1>2, <1>3, <1>4, <1>5, <1>6, <1>7 DEF Next, Page, Token, LiveKit, Mic, Settings

\* Whatever the order of rooms, tracks, settings and clicks, the other player is heard
\* exactly while the speaker is on and they are not muted (voice.ts applyOutput, after
\* every change of the speaker, of the mutes and of the subscribed tracks).
THEOREM PlaysAsAsked == Spec => []PlaysWhatIsAsked
<1>1. Init => PlaysWhatIsAsked
  BY DEF Init, PlaysWhatIsAsked
<1>2. TypeInv /\ PlaysWhatIsAsked /\ [Next]_vars => PlaysWhatIsAsked'
  BY PlayStep
<1> QED BY <1>1, <1>2, TypeCorrect, PTL DEF Spec

(***************************************************************************)
(* PART 7.  A microphone that looks on is heard.                           *)
(***************************************************************************)
\* None of the timings of module Voice that may lose a track; and LiveKit refuses
\* no publication either.
NoBadTiming ==
  {"filter starting", "room lost", "half on", "reconnecting"} \intersect Awkward = {}
NoTrackLost == NoBadTiming /\ "publish fails" \notin Awkward

LEMMA Undisturbed ==
  ASSUME NoBadTiming
  PROVE  /\ MicStays => v.filtering = {}
         /\ Steady => v.lk # "reconnecting"
         /\ Disconnected => v.filtering = {}
         /\ Connected => v.mic \/ v.track = 0
         /\ Reconnecting => v.asked = v.mic /\ v.changes = <<>>
<1>1. /\ "filter starting" \notin Awkward /\ "room lost" \notin Awkward
      /\ "half on" \notin Awkward /\ "reconnecting" \notin Awkward
  BY DEF NoBadTiming
<1> QED BY <1>1 DEF MicStays, Steady, Disconnected, Connected, Reconnecting

\* What publishMic comes to when nothing of ours goes out yet.
Goes(x, w) ==
  \/ /\ w.lk # "connected"
     /\ x.published = w.published /\ x.sent = {} /\ x.filtering = {}
  \/ /\ w.lk = "connected" /\ w.noise
     /\ x.published = w.published /\ x.sent = {}
     /\ x.filtering = {[track |-> w.track, gone |-> FALSE]}
  \/ /\ w.lk = "connected" /\ ~w.noise
     /\ x.published = [track |-> w.track, filtered |-> FALSE]
     /\ x.sent = {x.published} /\ x.filtering = {}

LEMMA PublishMicGoes ==
  ASSUME NEW w, DOMAIN w = Fields, w.published.track = 0, w.sent = {}, w.filtering = {},
         w.track # 0, NEW x, x = PublishMic(w)
  PROVE  Goes(x, w)
<1>1. \/ w.lk # "connected" /\ x = w
      \/ /\ w.lk = "connected" /\ w.noise /\ Keeps(x, w, {"filtering"})
         /\ x.filtering = w.filtering \union {[track |-> w.track, gone |-> FALSE]}
      \/ w.lk = "connected" /\ ~w.noise /\ x = Publish(w, w.track, FALSE)
  BY PublishMicKeeps
<1>2. CASE w.lk # "connected" /\ x = w
  BY <1>2 DEF Goes
<1>3. CASE /\ w.lk = "connected" /\ w.noise /\ Keeps(x, w, {"filtering"})
           /\ x.filtering = w.filtering \union {[track |-> w.track, gone |-> FALSE]}
  <2>1. x.published = w.published /\ x.sent = {}
    BY <1>3 DEF Keeps, Fields
  <2>2. x.filtering = {[track |-> w.track, gone |-> FALSE]}
    BY <1>3
  <2> QED BY <1>3, <2>1, <2>2 DEF Goes
<1>4. CASE w.lk = "connected" /\ ~w.noise /\ x = Publish(w, w.track, FALSE)
  <2>1. PICK t, f : t = w.track /\ f = FALSE /\ x = Publish(w, t, f)
    BY <1>4
  <2>2. /\ Keeps(x, w, {"applied", "published", "sent", "going"})
        /\ x.published = [track |-> t, filtered |-> f]
        /\ x.sent = w.sent \union {x.published}
    BY <2>1, PublishKeeps
  <2>3. x.filtering = {} /\ x.sent = {x.published}
    BY <2>2 DEF Keeps, Fields
  <2>4. x.published = [track |-> w.track, filtered |-> FALSE]
    BY <2>1, <2>2
  <2> QED BY <1>4, <2>3, <2>4 DEF Goes
<1> QED BY <1>1, <1>2, <1>3, <1>4

\* The microphone on, with a track that Goes as w said.
LEMMA OutgoingGoes ==
  ASSUME NEW w, Goes(v', w), w.published = NoTrack, w.track # 0,
         v'.track = w.track, v'.noise = w.noise, v'.mic = TRUE,
         w.lk # "reconnecting", w.lk = "connected" => v'.lk = "connected",
         w.lk # "connected" => ~Linked'
  PROVE  Outgoing'
<1>1. w.published.track = 0
  BY DEF NoTrack
<1>2. CASE /\ w.lk # "connected"
           /\ v'.published = w.published /\ v'.sent = {} /\ v'.filtering = {}
  BY <1>1, <1>2 DEF Outgoing
<1>3. CASE /\ w.lk = "connected" /\ w.noise
           /\ v'.published = w.published /\ v'.sent = {}
           /\ v'.filtering = {[track |-> w.track, gone |-> FALSE]}
  BY <1>1, <1>3 DEF Outgoing, Linked
<1>4. CASE /\ w.lk = "connected" /\ ~w.noise
           /\ v'.published = [track |-> w.track, filtered |-> FALSE]
           /\ v'.sent = {v'.published} /\ v'.filtering = {}
  <2>1. v'.published.track = w.track
    BY <1>4
  <2> QED BY <1>4, <2>1 DEF Outgoing, Linked
<1> QED BY <1>2, <1>3, <1>4 DEF Goes

LEMMA OutgoingNothing ==
  ASSUME v'.published = NoTrack, v'.sent = {}, v'.filtering = {}, ~v'.mic \/ ~Linked'
  PROVE  Outgoing'
<1>1. v'.published.track = 0
  BY DEF NoTrack
<1> QED BY <1>1 DEF Outgoing

LEMMA OutgoingKept ==
  ASSUME Outgoing, v'.published = v.published, v'.sent = v.sent, v'.filtering = v.filtering,
         v'.track = v.track, v'.mic = v.mic, v'.noise = v.noise, Linked' = Linked
  PROVE  Outgoing'
BY DEF Outgoing

LEMMA OutgoingOff ==
  ASSUME Outgoing, ~v.mic
  PROVE  v.published = NoTrack /\ v.published.track = 0 /\ v.sent = {} /\ v.filtering = {}
BY DEF Outgoing

LEMMA TrackKept ==
  ASSUME TrackInv, UNCHANGED starting, v'.mic = v.mic, v'.asked = v.asked,
         v'.track = v.track, v'.raw = v.raw, v'.ask = v.ask,
         v'.changes # <<>> => v.changes # <<>> \/ v.mic
  PROVE  TrackInv'
BY DEF TrackInv

LEMMA QuietedKept ==
  ASSUME Quieted, v'.lk = "reconnecting" => v.lk = "reconnecting", v'.mic = v.mic,
         v'.asked = v.asked, AllEcho(v.changes) => AllEcho(v'.changes)
  PROVE  Quieted'
BY DEF Quieted

---------------------------------------------------------------------------------
(* The kinds of the changes that are queued.                               *)

LEMMA EchoTail ==
  ASSUME NEW c \in Seq(ChangeRecord), c # <<>>, AllEcho(c)
  PROVE  AllEcho(Tail(c))
BY HeadTailProperties DEF AllEcho

LEMMA EchoHead ==
  ASSUME NEW w, w.changes \in Seq(ChangeRecord), w.changes # <<>>, NEW stage, NEW x,
         HeadAt(x, w, stage), AllEcho(w.changes)
  PROVE  AllEcho(x.changes)
<1> DEFINE c == w.changes
           k == Constraints(w)
<1>1. /\ c \in Seq(ChangeRecord) /\ c # <<>>
      /\ x.changes = [c EXCEPT ![1] = [@ EXCEPT !.at = stage, !.to = k]]
  BY DEF HeadAt
<1> HIDE DEF c, k
<1>2. c[1] \in ChangeRecord /\ Len(c) \in Nat /\ Len(c) > 0
  BY <1>1
<1>3. [c[1] EXCEPT !.at = stage, !.to = k].kind = c[1].kind
  BY <1>2 DEF ChangeRecord
<1>4. Len(x.changes) = Len(c) /\ \A i \in 1 .. Len(c) : x.changes[i].kind = c[i].kind
  BY <1>1, <1>2, <1>3
<1> QED BY <1>4 DEF AllEcho, c

LEMMA EchoProceeds ==
  ASSUME NEW w, w.changes \in Seq(ChangeRecord), w.changes # <<>>, NEW x, Proceeds(x, w),
         AllEcho(w.changes)
  PROVE  AllEcho(x.changes)
BY EchoTail, EchoHead DEF Proceeds

LEMMA EchoQueues ==
  ASSUME NEW w, w.changes \in Seq(ChangeRecord), NEW x, Queues(x, w, "echo"), AllEcho(w.changes)
  PROVE  AllEcho(x.changes)
<1> DEFINE c == w.changes
           e == [kind |-> "echo", rev |-> x.rev, ask |-> w.ask, at |-> "wait",
                 to |-> Constraints(x)]
<1>1. c \in Seq(ChangeRecord) /\ x.changes = Append(c, e) /\ e.kind = "echo" /\ AllEcho(c)
  BY DEF Queues
<1> HIDE DEF c, e
<1>2. /\ Len(x.changes) = Len(c) + 1 /\ Len(c) \in Nat
      /\ \A i \in 1 .. Len(c) : x.changes[i] = c[i]
      /\ x.changes[Len(c) + 1] = e
  BY <1>1
<1> QED BY <1>1, <1>2 DEF AllEcho

LEMMA EchoEmpty == AllEcho(<<>>)
BY EmptySeq DEF AllEcho

---------------------------------------------------------------------------------
(* The steps.                                                              *)

\* startMic goes on, or ends: the microphone is on with a track that goes out, or is
\* about to, or it waits for the browser.
LEMMA HeardStarts ==
  ASSUME TypeInv, CaptureInv, HeardInv, NEW r \in Asks, r = v.ask,
         starting[r].at \in {"resume", "apply"},
         NEW w, Keeps(w, v, {"track"}), w.track = r, Started(w, r)
  PROVE  HeardInv'
<1>0. /\ Shape /\ DOMAIN w = Fields /\ v.changes \in Seq(ChangeRecord)
      /\ starting \in [Asks -> [at : Stages, echo : BOOLEAN]] /\ r # 0
  BY DEF TypeInv, Keeps, Asks
<1>1. v.raw = r /\ v.asked /\ ~v.mic /\ v.changes = <<>>
  BY DEF CaptureInv, HeardInv, TrackInv
<1>2. v.published = NoTrack /\ v.published.track = 0 /\ v.sent = {} /\ v.filtering = {}
  BY <1>1, OutgoingOff DEF HeardInv
<1>3. v.lk # "reconnecting"
  BY <1>1 DEF HeardInv, Quieted
<1>4. /\ w.published = v.published /\ w.sent = v.sent /\ w.filtering = v.filtering
      /\ w.lk = v.lk /\ w.mic = v.mic /\ w.asked = v.asked /\ w.raw = v.raw
      /\ w.ask = v.ask /\ w.changes = v.changes
  BY DEF Keeps, Fields
<1>5. CASE /\ Keeps(v', w, {"applied"})
           /\ starting' = [starting EXCEPT ![r] = [at |-> "apply", echo |-> w.echo]]
  <2>1. /\ v'.published = w.published /\ v'.sent = w.sent /\ v'.filtering = w.filtering
        /\ v'.lk = w.lk /\ v'.mic = w.mic /\ v'.asked = w.asked /\ v'.raw = w.raw
        /\ v'.ask = w.ask /\ v'.changes = w.changes /\ v'.track = w.track
    BY <1>5 DEF Keeps, Fields
  <2>2. Outgoing'
    BY <1>1, <1>2, <1>4, <2>1, OutgoingNothing
  <2>3. starting'[r].at = "apply"
    BY <1>0, <1>5
  <2>4. TrackInv'
    BY <1>0, <1>1, <1>4, <2>1, <2>3 DEF TrackInv
  <2>5. Quieted'
    BY <1>3, <1>4, <2>1 DEF Quieted
  <2> QED BY <2>2, <2>4, <2>5 DEF HeardInv
<1>6. ASSUME NEW u, Keeps(u, w, {"micEcho"}), NEW p, p = PublishMic(u),
             Keeps(v', p, {"mic", "asking", "spaced", "lk", "lkRoom"}), v'.mic = TRUE,
             MayConnect(v', p), Stop(r)
      PROVE  HeardInv'
  <2>1. /\ DOMAIN u = Fields /\ u.published = w.published /\ u.sent = w.sent
        /\ u.filtering = w.filtering /\ u.lk = w.lk /\ u.asked = w.asked /\ u.raw = w.raw
        /\ u.ask = w.ask /\ u.changes = w.changes /\ u.track = r
    BY <1>6 DEF Keeps, Fields
  <2>2. Goes(p, u)
    BY <1>0, <1>2, <1>4, <1>6, <2>1, PublishMicGoes
  <2>3. Keeps(p, u, {"applied", "published", "sent", "going", "filtering"})
    BY <1>6, <2>1, PublishMicKeeps, Zenon
  <2>4. /\ p.lk = u.lk /\ v'.track = u.track /\ v'.noise = u.noise /\ v'.asked = u.asked
        /\ v'.raw = u.raw /\ v'.ask = u.ask /\ v'.changes = u.changes
        /\ v'.published = p.published /\ v'.sent = p.sent /\ v'.filtering = p.filtering
    BY <1>6, <2>3 DEF Keeps, Fields
  <2>5. Goes(v', u)
    BY <2>2, <2>4 DEF Goes
  <2>6. /\ v'.lk # "reconnecting" /\ (u.lk = "connected" => v'.lk = "connected")
        /\ (u.lk # "connected" => ~Linked')
    BY <1>3, <1>4, <1>6, <2>1, <2>4 DEF MayConnect, Linked
  <2>7. Outgoing'
    BY <1>0, <1>2, <1>3, <1>4, <1>6, <2>1, <2>4, <2>5, <2>6, OutgoingGoes
  <2>8. starting'[r].at = "idle"
    BY <1>0, <1>6 DEF Stop, Idle
  <2>9. TrackInv'
    <3>1. v'.track = r /\ v'.raw = r /\ v'.ask = r /\ v'.asked /\ v'.changes = <<>>
      BY <1>1, <1>4, <2>1, <2>4
    <3> QED BY <1>0, <2>8, <3>1, <1>6 DEF TrackInv
  <2>10. Quieted'
    BY <2>6 DEF Quieted
  <2> QED BY <2>7, <2>9, <2>10 DEF HeardInv
<1> QED BY <1>0, <1>5, <1>6, StartedDoes

LEMMA HeardStops ==
  ASSUME TypeInv, HeardInv, NEW r \in Asks, Stop(r), v' = v
  PROVE  HeardInv'
<1>1. starting \in [Asks -> [at : Stages, echo : BOOLEAN]]
  BY DEF TypeInv
<1>2. \A q \in Asks : starting'[q].at \in {starting[q].at, "idle"}
  BY <1>1 DEF Stop, Idle
<1>3. TrackInv'
  <2>1. \A q \in Asks : starting'[q].at # "idle" => starting'[q].at = starting[q].at
    BY <1>2
  <2> QED BY <2>1 DEF HeardInv, TrackInv
<1>4. Outgoing' /\ Quieted'
  BY DEF HeardInv, Outgoing, Quieted, Linked
<1> QED BY <1>3, <1>4 DEF HeardInv

\* A change is taken further: published anew, its constraints asked for, or done.
LEMMA HeardChanges ==
  ASSUME NoBadTiming, TypeInv, HeardInv, ChangeRuns
  PROVE  HeardInv'
<1>0. Shape /\ v.changes \in Seq(ChangeRecord)
  BY DEF TypeInv
<1>1. /\ Keeps(v', v, {"changes", "applied", "published", "sent", "going", "filtering"})
      /\ UNCHANGED starting
      /\ v.changes # <<>>
  BY <1>0, ChangeRunsDoes DEF TurnOfChange
<1>2. /\ v'.lk = v.lk /\ v'.mic = v.mic /\ v'.asked = v.asked /\ v'.raw = v.raw
      /\ v'.ask = v.ask /\ v'.track = v.track /\ v'.noise = v.noise
  BY <1>1 DEF Keeps, Fields
<1>3. TrackInv'
  BY <1>1, <1>2, TrackKept DEF HeardInv
<1>4. CASE \/ Proceeds(v', v)
           \/ Keeps(v', v, {"changes"}) /\ v'.changes = Tail(v.changes)
           \/ Keeps(v', v, {"applied", "changes"}) /\ HeadAt(v', v, "apply")
  <2>1. v'.published = v.published /\ v'.sent = v.sent /\ v'.filtering = v.filtering
    BY <1>4 DEF Proceeds, Keeps, Fields
  <2>2. Outgoing'
    BY <1>2, <2>1, OutgoingKept DEF HeardInv, Linked
  <2>3. AllEcho(v.changes) => AllEcho(v'.changes)
    BY <1>0, <1>1, <1>4, EchoTail, EchoHead, EchoProceeds
  <2>4. Quieted'
    BY <1>2, <2>3, QuietedKept DEF HeardInv
  <2> QED BY <1>3, <2>2, <2>4 DEF HeardInv
<1>5. ASSUME Head(v.changes).kind # "echo", v.published.track # 0,
             NEW u, NEW p, u = UnpublishMic(v), p = PublishMic(u),
             Keeps(v', p, {"changes"})
      PROVE  HeardInv'
  <2>1. v.mic /\ v.published.track = v.track /\ Linked /\ v.filtering = {} /\ v.track # 0
        /\ v.sent = {v.published}
    BY <1>5 DEF HeardInv, Outgoing
  <2>2. v.lk = "connected"
    <3>1. Len(v.changes) > 0 /\ Head(v.changes) = v.changes[1] /\ Len(v.changes) \in Nat
      BY <1>0, <1>1
    <3>2. ~AllEcho(v.changes)
      BY <1>5, <3>1 DEF AllEcho
    <3> QED BY <2>1, <3>2 DEF HeardInv, Quieted, Linked
  <2>3. /\ Keeps(u, v, {"published", "sent", "going"}) /\ u.published = NoTrack
        /\ u.sent = v.sent \ {v.published}
    BY <1>0, <1>5, UnpublishMicKeeps DEF Shape
  <2>4. /\ DOMAIN u = Fields /\ u.filtering = {} /\ u.sent = {} /\ u.track = v.track
        /\ u.lk = "connected" /\ u.noise = v.noise /\ u.published.track = 0
    BY <2>1, <2>2, <2>3 DEF Keeps, Fields, NoTrack
  <2>5. Goes(p, u)
    BY <1>5, <2>1, <2>4, PublishMicGoes
  <2>6. v'.published = p.published /\ v'.sent = p.sent /\ v'.filtering = p.filtering
    BY <1>5 DEF Keeps, Fields
  <2>7. Goes(v', u)
    BY <2>5, <2>6 DEF Goes
  <2>8. v'.mic = TRUE
    <3>1. v'.mic \in BOOLEAN /\ v'.mic
      BY <1>2, <2>1 DEF TypeInv
    <3> QED BY <3>1
  <2>9. Outgoing'
    BY <1>2, <2>1, <2>2, <2>3, <2>4, <2>7, <2>8, OutgoingGoes
  <2>10. Quieted'
    BY <1>2, <2>2 DEF Quieted
  <2> QED BY <1>3, <2>9, <2>10 DEF HeardInv
<1> QED BY <1>0, <1>4, <1>5, ChangeRunsDoes

\* The filter has started, or failed: the track goes out.
LEMMA HeardFiltered ==
  ASSUME TypeInv, HeardInv, NEW x \in v.filtering, NEW ok \in BOOLEAN, FilterStarts(x, ok)
  PROVE  HeardInv'
<1>0. Shape /\ v.changes \in Seq(ChangeRecord)
  BY DEF TypeInv
<1>1. /\ Keeps(v', v, {"filtering", "noise", "published", "applied", "sent", "going"})
      /\ UNCHANGED starting
  BY <1>0, FilterStartsDoes
<1>2. /\ v'.lk = v.lk /\ v'.mic = v.mic /\ v'.asked = v.asked /\ v'.raw = v.raw
      /\ v'.ask = v.ask /\ v'.track = v.track /\ v'.changes = v.changes
  BY <1>1 DEF Keeps, Fields
<1>3. /\ x = [track |-> v.track, gone |-> FALSE] /\ v.filtering = {x}
      /\ v.mic /\ v.published.track = 0 /\ Linked /\ v.track # 0 /\ v.sent = {}
  BY DEF HeardInv, Outgoing, TrackInv
<1>4. TrackInv'
  BY <1>1, <1>2, TrackKept DEF HeardInv
<1>5. PICK w, p :
        /\ Keeps(w, v, {"filtering", "noise"})
        /\ w.filtering = v.filtering \ {x}
        /\ p = Publish(w, x.track, ok)
        /\ IF x.gone THEN Keeps(v', p, {"sent"}) ELSE v' = p
  BY <1>0, FilterStartsDoes
<1>6. p = Publish(w, v.track, ok) /\ v' = p
  BY <1>3, <1>5
<1>7. DOMAIN w = Fields /\ w.filtering = {} /\ w.sent = {}
  BY <1>3, <1>5 DEF Keeps, Fields
<1>8. /\ Keeps(p, w, {"applied", "published", "sent", "going"})
      /\ p.published = [track |-> v.track, filtered |-> ok]
      /\ p.sent = w.sent \union {p.published}
  BY <1>6, <1>7, PublishKeeps
<1>9. v'.filtering = {} /\ v'.sent = {v'.published} /\ v'.published.track = v.track
  BY <1>6, <1>7, <1>8 DEF Keeps, Fields
<1>10. Outgoing'
  BY <1>2, <1>3, <1>9 DEF Outgoing, Linked
<1>11. Quieted'
  BY <1>2, QuietedKept DEF HeardInv
<1> QED BY <1>4, <1>10, <1>11 DEF HeardInv

\* A publication ends: the track goes out, or LiveKit refuses it.
LEMMA HeardPublished ==
  ASSUME TypeInv, HeardInv, NEW x \in v.going, NEW ok \in BOOLEAN, PublishEnds(x, ok)
  PROVE  HeardInv'
<1>1. /\ Keeps(v', v, {"going", "sent", "published"}) /\ UNCHANGED starting
      /\ \/ v'.sent = v.sent /\ v'.published = v.published
         \/ /\ x \in v.sent => "publish fails" \in Awkward
            /\ v'.sent = v.sent \ {x}
            /\ v'.published = IF v.published = x THEN NoTrack ELSE v.published
  BY PublishEndsDoes DEF TypeInv
<1>2. /\ v'.lk = v.lk /\ v'.mic = v.mic /\ v'.asked = v.asked /\ v'.raw = v.raw
      /\ v'.ask = v.ask /\ v'.track = v.track /\ v'.changes = v.changes
      /\ v'.filtering = v.filtering /\ v'.noise = v.noise
  BY <1>1 DEF Keeps, Fields
<1>3. TrackInv' /\ Quieted'
  BY <1>1, <1>2, TrackKept, QuietedKept DEF HeardInv
<1>4. NoTrack.track = 0
  BY DEF NoTrack
<1>5. /\ v.sent = IF v.published.track = 0 THEN {} ELSE {v.published}
      /\ v.published.track = 0 => v.published = NoTrack
  BY DEF HeardInv, Outgoing
<1>6. CASE v'.sent = v.sent /\ v'.published = v.published
  BY <1>2, <1>3, <1>6, OutgoingKept DEF HeardInv, Linked
<1>7. CASE x \in v.sent /\ "publish fails" \in Awkward /\ v'.sent = v.sent \ {x}
           /\ v'.published = IF v.published = x THEN NoTrack ELSE v.published
  <2>1. v'.published = NoTrack /\ v'.sent = {} /\ v.filtering = {}
    BY <1>5, <1>7 DEF HeardInv, Outgoing
  <2>2. Outgoing'
    BY <1>2, <1>4, <1>7, <2>1 DEF Outgoing
  <2> QED BY <1>3, <2>2 DEF HeardInv
<1>8. CASE x \notin v.sent /\ v'.sent = v.sent \ {x}
           /\ v'.published = IF v.published = x THEN NoTrack ELSE v.published
  <2>1. v'.sent = v.sent /\ v'.published = v.published
    BY <1>5, <1>8
  <2> QED BY <1>6, <2>1
<1> QED BY <1>1, <1>6, <1>7, <1>8

LEMMA HeardStep ==
  ASSUME NoBadTiming, TypeInv, CaptureInv, HeardInv, [Next]_vars
  PROVE  HeardInv'
<1>0. /\ Shape /\ v.changes \in Seq(ChangeRecord) /\ v.ask \in Nat
      /\ starting \in [Asks -> [at : Stages, echo : BOOLEAN]]
      /\ TrackInv /\ Outgoing /\ Quieted
  BY DEF TypeInv, HeardInv
<1>1. ASSUME NEW r \in Rooms, EnterRoom(r) PROVE HeardInv'
  <2>1. /\ Keeps(v', v, {"room", "spaced", "asking", "lk", "lkRoom", "published", "sent", "going",
                         "audio", "filtering"})
        /\ v.room = None /\ v'.published = NoTrack /\ v'.sent = {}
        /\ v'.filtering = Left(v.filtering) /\ v'.lk # "reconnecting"
        /\ UNCHANGED starting
    BY <1>0, <1>1, EnterRoomDoes
  <2>2. /\ v'.mic = v.mic /\ v'.asked = v.asked /\ v'.raw = v.raw
        /\ v'.ask = v.ask /\ v'.track = v.track /\ v'.changes = v.changes
    BY <2>1 DEF Keeps, Fields
  <2>3. ~v.mic
    BY <1>0, <2>1 DEF CaptureInv, TrackInv
  <2>4. v'.filtering = {}
    BY <1>0, <2>1, <2>3, OutgoingOff DEF Left
  <2>5. Outgoing'
    BY <2>1, <2>2, <2>3, <2>4, OutgoingNothing
  <2>6. TrackInv'
    BY <1>0, <2>1, <2>2, TrackKept
  <2>7. Quieted'
    BY <2>1 DEF Quieted
  <2> QED BY <2>5, <2>6, <2>7 DEF HeardInv
<1>2. CASE LeaveRoom
  <2>1. /\ v'.mic = FALSE /\ v'.ask = v.ask + 1 /\ v'.lk = "none"
        /\ v'.published = NoTrack /\ v'.sent = {} /\ v'.filtering = Left(v.filtering)
        /\ v'.raw = 0 /\ v'.track = 0 /\ v'.changes = <<>> /\ UNCHANGED starting
    BY <1>0, <1>2, LeaveRoomDoes
  <2>2. v'.filtering = {}
    BY <1>2, <2>1, Undisturbed DEF LeaveRoom, Left
  <2>3. Outgoing'
    BY <2>1, <2>2, OutgoingNothing
  <2>4. TrackInv'
    <3>1. \A r \in Asks : starting[r].at # "idle" => r # v.ask + 1
      BY <1>0 DEF CaptureInv, Asks
    <3> QED BY <2>1, <3>1 DEF TrackInv
  <2>5. Quieted'
    BY <2>1 DEF Quieted
  <2> QED BY <2>3, <2>4, <2>5 DEF HeardInv
<1>3. CASE \/ TokenArrives \/ TokenRefused \/ SpacingEnds \/ TokenAges \/ SocketDrops
           \/ SocketReturns \/ RetryFires \/ ConnectFails \/ PeerSpeaks \/ PeerStops
           \/ SetSpeaker \/ ToggleMutePeer
  <2>1. /\ Keeps(v', v, {"asking", "token", "spaced", "socket", "retry", "lk", "lkRoom", "audio",
                         "speaker", "muted"})
        /\ \/ v'.lk = v.lk
           \/ ~Linked /\ ~Linked'
        /\ UNCHANGED starting
    <3>1. CASE TokenArrives
      <4>1. /\ Keeps(v', v, {"asking", "token", "spaced", "lk", "lkRoom"})
            /\ \/ v'.lk = v.lk
               \/ /\ v.lk \notin {"connecting", "connected", "reconnecting"}
                  /\ v'.lk = "connecting"
            /\ UNCHANGED starting
        BY <1>0, <3>1, TokenArrivesDoes
      <4> QED BY <4>1 DEF Keeps, Linked
    <3>2. CASE TokenRefused \/ SpacingEnds \/ TokenAges \/ SocketDrops
      <4>1. Keeps(v', v, {"asking", "token", "spaced", "socket"}) /\ UNCHANGED starting
        BY <1>0, <3>2, TokenWearsOut
      <4> QED BY <4>1 DEF Keeps, Fields
    <3>3. CASE SocketReturns \/ RetryFires \/ SetSpeaker
      <4>1. /\ \/ Keeps(v', v, {"socket", "asking", "spaced", "lk", "lkRoom"})
               \/ Keeps(v', v, {"retry", "asking", "spaced", "lk", "lkRoom"})
               \/ Keeps(v', v, {"speaker", "asking", "spaced", "lk", "lkRoom", "audio"})
            /\ MayConnect(v', v) /\ UNCHANGED starting
        BY <1>0, <3>3, SocketReturnsDoes, RetryFiresDoes, SetSpeakerDoes
      <4> QED BY <4>1 DEF Keeps, Linked, MayConnect
    <3>4. CASE ConnectFails
      <4>1. /\ Keeps(v', v, {"lk", "lkRoom", "token"}) /\ v.lk = "connecting" /\ v'.lk = "idle"
            /\ UNCHANGED starting
        BY <1>0, <3>4, ConnectFailsDoes
      <4> QED BY <4>1 DEF Keeps, Linked
    <3>5. CASE PeerSpeaks \/ PeerStops \/ ToggleMutePeer
      <4>1. (Keeps(v', v, {"audio"}) \/ Keeps(v', v, {"muted", "audio"})) /\ UNCHANGED starting
        BY <1>0, <3>5, PeerDoes, ToggleMutePeerDoes
      <4> QED BY <4>1 DEF Keeps, Fields
    <3> QED BY <1>3, <3>1, <3>2, <3>3, <3>4, <3>5
  <2>2. /\ v'.mic = v.mic /\ v'.asked = v.asked /\ v'.raw = v.raw
        /\ v'.ask = v.ask /\ v'.track = v.track /\ v'.changes = v.changes
        /\ v'.published = v.published /\ v'.sent = v.sent /\ v'.filtering = v.filtering
        /\ v'.noise = v.noise
    BY <2>1 DEF Keeps, Fields
  <2>3. TrackInv'
    BY <1>0, <2>1, <2>2, TrackKept
  <2>4. Linked' = Linked /\ (v'.lk = "reconnecting" => v.lk = "reconnecting")
    BY <2>1 DEF Linked
  <2>5. Outgoing' /\ Quieted'
    BY <1>0, <2>2, <2>4, OutgoingKept, QuietedKept
  <2> QED BY <2>3, <2>5 DEF HeardInv
<1>4. CASE Connected
  <2>1. PICK w : w = [v EXCEPT !.lk = "connected"]
    OBVIOUS
  <2>2. /\ Keeps(v', v, {"lk", "applied", "published", "sent", "going", "filtering"})
        /\ Keeps(w, v, {"lk"}) /\ w.lk = "connected" /\ v'.lk = "connected"
        /\ v' = PublishMic(w) /\ v.lk = "connecting" /\ UNCHANGED starting
    BY <1>0, <1>4, <2>1, ConnectedDoes
  <2>3. /\ v'.mic = v.mic /\ v'.asked = v.asked /\ v'.raw = v.raw
        /\ v'.ask = v.ask /\ v'.track = v.track /\ v'.changes = v.changes
        /\ v'.noise = v.noise
        /\ DOMAIN w = Fields /\ w.published = v.published /\ w.sent = v.sent
        /\ w.filtering = v.filtering /\ w.track = v.track /\ w.noise = v.noise
    BY <2>2 DEF Keeps, Fields
  <2>4. v.published.track = 0 /\ v.published = NoTrack /\ v.sent = {} /\ v.filtering = {}
    BY <1>0, <2>2 DEF Outgoing, Linked
  <2>5. Outgoing'
    <3>1. CASE v.track = 0
      <4>1. ~v.mic
        BY <1>0, <3>1 DEF TrackInv
      <4>2. v' = w
        BY <2>2, <2>3, <3>1 DEF PublishMic
      <4> QED BY <2>3, <2>4, <4>1, <4>2, OutgoingNothing
    <3>2. CASE v.track # 0
      <4>1. v.mic
        BY <1>4, <3>2, Undisturbed
      <4>2. v'.mic = TRUE
        <5>1. v'.mic \in BOOLEAN /\ v'.mic
          BY <2>3, <4>1 DEF TypeInv
        <5> QED BY <5>1
      <4>3. Goes(v', w)
        BY <2>2, <2>3, <2>4, <3>2, PublishMicGoes
      <4> QED BY <2>2, <2>3, <2>4, <3>2, <4>2, <4>3, OutgoingGoes
    <3> QED BY <3>1, <3>2
  <2>6. TrackInv'
    BY <1>0, <2>2, <2>3, TrackKept
  <2>7. Quieted'
    BY <2>2 DEF Quieted
  <2> QED BY <2>5, <2>6, <2>7 DEF HeardInv
<1>5. CASE Disconnected
  <2>1. /\ Keeps(v', v, {"lk", "lkRoom", "published", "sent", "going", "audio", "filtering",
                         "retry", "asking", "spaced"})
        /\ v'.lk = "none" /\ v'.published = NoTrack /\ v'.sent = {}
        /\ v'.filtering = Left(v.filtering) /\ UNCHANGED starting
    BY <1>0, <1>5, DisconnectedDoes
  <2>2. /\ v'.mic = v.mic /\ v'.asked = v.asked /\ v'.raw = v.raw
        /\ v'.ask = v.ask /\ v'.track = v.track /\ v'.changes = v.changes
    BY <2>1 DEF Keeps, Fields
  <2>3. v'.filtering = {}
    BY <1>5, <2>1, Undisturbed DEF Left
  <2>4. Outgoing'
    BY <2>1, <2>3, OutgoingNothing DEF Linked
  <2>5. TrackInv'
    BY <1>0, <2>1, <2>2, TrackKept
  <2>6. Quieted'
    BY <2>1 DEF Quieted
  <2> QED BY <2>4, <2>5, <2>6 DEF HeardInv
<1>6. CASE Reconnecting \/ Reconnected
  <2>1. /\ Keeps(v', v, {"lk"}) /\ {v.lk, v'.lk} = {"connected", "reconnecting"}
        /\ UNCHANGED starting
    BY <1>0, <1>6, LinkMends
  <2>2. /\ v'.mic = v.mic /\ v'.asked = v.asked /\ v'.raw = v.raw
        /\ v'.ask = v.ask /\ v'.track = v.track /\ v'.changes = v.changes
        /\ v'.published = v.published /\ v'.sent = v.sent /\ v'.filtering = v.filtering
        /\ v'.noise = v.noise
    BY <2>1 DEF Keeps, Fields
  <2>3. TrackInv' /\ Outgoing'
    <3>1. TrackInv'
      BY <1>0, <2>1, <2>2, TrackKept
    <3>2. Linked /\ Linked'
      BY <2>1 DEF Linked
    <3>3. Outgoing'
      BY <1>0, <2>2, <3>2, OutgoingKept
    <3> QED BY <3>1, <3>3
  <2>4. Quieted'
    <3>1. CASE Reconnecting
      BY <2>2, <3>1, Undisturbed, EchoEmpty DEF Quieted
    <3>2. CASE Reconnected
      <4>1. v'.lk # "reconnecting"
        BY <2>1, <3>2 DEF Reconnected
      <4> QED BY <4>1 DEF Quieted
    <3> QED BY <1>6, <3>1, <3>2
  <2> QED BY <2>3, <2>4 DEF HeardInv
<1>7. CASE SetMicOn
  <2>1. /\ Keeps(v', v, {"asked", "ask"}) /\ v'.asked = TRUE /\ v'.ask = v.ask + 1
        /\ ~v.asked
        /\ starting' = [starting EXCEPT ![v.ask + 1] = [at |-> "permission", echo |-> v.echo]]
    BY <1>0, <1>7, SetMicOnDoes
  <2>2. /\ v'.mic = v.mic /\ v'.raw = v.raw /\ v'.lk = v.lk
        /\ v'.track = v.track /\ v'.changes = v.changes
        /\ v'.published = v.published /\ v'.sent = v.sent /\ v'.filtering = v.filtering
        /\ v'.noise = v.noise
    BY <2>1 DEF Keeps, Fields
  <2>3. v.lk # "reconnecting"
    BY <1>7, Undisturbed DEF SetMicOn
  <2>4. ~v.mic /\ v.raw = 0 /\ v.track = 0
    BY <1>0, <2>1 DEF CaptureInv, TrackInv
  <2>5. \A q \in Asks : /\ q = v.ask + 1 => starting'[q].at = "permission"
                        /\ q # v.ask + 1 => starting'[q] = starting[q]
    BY <1>0, <2>1
  <2>6. TrackInv'
    BY <1>0, <2>1, <2>2, <2>4, <2>5 DEF TrackInv
  <2>7. Outgoing' /\ Quieted'
    BY <1>0, <2>2, <2>3, OutgoingKept DEF Linked, Quieted
  <2> QED BY <2>6, <2>7 DEF HeardInv
<1>8. CASE SetMicOff
  <2>1. /\ Keeps(v', v, {"asked", "ask", "mic", "published", "sent", "going", "hw", "raw", "track",
                         "changes"})
        /\ v'.asked = FALSE /\ v'.ask = v.ask + 1 /\ v'.mic = FALSE
        /\ v'.published = NoTrack /\ v'.sent = v.sent \ {v.published}
        /\ v'.raw = 0 /\ v'.track = 0 /\ v'.changes = <<>>
        /\ UNCHANGED starting
    BY <1>0, <1>8, SetMicOffDoes
  <2>2. v'.filtering = v.filtering
    BY <2>1 DEF Keeps, Fields
  <2>3. v.filtering = {}
    BY <1>8, Undisturbed DEF SetMicOff
  <2>4. v'.sent = {}
    BY <1>0, <2>1 DEF Outgoing
  <2>5. Outgoing'
    BY <2>1, <2>2, <2>3, <2>4, OutgoingNothing
  <2>6. TrackInv'
    <3>1. \A r \in Asks : starting[r].at # "idle" => r # v.ask + 1
      BY <1>0 DEF CaptureInv, Asks
    <3> QED BY <2>1, <3>1 DEF TrackInv
  <2>7. Quieted'
    BY <2>1, EchoEmpty DEF Quieted
  <2> QED BY <2>5, <2>6, <2>7 DEF HeardInv
<1>9. ASSUME NEW r \in Asks, PermissionGranted(r) PROVE HeardInv'
  <2>1. starting[r].at = "permission"
    BY <1>0, <1>9, PermissionGrantedDoes
  <2>2. CASE Stop(r) /\ v' = v
    BY <2>2, HeardStops
  <2>3. CASE /\ r = v.ask /\ starting' = [starting EXCEPT ![r].at = "resume"]
             /\ Keeps(v', v, {"raw", "applied", "hw"}) /\ v'.raw = r
    <3>1. /\ v'.mic = v.mic /\ v'.asked = v.asked /\ v'.lk = v.lk /\ v'.ask = v.ask
          /\ v'.track = v.track /\ v'.changes = v.changes
          /\ v'.published = v.published /\ v'.sent = v.sent /\ v'.filtering = v.filtering
          /\ v'.noise = v.noise
      BY <2>3 DEF Keeps, Fields
    <3>2. ~v.mic /\ v.track = 0
      BY <1>0, <2>1, <2>3 DEF TrackInv
    <3>3. \A q \in Asks : starting'[q].at = IF q = r THEN "resume" ELSE starting[q].at
      BY <1>0, <2>3
    <3>4. TrackInv'
      BY <1>0, <2>3, <3>1, <3>2, <3>3 DEF TrackInv
    <3>5. Outgoing' /\ Quieted'
      BY <1>0, <3>1, OutgoingKept, QuietedKept DEF Linked
    <3> QED BY <3>4, <3>5 DEF HeardInv
  <2> QED BY <1>0, <1>9, <2>2, <2>3, PermissionGrantedDoes
<1>10. ASSUME NEW r \in Asks, PermissionDenied(r) PROVE HeardInv'
  <2>1. starting[r].at = "permission" /\ Stop(r)
    BY <1>0, <1>10, PermissionDeniedDoes
  <2>2. CASE v' = v
    BY <2>1, <2>2, HeardStops
  <2>3. CASE r = v.ask /\ Keeps(v', v, {"asked"}) /\ v'.asked = FALSE
    <3>1. /\ v'.mic = v.mic /\ v'.raw = v.raw /\ v'.lk = v.lk /\ v'.ask = v.ask
          /\ v'.track = v.track /\ v'.changes = v.changes
          /\ v'.published = v.published /\ v'.sent = v.sent /\ v'.filtering = v.filtering
          /\ v'.noise = v.noise
      BY <2>3 DEF Keeps, Fields
    <3>2. ~v.mic /\ v.asked
      BY <1>0, <2>1, <2>3 DEF TrackInv, CaptureInv
    <3>3. \A q \in Asks : starting'[q].at = IF q = r THEN "idle" ELSE starting[q].at
      BY <1>0, <2>1 DEF Stop, Idle
    <3>4. TrackInv'
      BY <1>0, <2>3, <3>1, <3>2, <3>3 DEF TrackInv
    <3>5. Outgoing'
      BY <1>0, <3>1, OutgoingKept DEF Linked
    <3>6. Quieted'
      BY <1>0, <3>1, <3>2 DEF Quieted
    <3> QED BY <3>4, <3>5, <3>6 DEF HeardInv
  <2> QED BY <1>0, <1>10, <2>2, <2>3, PermissionDeniedDoes
<1>11. ASSUME NEW r \in Asks, GraphResumed(r) PROVE HeardInv'
  <2>1. starting[r].at = "resume"
    BY <1>0, <1>11, GraphResumedDoes
  <2>2. CASE Stop(r) /\ v' = v
    BY <2>2, HeardStops
  <2>3. ASSUME r = v.ask, NEW w, Keeps(w, v, {"track"}), w.track = r, Started(w, r)
        PROVE  HeardInv'
    BY <2>1, <2>3, HeardStarts
  <2> QED BY <1>0, <1>11, <2>2, <2>3, GraphResumedDoes
<1>12. ASSUME NEW r \in Asks, ChoiceApplied(r) PROVE HeardInv'
  <2>1. starting[r].at = "apply"
    BY <1>0, <1>12, ChoiceAppliedDoes
  <2>2. CASE Stop(r) /\ v' = v
    BY <2>2, HeardStops
  <2>3. CASE r = v.ask /\ Started(v, r)
    <3>1. Keeps(v, v, {"track"})
      BY <1>0 DEF Shape, Keeps
    <3>2. v.track = r
      BY <1>0, <2>1, <2>3 DEF TrackInv, CaptureInv
    <3> QED BY <2>1, <2>3, <3>1, <3>2, HeardStarts
  <2>4. CASE /\ r = v.ask /\ Stop(r)
             /\ Keeps(v', v, {"hw", "raw", "track", "changes", "asked"})
             /\ v'.raw = 0 /\ v'.track = 0 /\ v'.changes = <<>> /\ v'.asked = FALSE
    <3>1. /\ v'.mic = v.mic /\ v'.lk = v.lk /\ v'.ask = v.ask
          /\ v'.published = v.published /\ v'.sent = v.sent /\ v'.filtering = v.filtering
      BY <2>4 DEF Keeps, Fields
    <3>2. ~v.mic /\ v.asked
      BY <1>0, <2>1, <2>4 DEF TrackInv, CaptureInv
    <3>3. \A q \in Asks : starting'[q].at = IF q = r THEN "idle" ELSE starting[q].at
      BY <1>0, <2>4 DEF Stop, Idle
    <3>4. TrackInv'
      BY <1>0, <2>4, <3>1, <3>2, <3>3 DEF TrackInv
    <3>5. Outgoing'
      BY <1>0, <3>1, <3>2, OutgoingOff, OutgoingNothing
    <3>6. Quieted'
      BY <1>0, <3>1, <3>2 DEF Quieted
    <3> QED BY <3>4, <3>5, <3>6 DEF HeardInv
  <2> QED BY <1>0, <1>12, <2>2, <2>3, <2>4, ChoiceAppliedDoes
<1>13. CASE SetEchoCancellation \/ SetNoiseCancellation
  <2>1. /\ \/ Keeps(v', v, {"echo", "rev", "changes"}) /\ (v.mic => Queues(v', v, "echo"))
           \/ Keeps(v', v, {"noise", "rev", "changes"}) /\ MicStays /\ Steady
        /\ ~v.mic => v'.changes = v.changes
        /\ UNCHANGED starting
    BY <1>0, <1>13, SetChoiceDoes
  <2>2. /\ v'.mic = v.mic /\ v'.asked = v.asked /\ v'.raw = v.raw /\ v'.lk = v.lk
        /\ v'.ask = v.ask /\ v'.track = v.track
        /\ v'.published = v.published /\ v'.sent = v.sent /\ v'.filtering = v.filtering
    BY <2>1 DEF Keeps, Fields
  <2>3. TrackInv'
    BY <1>0, <2>1, <2>2, TrackKept
  <2>4. CASE Keeps(v', v, {"echo", "rev", "changes"}) /\ (v.mic => Queues(v', v, "echo"))
    <3>1. v'.noise = v.noise
      BY <2>4 DEF Keeps, Fields
    <3>2. AllEcho(v.changes) => AllEcho(v'.changes)
      BY <1>0, <2>1, <2>4, EchoQueues
    <3>3. Outgoing' /\ Quieted'
      BY <1>0, <2>2, <3>1, <3>2, OutgoingKept, QuietedKept DEF Linked
    <3> QED BY <2>3, <3>3 DEF HeardInv
  <2>5. CASE MicStays /\ Steady
    <3>1. v.filtering = {} /\ v.lk # "reconnecting"
      BY <2>5, Undisturbed
    <3>2. Outgoing' /\ Quieted'
      BY <1>0, <2>2, <3>1 DEF Outgoing, Quieted, Linked
    <3> QED BY <2>3, <3>2 DEF HeardInv
  <2> QED BY <2>1, <2>4, <2>5
<1>14. CASE ReloadSettings
  <2>1. /\ Keeps(v', v, {"echo", "noise", "muted", "audio", "applied", "changes"})
        /\ v.published.track # 0 \/ v'.changes = v.changes
        /\ MicStays /\ Steady /\ UNCHANGED starting
    BY <1>0, <1>14, ReloadSettingsDoes
  <2>2. /\ v'.mic = v.mic /\ v'.asked = v.asked /\ v'.raw = v.raw /\ v'.lk = v.lk
        /\ v'.ask = v.ask /\ v'.track = v.track
        /\ v'.published = v.published /\ v'.sent = v.sent /\ v'.filtering = v.filtering
    BY <2>1 DEF Keeps, Fields
  <2>3. v.published.track # 0 => v.mic
    BY <1>0 DEF Outgoing
  <2>4. TrackInv'
    BY <1>0, <2>1, <2>2, <2>3, TrackKept
  <2>5. v.filtering = {} /\ v.lk # "reconnecting"
    BY <2>1, Undisturbed
  <2>6. Outgoing' /\ Quieted'
    BY <1>0, <2>2, <2>5 DEF Outgoing, Quieted, Linked
  <2> QED BY <2>4, <2>6 DEF HeardInv
<1>15. CASE ChangeRuns
  BY <1>15, HeardChanges
<1>16. CASE ChangeApplied
  <2>1. /\ Keeps(v', v, {"changes", "micEcho", "echo"})
        /\ v.changes # <<>> /\ v'.changes = Tail(v.changes) /\ UNCHANGED starting
    BY <1>0, <1>16, ChangeAppliedDoes
  <2>2. /\ v'.mic = v.mic /\ v'.asked = v.asked /\ v'.raw = v.raw /\ v'.lk = v.lk
        /\ v'.ask = v.ask /\ v'.track = v.track /\ v'.noise = v.noise
        /\ v'.published = v.published /\ v'.sent = v.sent /\ v'.filtering = v.filtering
    BY <2>1 DEF Keeps, Fields
  <2>3. TrackInv'
    BY <1>0, <2>1, <2>2, TrackKept
  <2>4. AllEcho(v.changes) => AllEcho(v'.changes)
    BY <1>0, <2>1, EchoTail
  <2>5. Outgoing' /\ Quieted'
    BY <1>0, <2>2, <2>4, OutgoingKept, QuietedKept DEF Linked
  <2> QED BY <2>3, <2>5 DEF HeardInv
<1>17. ASSUME NEW x \in v.filtering, NEW ok \in BOOLEAN, FilterStarts(x, ok) PROVE HeardInv'
  BY <1>17, HeardFiltered
<1>18. ASSUME NEW x \in v.going, NEW ok \in BOOLEAN, PublishEnds(x, ok) PROVE HeardInv'
  BY <1>18, HeardPublished
<1>19. CASE UNCHANGED vars
  BY <1>0, <1>19, TrackKept, OutgoingKept, QuietedKept DEF vars, HeardInv, Linked
<1> QED
  BY <1>1, <1>2, <1>3, <1>4, <1>5, <1>6, <1>7, <1>8, <1>9, <1>10, <1>11, <1>12, <1>13,
     <1>14, <1>15, <1>16, <1>17, <1>18, <1>19
  DEF Next, Page, Token, LiveKit, Mic, Settings

LEMMA HeardSound ==
  ASSUME NoBadTiming
  PROVE  Spec => []HeardInv
<1>1. Init => HeardInv
  <2>1. ASSUME Init PROVE HeardInv
    <3>1. /\ v.mic = FALSE /\ v.track = 0 /\ v.changes = <<>> /\ v.lk = "none"
          /\ v.published = NoTrack /\ v.sent = {} /\ v.filtering = {} /\ v.raw = 0
          /\ \A r \in Asks : starting[r].at = "idle"
      BY <2>1 DEF Init, Idle
    <3>2. TrackInv
      BY <3>1 DEF TrackInv
    <3>3. v.published.track = 0
      BY <3>1 DEF NoTrack
    <3>4. Outgoing
      BY <3>1, <3>3 DEF Outgoing
    <3>5. Quieted
      BY <3>1 DEF Quieted
    <3> QED BY <3>2, <3>4, <3>5 DEF HeardInv
  <2> QED BY <2>1
<1>2. TypeInv /\ CaptureInv /\ HeardInv /\ [Next]_vars => HeardInv'
  BY HeardStep
<1> QED BY <1>1, <1>2, TypeCorrect, CaptureSound, PTL DEF Spec

\* What the controls show is what room and player hear, while LiveKit refuses no track
\* and none of the four timings that lose one happens: a microphone that looks on sends
\* its track, and the other player plays as asked (voice.ts:999 publishMic, :1030
\* publishTrack, :1054 unpublishMic, :648 applyOutput).
THEOREM ControlsShowWhatIsHeard ==
  ASSUME NoTrackLost
  PROVE  Spec => []HeardAsShown
<1>1. HeardInv => MicIsHeard
  BY DEF HeardInv, TrackInv, Outgoing, MicIsHeard, Linked, NoTrackLost
<1>2. NoBadTiming
  BY DEF NoTrackLost
<1> QED BY <1>1, <1>2, HeardSound, PlaysAsAsked, PTL DEF HeardAsShown

(***************************************************************************)
(* PART 8.  The last choice wins.                                          *)
(***************************************************************************)
Orderly == NoBadTiming /\ "overtaken" \notin Awkward

LEMMA Small == \A n \in Nat : n <= 2 => n \in {0, 1, 2}
OBVIOUS

LEMMA ShortSeq ==
  ASSUME NEW S, NEW c \in Seq(S), Len(c) <= 2
  PROVE  /\ Len(c) \in {0, 1, 2} /\ (c = <<>>) = (Len(c) = 0)
         /\ c # <<>> => c[1] \in S /\ Head(c) = c[1]
<1>1. Len(c) \in Nat /\ ((c = <<>>) = (Len(c) = 0)) /\ (c # <<>> => c[1] \in S /\ Head(c) = c[1])
  BY EmptySeq, LenProperties, HeadTailProperties
<1>2. Len(c) \in {0, 1, 2}
  BY <1>1, Small
<1> QED BY <1>1, <1>2

LEMMA ShortTail ==
  ASSUME NEW S, NEW c \in Seq(S), c # <<>>, Len(c) <= 2
  PROVE  /\ Len(c) = 1 => Tail(c) = <<>>
         /\ Len(c) = 2 => Tail(c) # <<>> /\ Len(Tail(c)) = 1 /\ Tail(c)[1] = c[2]
<1>1. /\ Tail(c) \in Seq(S) /\ Len(Tail(c)) = Len(c) - 1
      /\ \A i \in 1 .. Len(Tail(c)) : Tail(c)[i] = c[i+1]
  BY HeadTailProperties
<1>2. (Tail(c) = <<>>) = (Len(Tail(c)) = 0)
  BY <1>1, EmptySeq
<1> QED BY <1>1, <1>2

LEMMA ShortExcept ==
  ASSUME NEW S, NEW c \in Seq(S), c # <<>>, Len(c) <= 2, NEW e
  PROVE  /\ Len([c EXCEPT ![1] = e]) = Len(c) /\ [c EXCEPT ![1] = e][1] = e
         /\ Len(c) = 2 => [c EXCEPT ![1] = e][2] = c[2]
<1>1. /\ Len(c) \in Nat /\ DOMAIN c = 1 .. Len(c) /\ Len(c) > 0
  BY EmptySeq, LenProperties
<1>2. c \in Seq(S \union {e})
  BY <1>1
<1>3. Len([c EXCEPT ![1] = e]) = Len(c)
  BY <1>1, <1>2, ExceptSeq
<1> QED BY <1>1, <1>3

LEMMA QueueKept ==
  ASSUME NEW w, QueueOf(w), NEW x, x.changes = w.changes,
         w.changes = <<>> \/ (x.ask = w.ask /\ x.rev = w.rev)
  PROVE  QueueOf(x)
<1>1. CASE w.changes = <<>>
  BY <1>1, EmptySeq DEF QueueOf, Pending
<1>2. CASE x.ask = w.ask /\ x.rev = w.rev
  BY <1>2 DEF QueueOf, Pending, Overtaken
<1> QED BY <1>1, <1>2

LEMMA QueueEmpty ==
  ASSUME NEW x, x.changes = <<>>
  PROVE  QueueOf(x) /\ ~Pending(x)
BY EmptySeq DEF QueueOf, Pending

LEMMA ReachesKept ==
  ASSUME NEW w, Reaches(w), NEW x,
         x.changes = w.changes, x.mic = w.mic, x.published = w.published,
         x.applied = w.applied, x.echo = w.echo, x.noise = w.noise
  PROVE  Reaches(x)
BY DEF Reaches, Pending, Settled, Constraints

LEMMA ReachesSilent ==
  ASSUME NEW x, ~x.mic \/ x.published.track = 0 \/ x.published = NoTrack
  PROVE  Reaches(x)
BY DEF Reaches, NoTrack

LEMMA ReachesSettled ==
  ASSUME NEW x, ~refuses => Settled(x)
  PROVE  Reaches(x)
BY DEF Reaches, Settled

LEMMA QueueTail ==
  ASSUME NEW w, QueueOf(w), w.changes \in Seq(ChangeRecord), w.changes # <<>>,
         NEW x, x.changes = Tail(w.changes), x.ask = w.ask, x.rev = w.rev
  PROVE  /\ QueueOf(x)
         /\ Len(w.changes) = 1 => x.changes = <<>>
         /\ Len(w.changes) # 1 => /\ Pending(w) /\ Pending(x)
                                  /\ x.changes[Len(x.changes)] = w.changes[Len(w.changes)]
<1> DEFINE c == w.changes
<1>1. /\ c \in Seq(ChangeRecord) /\ c # <<>> /\ x.changes = Tail(c) /\ Len(c) <= 2
      /\ \A i \in 1 .. Len(c) : c[i].ask = w.ask
      /\ Len(c) = 2 => c[2].at = "wait"
      /\ Pending(w) => ~Overtaken(w, c[Len(c)])
  BY DEF QueueOf
<1>2. Pending(w) = (c # <<>> /\ c[Len(c)].at = "wait")
  BY DEF Pending
<1> HIDE DEF c
<1>3. /\ Len(c) \in {1, 2}
      /\ Len(c) = 1 => Tail(c) = <<>>
      /\ Len(c) = 2 => Tail(c) # <<>> /\ Len(Tail(c)) = 1 /\ Tail(c)[1] = c[2]
  BY <1>1, ShortSeq, ShortTail
<1>4. CASE Len(c) = 1
  <2>1. x.changes = <<>>
    BY <1>1, <1>3, <1>4
  <2> QED BY <1>4, <2>1, QueueEmpty DEF c
<1>5. CASE Len(c) = 2
  <2>1. x.changes # <<>> /\ Len(x.changes) = 1 /\ x.changes[1] = c[2]
    BY <1>1, <1>3, <1>5
  <2>2. c[2].at = "wait" /\ c[2].ask = w.ask
    BY <1>1, <1>5
  <2>3. Pending(w) /\ ~Overtaken(x, c[2])
    <3>1. Pending(w)
      BY <1>1, <1>2, <1>5, <2>2
    <3>2. ~Overtaken(w, c[2])
      BY <1>1, <1>5, <3>1
    <3> QED BY <3>1, <3>2 DEF Overtaken
  <2> DEFINE d == x.changes
  <2>4. d # <<>> /\ Len(d) = 1 /\ d[1] = c[2]
    BY <2>1
  <2>5. Pending(x) = (d # <<>> /\ d[Len(d)].at = "wait")
    BY DEF Pending
  <2>6. QueueOf(x) = (/\ Len(d) <= 2
                      /\ \A i \in 1 .. Len(d) : d[i].ask = x.ask
                      /\ Len(d) = 2 => d[1].at # "wait" /\ d[2].at = "wait"
                      /\ Pending(x) => ~Overtaken(x, d[Len(d)]))
    BY DEF QueueOf
  <2> HIDE DEF d
  <2>7. Pending(x)
    BY <2>2, <2>4, <2>5
  <2>8. \A i \in 1 .. Len(d) : d[i].ask = x.ask
    BY <2>2, <2>4
  <2>9. Pending(x) /\ QueueOf(x)
    BY <2>3, <2>4, <2>6, <2>7, <2>8
  <2>10. d[Len(d)] = c[Len(c)]
    BY <1>5, <2>4
  <2> QED BY <1>5, <2>3, <2>9, <2>10 DEF c, d
<1> QED BY <1>3, <1>4, <1>5

LEMMA QueueHeadAt ==
  ASSUME NEW w, QueueOf(w), w.changes \in Seq(ChangeRecord), w.changes # <<>>,
         NEW stage, stage # "wait", NEW x, HeadAt(x, w, stage), x.ask = w.ask, x.rev = w.rev
  PROVE  /\ QueueOf(x)
         /\ Len(w.changes) = 1 => ~Pending(x)
         /\ Len(w.changes) # 1 => /\ Pending(w) /\ Pending(x)
                                  /\ x.changes[Len(x.changes)] = w.changes[Len(w.changes)]
<1> DEFINE c == w.changes
           k == Constraints(w)
           e == [c[1] EXCEPT !.at = stage, !.to = k]
<1>1. /\ c \in Seq(ChangeRecord) /\ c # <<>> /\ Len(c) <= 2
      /\ x.changes = [c EXCEPT ![1] = [@ EXCEPT !.at = stage, !.to = k]]
      /\ \A i \in 1 .. Len(c) : c[i].ask = w.ask
      /\ Len(c) = 2 => c[2].at = "wait"
      /\ Pending(w) => ~Overtaken(w, c[Len(c)])
  BY DEF QueueOf, HeadAt
<1>2. Pending(w) = (c # <<>> /\ c[Len(c)].at = "wait")
  BY DEF Pending
<1> HIDE DEF c, k
<1>3. Len(c) \in {1, 2} /\ c[1] \in ChangeRecord
  BY <1>1, ShortSeq
<1>4. e.at = stage /\ e.ask = c[1].ask
  BY <1>3 DEF ChangeRecord
<1>0. x.changes = [c EXCEPT ![1] = e]
  BY <1>1
<1> HIDE DEF e
<1>5. Len(x.changes) = Len(c) /\ x.changes[1] = e /\ (Len(c) = 2 => x.changes[2] = c[2])
  BY <1>0, <1>1, ShortExcept
<1>6. CASE Len(c) = 1
  <2>1. ~Pending(x)
    BY <1>4, <1>5, <1>6 DEF Pending
  <2>2. \A i \in 1 .. Len(x.changes) : x.changes[i].ask = x.ask
    BY <1>1, <1>4, <1>5, <1>6
  <2>3. QueueOf(x)
    BY <1>5, <1>6, <2>1, <2>2 DEF QueueOf
  <2> QED BY <1>6, <2>1, <2>3 DEF c
<1>7. CASE Len(c) = 2
  <2>1. c[2].at = "wait" /\ ~Overtaken(w, c[2])
    BY <1>1, <1>2, <1>7
  <2>2. ~Overtaken(x, c[2])
    BY <2>1 DEF Overtaken
  <2>3. \A i \in 1 .. Len(x.changes) : x.changes[i].ask = x.ask
    BY <1>1, <1>4, <1>5, <1>7
  <2>4. QueueOf(x)
    BY <1>4, <1>5, <1>7, <2>1, <2>2, <2>3 DEF QueueOf
  <2>5. Pending(w)
    BY <1>1, <1>2, <1>7, <2>1
  <2> DEFINE d == x.changes
  <2>6. Len(d) = 2 /\ d[2] = c[2]
    BY <1>5, <1>7
  <2>7. d # <<>>
    BY <2>6
  <2>8. Pending(x) = (d # <<>> /\ d[Len(d)].at = "wait")
    BY DEF Pending
  <2> HIDE DEF d
  <2>9. Pending(x) /\ d[Len(d)] = c[Len(c)]
    BY <1>7, <2>1, <2>6, <2>7, <2>8
  <2> QED BY <1>7, <2>4, <2>5, <2>9 DEF c, d
<1> QED BY <1>3, <1>6, <1>7 DEF c

\* A change that is queued is the last word.
LEMMA QueueMore ==
  ASSUME NEW w, QueueOf(w), ~Pending(w), Len(w.changes) < 2,
         w.changes \in Seq(ChangeRecord),
         NEW kind, NEW x, Queues(x, w, kind), x.ask = w.ask
  PROVE  /\ QueueOf(x) /\ Pending(x)
         /\ x.changes[Len(x.changes)].kind = kind
<1> DEFINE c == w.changes
           k == Constraints(x)
           e == [kind |-> kind, rev |-> x.rev, ask |-> w.ask, at |-> "wait", to |-> k]
<1>1. /\ c \in Seq(ChangeRecord) /\ Len(c) < 2 /\ x.changes = Append(c, e)
      /\ \A i \in 1 .. Len(c) : c[i].ask = w.ask
      /\ ~(c # <<>> /\ c[Len(c)].at = "wait")
  BY DEF QueueOf, Pending, Queues
<1>2. e.kind = kind /\ e.rev = x.rev /\ e.ask = w.ask /\ e.at = "wait"
  OBVIOUS
<1> HIDE DEF c, k, e
<1>3. Len(c) \in {0, 1} /\ (c = <<>>) = (Len(c) = 0)
  <2>1. Len(c) <= 2 /\ c \in Seq(ChangeRecord)
    BY <1>1, LenProperties
  <2>2. Len(c) \in {0, 1, 2} /\ (c = <<>>) = (Len(c) = 0)
    BY <2>1, ShortSeq
  <2> QED BY <1>1, <2>2
<1>4. /\ Len(x.changes) = Len(c) + 1 /\ x.changes[Len(c) + 1] = e
      /\ \A i \in 1 .. Len(c) : x.changes[i] = c[i]
      /\ x.changes # <<>>
  BY <1>1
<1>5. ~Overtaken(x, e)
  BY <1>2 DEF Overtaken
<1>6. Pending(x) /\ x.changes[Len(x.changes)] = e
  BY <1>2, <1>3, <1>4 DEF Pending
<1>7. \A i \in 1 .. Len(x.changes) : x.changes[i].ask = x.ask
  BY <1>1, <1>2, <1>3, <1>4
<1>8. Len(x.changes) = 2 => x.changes[1].at # "wait" /\ x.changes[2].at = "wait"
  BY <1>1, <1>2, <1>3, <1>4
<1>9. Len(x.changes) <= 2
  BY <1>3, <1>4
<1> QED BY <1>2, <1>5, <1>6, <1>7, <1>8, <1>9 DEF QueueOf

\* A choice is only made while none waits.
LEMMA QueueFree ==
  ASSUME Orderly, TypeInv, QueueOf(v), MayChange, ~TurnOfChange
  PROVE  ~Pending(v) /\ Len(v.changes) < 2
<1>1. v.changes \in Seq(ChangeRecord) /\ Len(v.changes) < 2
  BY DEF TypeInv, Orderly, MayChange
<1>2. ~(v.changes # <<>> /\ Head(v.changes).at = "wait")
  BY DEF TurnOfChange
<1>3. Len(v.changes) = 1 \/ v.changes = <<>>
  <2> DEFINE c == v.changes
  <2>1. c \in Seq(ChangeRecord) /\ Len(c) < 2
    BY <1>1
  <2> HIDE DEF c
  <2>2. Len(c) <= 2
    BY <2>1, LenProperties
  <2>3. Len(c) \in {0, 1, 2} /\ (c = <<>>) = (Len(c) = 0)
    BY <2>1, <2>2, ShortSeq
  <2>4. Len(c) = 1 \/ c = <<>>
    BY <2>1, <2>3
  <2> QED BY <2>4 DEF c
<1>4. CASE Len(v.changes) = 1
  <2>1. Head(v.changes) = v.changes[1]
    BY <1>1, <1>4
  <2> QED BY <1>1, <1>2, <1>4, <2>1 DEF Pending
<1>5. CASE v.changes = <<>>
  BY <1>1, <1>5 DEF Pending
<1> QED BY <1>3, <1>4, <1>5

---------------------------------------------------------------------------------
(* What the browser and publishMic make of it.                             *)

LEMMA AnsweredAll ==
  ASSUME NEW w, w.raw # 0, ~refuses, NEW c \in Wanted
  PROVE  Answered(w, c) = c
BY DEF Answered, Wanted

LEMMA PublishSettles ==
  ASSUME NEW w, Manager(w), w.raw # 0, NEW t, NEW f, f = w.noise, NEW x, x = Publish(w, t, f),
         ~refuses
  PROVE  Settled(x)
<1>1. DOMAIN w = Fields /\ Constraints(w) \in Wanted
  BY ConstraintsTyped DEF Manager
<1>2. /\ Keeps(x, w, {"applied", "published", "sent", "going"})
      /\ x.applied = Constrain(w, Constraints(w)).applied
      /\ x.published = [track |-> t, filtered |-> f]
  BY <1>1, PublishKeeps
<1>3. x.applied = Answered(w, Constraints(w))
  BY <1>1, <1>2, ConstrainKeeps DEF Answered
<1>4. x.applied = Constraints(w)
  BY <1>1, <1>3, AnsweredAll
<1>5. x.echo = w.echo /\ x.noise = w.noise /\ x.published.filtered = f
  BY <1>2 DEF Keeps, Fields
<1>6. Constraints(x) = Constraints(w)
  BY <1>5 DEF Constraints
<1> QED BY <1>4, <1>5, <1>6 DEF Settled

LEMMA PublishMicSettles ==
  ASSUME NEW w, Manager(w), w.track \in {0, w.raw}, w.published.track = 0,
         NEW x, x = PublishMic(w), ~refuses
  PROVE  x.published.track = 0 \/ Settled(x)
<1>1. DOMAIN w = Fields
  BY DEF Manager
<1>2. \/ x = w
      \/ Keeps(x, w, {"filtering"})
      \/ ~w.noise /\ w.track # 0 /\ x = Publish(w, w.track, FALSE)
  BY <1>1, PublishMicKeeps
<1>3. CASE x = w \/ Keeps(x, w, {"filtering"})
  BY <1>3 DEF Keeps, Fields
<1>4. CASE ~w.noise /\ w.track # 0 /\ x = Publish(w, w.track, FALSE)
  <2>1. PICK t, f : t = w.track /\ f = FALSE /\ x = Publish(w, t, f)
    BY <1>4
  <2>2. w.noise \in BOOLEAN /\ w.raw # 0
    BY <1>4 DEF Manager
  <2>3. f = w.noise
    BY <1>4, <2>1, <2>2
  <2> QED BY <2>1, <2>2, <2>3, PublishSettles
<1> QED BY <1>2, <1>3, <1>4

LEMMA SettledKept ==
  ASSUME NEW w, Settled(w), NEW x, x.published = w.published, x.echo = w.echo,
         x.noise = w.noise, x.applied = w.applied \/ x.applied = Constraints(w)
  PROVE  Settled(x)
BY DEF Settled, Constraints

---------------------------------------------------------------------------------
(* The steps.                                                              *)

LEMMA QueueInvNext ==
  ASSUME QueueOf(v'), Reaches(v'), refuses' = refuses
  PROVE  QueueInv'
BY DEF QueueInv, QueueOf, Reaches, Pending, Settled, Constraints, Overtaken

\* A step that touches neither queue nor capture, or leaves nothing to be heard.
LEMMA QueueInvKept ==
  ASSUME QueueInv, refuses' = refuses, v'.changes = v.changes,
         v.changes = <<>> \/ (v'.ask = v.ask /\ v'.rev = v.rev),
         \/ /\ v'.mic = v.mic /\ v'.published = v.published /\ v'.applied = v.applied
            /\ v'.echo = v.echo /\ v'.noise = v.noise
         \/ ~v'.mic \/ v'.published.track = 0 \/ v'.published = NoTrack
  PROVE  QueueInv'
BY QueueKept, ReachesKept, ReachesSilent, QueueInvNext DEF QueueInv

\* startMic goes on, or ends: the microphone comes on with the last choice.
LEMMA QueueStarts ==
  ASSUME TypeInv, CaptureInv, HeardInv, QueueInv, refuses' = refuses, NEW r \in Asks, r = v.ask,
         starting[r].at \in {"resume", "apply"},
         NEW w, Keeps(w, v, {"track"}), w.track = r, Started(w, r)
  PROVE  QueueInv'
<1>0. Shape /\ Manager(v) /\ DOMAIN w = Fields /\ r # 0 /\ r \in Nat
  BY ManagerTyped DEF TypeInv, Keeps, Asks
<1>1. v.raw = r /\ ~v.mic /\ v.changes = <<>>
  BY DEF CaptureInv, HeardInv, TrackInv
<1>2. v.published.track = 0
  BY <1>1, OutgoingOff DEF HeardInv
<1>3. /\ w.published = v.published /\ w.changes = v.changes /\ w.mic = v.mic /\ w.raw = v.raw
      /\ Manager(w)
  BY <1>0 DEF Keeps, Fields, Manager
<1>4. CASE Keeps(v', w, {"applied"})
  <2>1. v'.changes = <<>> /\ ~v'.mic
    BY <1>1, <1>3, <1>4 DEF Keeps, Fields
  <2> QED BY <2>1, QueueEmpty, ReachesSilent, QueueInvNext
<1>5. ASSUME NEW u, Keeps(u, w, {"micEcho"}), u.micEcho = w.echo, NEW p, p = PublishMic(u),
             Keeps(v', p, {"mic", "asking", "spaced", "lk", "lkRoom"})
      PROVE  QueueInv'
  <2>1. /\ u.published = w.published /\ u.changes = w.changes /\ u.raw = w.raw
        /\ u.track = w.track /\ Manager(u)
    BY <1>3, <1>5 DEF Keeps, Fields, Manager
  <2>2. ~refuses => p.published.track = 0 \/ Settled(p)
    BY <1>1, <1>2, <1>3, <1>5, <2>1, PublishMicSettles
  <2>3. Keeps(p, u, {"applied", "published", "sent", "going", "filtering"})
    BY <1>5, <2>1, PublishMicKeeps, Zenon DEF Manager
  <2>4. /\ v'.changes = <<>> /\ v'.published = p.published /\ v'.applied = p.applied
        /\ v'.echo = p.echo /\ v'.noise = p.noise
    BY <1>1, <1>3, <1>5, <2>1, <2>3 DEF Keeps, Fields
  <2>5. Reaches(v')
    <3>1. CASE v'.published.track = 0
      BY <3>1, ReachesSilent
    <3>2. CASE v'.published.track # 0
      <4>1. ~refuses => Settled(v')
        BY <2>2, <2>4, <3>2, SettledKept
      <4> QED BY <4>1, ReachesSettled
    <3> QED BY <3>1, <3>2
  <2> QED BY <2>4, <2>5, QueueEmpty, QueueInvNext
<1> QED BY <1>0, <1>4, <1>5, StartedDoes

\* A change is rid of its publication: it goes on to the browser, or is done.
LEMMA QueueProceeds ==
  ASSUME TypeInv, HeardInv, QueueInv, refuses' = refuses, v.changes # <<>>,
         Head(v.changes).at = "publish", Proceeds(v', v)
  PROVE  QueueInv'
<1>0. Shape /\ Manager(v) /\ v.changes \in Seq(ChangeRecord) /\ QueueOf(v) /\ Reaches(v)
  BY ManagerTyped DEF TypeInv, QueueInv
<1>1. /\ v'.ask = v.ask /\ v'.rev = v.rev /\ v'.mic = v.mic /\ v'.echo = v.echo
      /\ v'.noise = v.noise /\ v'.published = v.published
      /\ v'.applied = v.applied \/ v'.applied = Answered(v, Constraints(v))
      /\ v'.changes = Tail(v.changes) \/ HeadAt(v', v, "apply")
  BY DEF Proceeds, Keeps, Fields
<1>2. /\ QueueOf(v')
      /\ Len(v.changes) = 1 => ~Pending(v')
      /\ Len(v.changes) # 1 => /\ Pending(v) /\ Pending(v')
                               /\ v'.changes[Len(v'.changes)] = v.changes[Len(v.changes)]
  BY <1>0, <1>1, QueueTail, QueueHeadAt, QueueEmpty
<1>3. CASE Len(v.changes) = 1
  <2>1. ~Pending(v)
    <3>1. Head(v.changes) = v.changes[1]
      BY <1>0
    <3> QED BY <1>3, <3>1 DEF Pending
  <2>2. v.raw # 0 /\ Constraints(v) \in Wanted
    BY <1>0, ConstraintsTyped DEF HeardInv, TrackInv
  <2>3. ~refuses => v'.applied = v.applied \/ v'.applied = Constraints(v)
    BY <1>1, <2>2, AnsweredAll
  <2>4. Reaches(v')
    BY <1>0, <1>1, <1>2, <1>3, <2>1, <2>3 DEF Reaches, Settled, Constraints
  <2> QED BY <1>2, <2>4, QueueInvNext
<1>4. CASE Len(v.changes) # 1
  <2>1. Reaches(v')
    BY <1>0, <1>1, <1>2, <1>4 DEF Reaches
  <2> QED BY <1>2, <2>1, QueueInvNext
<1> QED BY <1>3, <1>4

\* A change is taken further; one whose turn it is, is the only one.
LEMMA QueueChanges ==
  ASSUME NoBadTiming, TypeInv, HeardInv, QueueInv, ChangeRuns
  PROVE  QueueInv'
<1>0. Shape /\ Manager(v) /\ v.changes \in Seq(ChangeRecord) /\ QueueOf(v) /\ Reaches(v)
  BY ManagerTyped DEF TypeInv, QueueInv
<1>1. /\ Keeps(v', v, {"changes", "applied", "published", "sent", "going", "filtering"})
      /\ refuses' = refuses
      /\ v.changes # <<>>
  BY <1>0, ChangeRunsDoes DEF TurnOfChange
<1>2. CASE Head(v.changes).at = "publish" /\ Proceeds(v', v)
  BY <1>1, <1>2, QueueProceeds
<1>3. CASE Head(v.changes).at = "wait"
  <2>1. Len(v.changes) = 1 /\ Head(v.changes) = v.changes[1]
    <3> DEFINE c == v.changes
    <3>1. /\ c \in Seq(ChangeRecord) /\ c # <<>> /\ Len(c) <= 2 /\ Head(c).at = "wait"
          /\ Len(c) = 2 => c[1].at # "wait"
      BY <1>0, <1>1, <1>3 DEF QueueOf
    <3> HIDE DEF c
    <3>2. Len(c) = 1 /\ Head(c) = c[1]
      BY <3>1, ShortSeq
    <3> QED BY <3>2 DEF c
  <2>2. /\ Pending(v) /\ ~Overtaken(v, Head(v.changes))
        /\ v.changes[Len(v.changes)] = Head(v.changes)
    <3>1. Pending(v)
      BY <1>1, <1>3, <2>1 DEF Pending
    <3> QED BY <1>0, <2>1, <3>1 DEF QueueOf
  <2>3. /\ v'.ask = v.ask /\ v'.rev = v.rev /\ v'.mic = v.mic /\ v'.echo = v.echo
        /\ v'.noise = v.noise
    BY <1>1 DEF Keeps, Fields
  <2>4. v.mic /\ v.track # 0 /\ v.raw # 0 /\ v.track = v.raw
    BY <1>1 DEF HeardInv, TrackInv
  <2>5. Constraints(v) \in Wanted /\ Constraints(v') = Constraints(v)
    BY <1>0, <2>3, ConstraintsTyped DEF Constraints
  <2>6. CASE v.published.track = 0 /\ Keeps(v', v, {"changes"}) /\ v'.changes = Tail(v.changes)
    <3>1. v'.published.track = 0
      BY <2>6 DEF Keeps, Fields
    <3>2. QueueOf(v')
      BY <1>0, <1>1, <2>3, <2>6, QueueTail
    <3> QED BY <1>1, <3>1, <3>2, ReachesSilent, QueueInvNext
  <2>7. CASE /\ Head(v.changes).kind = "echo" \/ v.published.track = 0
             /\ Keeps(v', v, {"applied", "changes"})
             /\ v'.applied = Answered(v, Constraints(v)) /\ HeadAt(v', v, "apply")
    <3>1. v'.published = v.published
      BY <2>7 DEF Keeps, Fields
    <3>2. QueueOf(v') /\ ~Pending(v')
      BY <1>0, <1>1, <2>1, <2>3, <2>7, QueueHeadAt
    <3>3. CASE v.published.track = 0
      BY <1>1, <3>1, <3>2, <3>3, ReachesSilent, QueueInvNext
    <3>4. CASE v.published.track # 0
      <4>1. ~refuses => v.published.filtered = v.noise
        BY <1>0, <2>2, <2>4, <2>7, <3>4 DEF Reaches
      <4>2. ~refuses => v'.applied = Constraints(v)
        BY <2>4, <2>5, <2>7, AnsweredAll
      <4>3. ~refuses => Settled(v')
        BY <2>3, <2>5, <3>1, <4>1, <4>2 DEF Settled
      <4> QED BY <1>1, <3>2, <4>3, ReachesSettled, QueueInvNext
    <3> QED BY <3>3, <3>4
  <2>8. ASSUME NEW u, NEW p, u = UnpublishMic(v), p = PublishMic(u),
               Keeps(v', p, {"changes"}), HeadAt(v', p, "publish")
        PROVE  QueueInv'
    <3>1. /\ Keeps(u, v, {"published", "sent", "going"}) /\ u.published = NoTrack /\ Manager(u)
      BY <1>0, <2>8, UnpublishMicKeeps, UnpublishMicTyped DEF Shape
    <3>2. /\ u.track = v.track /\ u.raw = v.raw /\ u.published.track = 0
      BY <3>1 DEF Keeps, Fields, NoTrack
    <3>3. ~refuses => p.published.track = 0 \/ Settled(p)
      BY <2>4, <2>8, <3>1, <3>2, PublishMicSettles
    <3>4. Keeps(p, u, {"applied", "published", "sent", "going", "filtering"})
      BY <2>8, <3>1, PublishMicKeeps, Zenon DEF Manager
    <3>5. /\ p.changes = v.changes /\ p.ask = v.ask /\ p.rev = v.rev
          /\ p.echo = v.echo /\ p.noise = v.noise
      BY <3>1, <3>4 DEF Keeps, Fields
    <3>6. QueueOf(p)
      BY <1>0, <3>5, QueueKept
    <3>7. v'.applied = p.applied /\ v'.published = p.published
      BY <2>8 DEF Keeps, Fields
    <3>8. QueueOf(v')
      BY <1>0, <1>1, <2>3, <2>8, <3>5, <3>6, QueueHeadAt
    <3>9. CASE p.published.track = 0
      BY <1>1, <3>7, <3>8, <3>9, ReachesSilent, QueueInvNext
    <3>10. CASE p.published.track # 0
      <4>1. ~refuses => Settled(v')
        BY <2>3, <3>3, <3>5, <3>7, <3>10, SettledKept
      <4> QED BY <1>1, <3>8, <4>1, ReachesSettled, QueueInvNext
    <3> QED BY <3>9, <3>10
  <2> QED BY <1>0, <1>3, <2>2, <2>6, <2>7, <2>8, ChangeRunsDoes
<1> QED BY <1>0, <1>2, <1>3, ChangeRunsDoes

\* The filter has started, or failed: what goes out is filtered as the choice now says.
LEMMA QueueFiltered ==
  ASSUME TypeInv, HeardInv, QueueInv, NEW x \in v.filtering, NEW ok \in BOOLEAN,
         FilterStarts(x, ok)
  PROVE  QueueInv'
<1>0. Shape /\ Manager(v) /\ QueueOf(v) /\ v.noise \in BOOLEAN
  BY ManagerTyped DEF TypeInv, QueueInv
<1>1. refuses' = refuses
  BY <1>0, FilterStartsDoes
<1>2. /\ x = [track |-> v.track, gone |-> FALSE] /\ v.noise = TRUE
      /\ v.mic /\ v.track # 0 /\ v.raw # 0
  BY <1>0 DEF HeardInv, Outgoing, TrackInv
<1>3. PICK w, p :
        /\ Keeps(w, v, {"filtering", "noise"})
        /\ w.filtering = v.filtering \ {x} /\ w.noise = (v.noise /\ ok)
        /\ p = Publish(w, x.track, ok)
        /\ IF x.gone THEN Keeps(v', p, {"sent"}) ELSE v' = p
  BY <1>0, FilterStartsDoes
<1>4. v' = Publish(w, v.track, ok) /\ w.noise = ok
  BY <1>2, <1>3
<1>5. /\ w.raw = v.raw /\ w.changes = v.changes /\ w.ask = v.ask /\ w.rev = v.rev
      /\ DOMAIN w = Fields /\ w.filtering \subseteq v.filtering
  BY <1>3 DEF Keeps, Fields
<1>6. Manager(w)
  <2>1. w.noise \in BOOLEAN /\ w.filtering \subseteq [track : Nat, gone : BOOLEAN]
    BY <1>0, <1>4, <1>5 DEF Manager
  <2> QED BY <1>0, <1>3, <2>1 DEF Keeps, Fields, Manager
<1>7. ~refuses => Settled(v')
  BY <1>2, <1>4, <1>5, <1>6, PublishSettles
<1>8. Keeps(v', w, {"applied", "published", "sent", "going"})
  BY <1>4, <1>5, PublishKeeps
<1>9. QueueOf(v')
  <2>1. v'.changes = v.changes /\ v'.ask = v.ask /\ v'.rev = v.rev
    BY <1>5, <1>8 DEF Keeps, Fields
  <2> QED BY <1>0, <2>1, QueueKept
<1> QED BY <1>1, <1>7, <1>9, ReachesSettled, QueueInvNext

\* A publication ends: nothing goes out, or what went out already.
LEMMA QueuePublished ==
  ASSUME TypeInv, QueueInv, NEW x \in v.going, NEW ok \in BOOLEAN, PublishEnds(x, ok)
  PROVE  QueueInv'
<1>1. /\ Keeps(v', v, {"going", "sent", "published"}) /\ refuses' = refuses
      /\ v'.published \in {v.published, NoTrack}
  BY PublishEndsDoes DEF TypeInv
<1>2. /\ v'.changes = v.changes /\ v'.ask = v.ask /\ v'.rev = v.rev /\ v'.mic = v.mic
      /\ v'.applied = v.applied /\ v'.echo = v.echo /\ v'.noise = v.noise
  BY <1>1 DEF Keeps, Fields
<1> QED BY <1>1, <1>2, QueueInvKept

\* A choice is queued while the microphone is on, behind at most one other.
LEMMA QueueChoice ==
  ASSUME Orderly, TypeInv, HeardInv, QueueInv, SetEchoCancellation \/ SetNoiseCancellation
  PROVE  QueueInv'
<1>0. /\ Shape /\ v.changes \in Seq(ChangeRecord) /\ QueueOf(v) /\ Reaches(v)
      /\ v.mic \in BOOLEAN
  BY DEF TypeInv, QueueInv
<1>1. /\ \/ Keeps(v', v, {"echo", "rev", "changes"}) /\ (v.mic => Queues(v', v, "echo"))
         \/ Keeps(v', v, {"noise", "rev", "changes"}) /\ (v.mic => Queues(v', v, "noise"))
      /\ ~v.mic => v'.changes = v.changes
      /\ MayChange /\ ~TurnOfChange /\ refuses' = refuses
  BY <1>0, SetChoiceDoes
<1>2. v'.mic = v.mic /\ v'.ask = v.ask /\ v'.published = v.published
  BY <1>1 DEF Keeps, Fields
<1>3. CASE ~v.mic
  <2>1. v.changes = <<>>
    BY <1>3 DEF HeardInv, TrackInv
  <2> QED BY <1>1, <1>2, <1>3, <2>1, QueueInvKept
<1>4. CASE v.mic
  <2>1. ~Pending(v) /\ Len(v.changes) < 2
    BY <1>0, <1>1, QueueFree
  <2>2. CASE Keeps(v', v, {"echo", "rev", "changes"}) /\ Queues(v', v, "echo")
    <3>1. QueueOf(v') /\ Pending(v')
      BY <1>0, <1>2, <2>1, <2>2, QueueMore
    <3>2. v'.noise = v.noise
      BY <2>2 DEF Keeps, Fields
    <3>3. v.published.track # 0 /\ ~refuses => v'.published.filtered = v'.noise
      BY <1>0, <1>2, <1>4, <2>1, <3>2 DEF Reaches, Settled
    <3>4. Reaches(v')
      BY <1>2, <3>1, <3>3 DEF Reaches
    <3> QED BY <1>1, <3>1, <3>4, QueueInvNext
  <2>3. CASE Queues(v', v, "noise")
    <3>1. /\ QueueOf(v') /\ Pending(v')
          /\ v'.changes[Len(v'.changes)].kind = "noise"
      BY <1>0, <1>2, <2>1, <2>3, QueueMore
    <3>2. Reaches(v')
      BY <3>1 DEF Reaches
    <3> QED BY <1>1, <3>1, <3>2, QueueInvNext
  <2> QED BY <1>1, <1>4, <2>2, <2>3
<1> QED BY <1>0, <1>3, <1>4

\* The account's copy is applied at once, but for the filter.
LEMMA QueueReloads ==
  ASSUME Orderly, TypeInv, HeardInv, QueueInv, ReloadSettings
  PROVE  QueueInv'
<1>0. /\ Shape /\ v.changes \in Seq(ChangeRecord) /\ QueueOf(v) /\ Reaches(v)
  BY DEF TypeInv, QueueInv
<1>1. /\ Keeps(v', v, {"echo", "noise", "muted", "audio", "applied", "changes"})
      /\ v'.echo \in BOOLEAN /\ v'.noise \in BOOLEAN
      /\ v'.applied = Answered(v, Constraints(v'))
      /\ IF v'.noise # v.noise /\ v.published.track # 0
         THEN Queues(v', v, "reload") ELSE v'.changes = v.changes
      /\ MayChange /\ ~TurnOfChange /\ refuses' = refuses
  BY <1>0, ReloadSettingsDoes
<1>2. v'.mic = v.mic /\ v'.ask = v.ask /\ v'.rev = v.rev /\ v'.published = v.published
  BY <1>1 DEF Keeps, Fields
<1>3. ~Pending(v) /\ Len(v.changes) < 2
  BY <1>0, <1>1, QueueFree
<1>4. CASE Queues(v', v, "reload")
  <2>1. /\ QueueOf(v') /\ Pending(v')
        /\ v'.changes[Len(v'.changes)].kind = "reload"
    BY <1>0, <1>2, <1>3, <1>4, QueueMore
  <2>2. Reaches(v')
    BY <2>1 DEF Reaches
  <2> QED BY <1>1, <2>1, <2>2, QueueInvNext
<1>5. CASE v'.changes = v.changes /\ v.published.track = 0
  BY <1>1, <1>2, <1>5, QueueKept, ReachesSilent, QueueInvNext, <1>0
<1>6. CASE v'.changes = v.changes /\ v.published.track # 0 /\ v'.noise = v.noise
  <2>1. v.mic /\ v.raw # 0
    BY <1>6 DEF HeardInv, Outgoing, TrackInv
  <2>2. ~refuses => v.published.filtered = v.noise
    BY <1>0, <1>3, <1>6, <2>1 DEF Reaches, Settled
  <2>3. Constraints(v') \in Wanted
    BY <1>1 DEF Constraints, Wanted
  <2>4. ~refuses => Settled(v')
    BY <1>1, <1>2, <1>6, <2>1, <2>2, <2>3, AnsweredAll DEF Settled
  <2>5. QueueOf(v')
    BY <1>0, <1>2, <1>6, QueueKept
  <2> QED BY <1>1, <2>4, <2>5, ReachesSettled, QueueInvNext
<1> QED BY <1>1, <1>4, <1>5, <1>6

\* A change is through: the next one is the last word, or there is none.
LEMMA QueueApplied ==
  ASSUME TypeInv, HeardInv, QueueInv, ChangeApplied
  PROVE  QueueInv'
<1>0. /\ Shape /\ v.changes \in Seq(ChangeRecord) /\ QueueOf(v) /\ Reaches(v)
  BY DEF TypeInv, QueueInv
<1>1. /\ Keeps(v', v, {"changes", "micEcho", "echo"})
      /\ v.changes # <<>> /\ Head(v.changes).at = "apply"
      /\ v'.changes = Tail(v.changes)
      /\ v'.echo = v.echo \/ refuses
      /\ refuses' = refuses
  BY <1>0, ChangeAppliedDoes
<1>2. /\ v'.ask = v.ask /\ v'.rev = v.rev /\ v'.mic = v.mic /\ v'.published = v.published
      /\ v'.noise = v.noise /\ v'.applied = v.applied
  BY <1>1 DEF Keeps, Fields
<1>3. /\ QueueOf(v')
      /\ Len(v.changes) = 1 => v'.changes = <<>>
      /\ Len(v.changes) # 1 => /\ Pending(v) /\ Pending(v')
                               /\ v'.changes[Len(v'.changes)] = v.changes[Len(v.changes)]
  BY <1>0, <1>1, <1>2, QueueTail
<1>4. CASE Len(v.changes) = 1
  <2>1. ~Pending(v)
    <3>1. Head(v.changes) = v.changes[1]
      BY <1>0, <1>1
    <3> QED BY <1>1, <1>4, <3>1 DEF Pending
  <2>2. ~Pending(v')
    BY <1>3, <1>4, QueueEmpty
  <2>3. Reaches(v')
    BY <1>0, <1>1, <1>2, <2>1, <2>2 DEF Reaches, Settled, Constraints
  <2> QED BY <1>1, <1>3, <2>3, QueueInvNext
<1>5. CASE Len(v.changes) # 1
  <2>1. Reaches(v')
    BY <1>0, <1>2, <1>3, <1>5 DEF Reaches
  <2> QED BY <1>1, <1>3, <2>1, QueueInvNext
<1> QED BY <1>4, <1>5

LEMMA QueueStep ==
  ASSUME Orderly, TypeInv, CaptureInv, HeardInv, QueueInv, [Next]_vars
  PROVE  QueueInv'
<1>0. /\ Shape /\ Manager(v) /\ NoBadTiming /\ QueueOf(v)
      /\ TrackInv /\ Outgoing
  BY ManagerTyped DEF TypeInv, Orderly, QueueInv, HeardInv
<1>1. ASSUME NEW r \in Rooms, EnterRoom(r) PROVE QueueInv'
  <2>1. /\ Keeps(v', v, {"room", "spaced", "asking", "lk", "lkRoom", "published", "sent", "going",
                         "audio", "filtering"})
        /\ v'.published = NoTrack /\ refuses' = refuses
    BY <1>0, <1>1, EnterRoomDoes
  <2>2. v'.changes = v.changes /\ v'.ask = v.ask /\ v'.rev = v.rev
    BY <2>1 DEF Keeps, Fields
  <2> QED BY <2>1, <2>2, QueueInvKept
<1>2. CASE LeaveRoom \/ SetMicOff
  <2>1. v'.changes = <<>> /\ v'.mic = FALSE /\ refuses' = refuses
    BY <1>0, <1>2, LeaveRoomDoes, SetMicOffDoes
  <2> QED BY <2>1, QueueEmpty, ReachesSilent, QueueInvNext
<1>3. CASE \/ TokenArrives \/ TokenRefused \/ SpacingEnds \/ TokenAges \/ SocketDrops
           \/ SocketReturns \/ RetryFires \/ ConnectFails \/ Reconnecting \/ Reconnected
           \/ PeerSpeaks \/ PeerStops \/ SetSpeaker \/ ToggleMutePeer
  <2> DEFINE F == {"asking", "token", "spaced", "socket", "lk", "lkRoom", "retry", "audio",
                   "speaker", "muted"}
  <2>1. Keeps(v', v, F) /\ refuses' = refuses
    <3>1. CASE TokenArrives \/ SocketReturns \/ RetryFires
      BY <1>0, <3>1, TokenArrivesDoes, SocketReturnsDoes, RetryFiresDoes DEF Keeps
    <3>2. CASE TokenRefused \/ SpacingEnds \/ TokenAges \/ SocketDrops
      <4>1. Keeps(v', v, {"asking", "token", "spaced", "socket"}) /\ refuses' = refuses
        BY <1>0, <3>2, TokenWearsOut
      <4> QED BY <4>1 DEF Keeps
    <3>3. CASE ConnectFails \/ Reconnecting \/ Reconnected
      BY <1>0, <3>3, ConnectFailsDoes, LinkMends DEF Keeps
    <3>4. CASE PeerSpeaks \/ PeerStops
      BY <1>0, <3>4, PeerDoes DEF Keeps
    <3>5. CASE SetSpeaker \/ ToggleMutePeer
      BY <1>0, <3>5, SetSpeakerDoes, ToggleMutePeerDoes DEF Keeps
    <3> QED BY <1>3, <3>1, <3>2, <3>3, <3>4, <3>5
  <2>2. /\ v'.changes = v.changes /\ v'.ask = v.ask /\ v'.rev = v.rev /\ v'.mic = v.mic
        /\ v'.published = v.published /\ v'.applied = v.applied /\ v'.echo = v.echo
        /\ v'.noise = v.noise
    BY <2>1 DEF Keeps, Fields
  <2> QED BY <2>1, <2>2, QueueInvKept
<1>4. CASE Connected
  <2>1. PICK w : w = [v EXCEPT !.lk = "connected"]
    OBVIOUS
  <2>2. /\ Keeps(v', v, {"lk", "applied", "published", "sent", "going", "filtering"})
        /\ Keeps(w, v, {"lk"}) /\ v' = PublishMic(w) /\ v.lk = "connecting"
        /\ refuses' = refuses
    BY <1>0, <1>4, <2>1, ConnectedDoes
  <2>3. w.track \in {0, w.raw} /\ w.published.track = 0 /\ Manager(w)
    <3>1. Manager(w) /\ w.track = v.track /\ w.raw = v.raw /\ w.published = v.published
      BY <1>0, <2>2 DEF Keeps, Fields, Manager
    <3>2. v.published.track = 0
      BY <1>0, <2>2 DEF Outgoing, Linked
    <3> QED BY <1>0, <3>1, <3>2 DEF TrackInv
  <2>4. ~refuses => v'.published.track = 0 \/ Settled(v')
    BY <2>2, <2>3, PublishMicSettles
  <2>5. Reaches(v')
    BY <2>4, ReachesSilent, ReachesSettled
  <2>6. QueueOf(v')
    <3>1. v'.changes = v.changes /\ v'.ask = v.ask /\ v'.rev = v.rev
      BY <2>2 DEF Keeps, Fields
    <3> QED BY <1>0, <3>1, QueueKept
  <2> QED BY <2>2, <2>5, <2>6, QueueInvNext
<1>5. CASE Disconnected
  <2>1. /\ Keeps(v', v, {"lk", "lkRoom", "published", "sent", "going", "audio", "filtering",
                         "retry", "asking", "spaced"})
        /\ v'.published = NoTrack /\ refuses' = refuses
    BY <1>0, <1>5, DisconnectedDoes
  <2>2. v'.changes = v.changes /\ v'.ask = v.ask /\ v'.rev = v.rev
    BY <2>1 DEF Keeps, Fields
  <2> QED BY <2>1, <2>2, QueueInvKept
<1>6. CASE SetMicOn
  <2>1. Keeps(v', v, {"asked", "ask"}) /\ ~v.asked /\ refuses' = refuses
    BY <1>0, <1>6, SetMicOnDoes
  <2>2. v'.changes = v.changes /\ v'.mic = v.mic
    BY <2>1 DEF Keeps, Fields
  <2>3. ~v.mic /\ v.changes = <<>>
    BY <1>0, <2>1 DEF TrackInv
  <2> QED BY <2>1, <2>2, <2>3, QueueInvKept
<1>7. ASSUME NEW r \in Asks,
             \/ PermissionGranted(r) \/ PermissionDenied(r) \/ GraphResumed(r)
             \/ ChoiceApplied(r)
      PROVE  QueueInv'
  <2>1. starting[r].at \in {"permission", "resume", "apply"} /\ refuses' = refuses
    BY <1>0, <1>7, PermissionGrantedDoes, PermissionDeniedDoes, GraphResumedDoes,
       ChoiceAppliedDoes
  <2>2. CASE v' = v
    BY <2>1, <2>2, QueueInvKept
  <2>3. ASSUME r = v.ask PROVE ~v.mic /\ v.changes = <<>>
    BY <1>0, <2>1, <2>3 DEF TrackInv
  <2>4. CASE \/ r = v.ask /\ Keeps(v', v, {"raw", "applied", "hw"})
             \/ r = v.ask /\ Keeps(v', v, {"asked"})
    <3>1. v'.changes = v.changes /\ v'.mic = v.mic
      BY <2>4 DEF Keeps, Fields
    <3> QED BY <2>1, <2>3, <2>4, <3>1, QueueInvKept
  <2>5. CASE /\ r = v.ask /\ Keeps(v', v, {"hw", "raw", "track", "changes", "asked"})
             /\ v'.changes = <<>>
    <3>1. v'.mic = v.mic
      BY <2>5 DEF Keeps, Fields
    <3> QED BY <2>1, <2>3, <2>5, <3>1, QueueInvKept
  <2>6. ASSUME r = v.ask, starting[r].at \in {"resume", "apply"},
               NEW w, Keeps(w, v, {"track"}), w.track = r, Started(w, r)
        PROVE  QueueInv'
    BY <2>1, <2>6, QueueStarts
  <2>7. CASE PermissionGranted(r)
    BY <1>0, <2>2, <2>4, <2>7, PermissionGrantedDoes
  <2>8. CASE PermissionDenied(r)
    BY <1>0, <2>2, <2>4, <2>8, PermissionDeniedDoes
  <2>9. CASE GraphResumed(r)
    BY <1>0, <2>2, <2>6, <2>9, GraphResumedDoes
  <2>10. CASE ChoiceApplied(r)
    <3>1. CASE r = v.ask /\ Started(v, r)
      <4>1. Keeps(v, v, {"track"})
        BY <1>0 DEF Shape, Keeps
      <4>2. starting[r].at = "apply"
        BY <1>0, <2>10, ChoiceAppliedDoes
      <4>3. v.track = r
        BY <1>0, <3>1, <4>2 DEF TrackInv, CaptureInv
      <4> QED BY <3>1, <4>1, <4>2, <4>3, <2>6
    <3> QED BY <1>0, <2>2, <2>5, <2>10, <3>1, ChoiceAppliedDoes
  <2> QED BY <1>7, <2>7, <2>8, <2>9, <2>10
<1>8. CASE SetEchoCancellation \/ SetNoiseCancellation
  BY <1>8, QueueChoice
<1>9. CASE ReloadSettings
  BY <1>9, QueueReloads
<1>10. CASE ChangeRuns
  BY <1>0, <1>10, QueueChanges
<1>11. CASE ChangeApplied
  BY <1>11, QueueApplied
<1>12. ASSUME NEW x \in v.filtering, NEW ok \in BOOLEAN, FilterStarts(x, ok) PROVE QueueInv'
  BY <1>12, QueueFiltered
<1>13. ASSUME NEW x \in v.going, NEW ok \in BOOLEAN, PublishEnds(x, ok) PROVE QueueInv'
  BY <1>13, QueuePublished
<1>14. CASE UNCHANGED vars
  BY <1>14, QueueInvKept DEF vars
<1> QED
  BY <1>1, <1>2, <1>3, <1>4, <1>5, <1>6, <1>7, <1>8, <1>9, <1>10, <1>11, <1>12, <1>13, <1>14
  DEF Next, Page, Token, LiveKit, Mic, Settings

LEMMA QueueSound ==
  ASSUME Orderly
  PROVE  Spec => [](TypeInv /\ HeardInv /\ QueueInv)
<1>1. Init => QueueInv
  <2>1. ASSUME Init PROVE v.changes = <<>> /\ ~v.mic
    BY <2>1 DEF Init
  <2> QED BY <2>1, QueueEmpty, ReachesSilent DEF QueueInv
<1>2. TypeInv /\ CaptureInv /\ HeardInv /\ QueueInv /\ [Next]_vars => QueueInv'
  BY QueueStep
<1>3. NoBadTiming
  BY DEF Orderly
<1> QED BY <1>1, <1>2, <1>3, TypeCorrect, CaptureSound, HeardSound, PTL DEF Spec

\* While no bad timing loses a track and no third change overtakes two, what goes out
\* has, once the changes are through, the capture and the filter chosen last: whatever
\* was clicked while constraints, a filter or a publication were under way, and
\* whichever track LiveKit refused (voice.ts:774, :823, :973 captureChange).  One noise
\* reducer is then at work, the browser's or the filter (voice.ts:853, :1030).
THEOREM TheLastChoiceWins ==
  ASSUME Orderly
  PROVE  Spec => []LastChoiceWins
<1>1. TypeInv /\ HeardInv /\ QueueInv => LastChoiceWins
  BY QueueEmpty DEF HeardInv, Outgoing, QueueInv, Reaches, Settled, LastChoiceWins, Through
<1> QED BY <1>1, QueueSound, PTL

(***************************************************************************)
(* PART 9.  The connection to the server.                                  *)
(***************************************************************************)
\* NeverStranded alone is not inductive: ready() clears no retry, so it must be
\* known that none is due while there is a socket; and the clock of the outage
\* must not run again before a socket is marked.
RetryAfterFailure == socket # "none" => "retry" \notin timers
OutageOnce        == "outage" \in timers => ~expired
LineInv == TypeOK /\ NeverStranded /\ RetryAfterFailure /\ OutageOnce

---------------------------------------------------------------------------------
(* What the steps are made of.                                             *)

\* A failed connection, not disposed of, leaves a retry and nothing of the socket.
LEMMA FailLine ==
  ASSUME LineInv, ~disposed, Fail, calm' \in 0..Disturbances
  PROVE  LineInv'
<1>1. TypeOK'
  BY ConnectionAssumption
  DEF LineInv, TypeOK, Timers, Fail, LetGo, OutageClock
<1>2. NeverStranded'
  BY DEF LineInv, TypeOK, Fail, LetGo, OutageClock, NeverStranded, WayOn, OutageRuns, Reached
<1>3. RetryAfterFailure' /\ OutageOnce'
  BY DEF LineInv, Fail, OutageClock, RetryAfterFailure, OutageOnce
<1> QED BY <1>1, <1>2, <1>3 DEF LineInv

\* A new attempt, when none is made, has its deadline and no retry.
LEMMA ConnectLine ==
  ASSUME LineInv, ~disposed, Connect, wire' \in BOOLEAN, calm' \in 0..Disturbances
  PROVE  LineInv'
<1>1. TypeOK'
  BY DEF LineInv, TypeOK, Timers, Connect, LetGo, OutageClock
<1>2. NeverStranded'
  BY DEF LineInv, TypeOK, Connect, LetGo, OutageClock, NeverStranded, WayOn, OutageRuns, Reached
<1>3. RetryAfterFailure' /\ OutageOnce'
  BY DEF LineInv, Connect, OutageClock, RetryAfterFailure, OutageOnce
<1> QED BY <1>1, <1>2, <1>3 DEF LineInv

\* Counting a disturbance stays within the bound.
LEMMA CalmBounded ==
  ASSUME TypeOK, Disturb \/ TimesOut \/ UNCHANGED calm
  PROVE  calm' \in 0..Disturbances
BY ConnectionAssumption DEF TypeOK, Disturb, TimesOut

---------------------------------------------------------------------------------
LEMMA LineInvInit == ConnectionInit => LineInv
<1> SUFFICES ASSUME ConnectionInit PROVE LineInv
  OBVIOUS
<1>1. TypeOK
  <2>1. calm \in 0..Disturbances /\ quiet \in Nat
    BY ConnectionAssumption DEF ConnectionInit
  <2>2. wire \in BOOLEAN /\ heard \in BOOLEAN /\ expired \in BOOLEAN
        /\ disposed \in BOOLEAN /\ marked \in BOOLEAN
    BY DEF ConnectionInit
  <2>3. /\ socket \in {"none", "connecting", "open", "closing"} /\ timers \subseteq Timers
        /\ status \in {"connecting", "connected", "reconnecting", "disconnected"}
    BY DEF ConnectionInit, Timers
  <2> QED BY <2>1, <2>2, <2>3 DEF TypeOK
<1>2. NeverStranded
  BY DEF ConnectionInit, NeverStranded, WayOn, OutageRuns, Reached
<1>3. RetryAfterFailure /\ OutageOnce
  BY DEF ConnectionInit, RetryAfterFailure, OutageOnce
<1> QED BY <1>1, <1>2, <1>3 DEF LineInv

LEMMA LineInvNext == LineInv /\ [ConnectionNext]_connection => LineInv'
<1> SUFFICES ASSUME LineInv, [ConnectionNext]_connection PROVE LineInv'
  OBVIOUS
<1>a. TypeOK
  BY DEF LineInv
<1>b. socket # "none" \/ timers # {} => ~disposed
  BY DEF LineInv, NeverStranded
<1>1. CASE Retry
  BY <1>1, <1>a, <1>b, ConnectLine DEF Retry, TypeOK
<1>2. CASE AttemptTimesOut
  BY <1>2, <1>a, <1>b, FailLine, CalmBounded DEF AttemptTimesOut
<1>3. CASE OutageTimesOut
  <2>1. ~disposed
    BY <1>3, <1>b DEF OutageTimesOut
  <2>2. TypeOK'
    BY <1>3, <1>a DEF OutageTimesOut, TypeOK, Timers, LetGo
  <2>3. NeverStranded'
    BY <1>3, <2>1 DEF OutageTimesOut, LetGo, NeverStranded, WayOn, OutageRuns, Reached
  <2>4. RetryAfterFailure' /\ OutageOnce'
    BY <1>3 DEF OutageTimesOut, RetryAfterFailure, OutageOnce
  <2> QED BY <2>2, <2>3, <2>4 DEF LineInv
<1>4. CASE ProbeAnswered
  BY <1>4 DEF ProbeAnswered, LineInv, TypeOK, NeverStranded, WayOn, OutageRuns, Reached,
              RetryAfterFailure, OutageOnce
<1>5. CASE ProbeTimesOut
  BY <1>5, <1>a, <1>b, FailLine, CalmBounded DEF ProbeTimesOut
<1>6. CASE HeartbeatPings
  BY <1>6 DEF HeartbeatPings, LineInv, TypeOK, NeverStranded, WayOn, OutageRuns, Reached,
              RetryAfterFailure, OutageOnce
<1>7. CASE HeartbeatFails
  BY <1>7, <1>a, <1>b, FailLine, CalmBounded DEF HeartbeatFails
<1>8. CASE Opens
  BY <1>8 DEF Opens, LineInv, TypeOK, NeverStranded, WayOn, OutageRuns, Reached,
              RetryAfterFailure, OutageOnce
<1>9. CASE Hears
  BY <1>9 DEF Hears, LineInv, TypeOK, NeverStranded, WayOn, OutageRuns, Reached,
              RetryAfterFailure, OutageOnce
<1>10. CASE HearsReady
  <2>1. ~disposed /\ "retry" \notin timers
    BY <1>10, <1>b DEF HearsReady, LineInv, RetryAfterFailure
  <2>2. TypeOK'
    BY <1>10, <1>a DEF HearsReady, TypeOK, Timers
  <2>3. NeverStranded'
    BY <1>10, <2>1 DEF HearsReady, NeverStranded, WayOn, OutageRuns, Reached
  <2>4. RetryAfterFailure' /\ OutageOnce'
    BY <1>10, <2>1 DEF HearsReady, RetryAfterFailure, OutageOnce
  <2> QED BY <2>2, <2>3, <2>4 DEF LineInv
<1>11. CASE Closing
  <2>1. calm' \in 0..Disturbances
    BY <1>11, <1>a, CalmBounded DEF Closing
  <2> QED BY <1>11, <2>1 DEF Closing, LineInv, TypeOK, NeverStranded, WayOn, OutageRuns, Reached,
              RetryAfterFailure, OutageOnce
<1>12. CASE Closes
  BY <1>12, <1>a, <1>b, FailLine, CalmBounded DEF Closes
<1>13. CASE Cut
  <2>1. calm' \in 0..Disturbances
    BY <1>13, <1>a, CalmBounded DEF Cut
  <2> QED BY <1>13, <2>1 DEF Cut, LineInv, TypeOK, NeverStranded, WayOn, OutageRuns, Reached,
              RetryAfterFailure, OutageOnce
<1>14. CASE WakeConnects
  BY <1>14, <1>a, ConnectLine, CalmBounded DEF WakeConnects
<1>15. CASE WakeProbes
  <2>1. calm' \in 0..Disturbances
    BY <1>15, <1>a, CalmBounded DEF WakeProbes
  <2> QED BY <1>15, <2>1 DEF WakeProbes, LineInv, TypeOK, Timers, NeverStranded, WayOn, OutageRuns,
              Reached, RetryAfterFailure, OutageOnce
<1>16. CASE Offline
  BY <1>16, <1>a, FailLine, CalmBounded DEF Offline
<1>17. CASE Dispose
  BY <1>17 DEF Dispose, LetGo, LineInv, TypeOK, NeverStranded, RetryAfterFailure, OutageOnce
<1>18. CASE UNCHANGED connection
  BY <1>18 DEF connection, LineInv, TypeOK, NeverStranded, WayOn, OutageRuns, Reached,
               RetryAfterFailure, OutageOnce
<1> QED
  BY <1>1, <1>2, <1>3, <1>4, <1>5, <1>6, <1>7, <1>8, <1>9, <1>10, <1>11, <1>12, <1>13,
     <1>14, <1>15, <1>16, <1>17, <1>18 DEF ConnectionNext

LEMMA LineSound == ConnectionSpec => []LineInv
BY LineInvInit, LineInvNext, PTL DEF ConnectionSpec

\* Whatever the network and the user do, and however often, the page is connected,
\* or has a retry or a bounded attempt ahead and the clock of the outage running;
\* once disposed of it has neither socket nor timer (socketConnection.ts).
THEOREM PageNeverStranded == ConnectionSpec => []NeverStranded
<1>1. LineInv => NeverStranded
  BY DEF LineInv
<1> QED BY <1>1, LineSound, PTL

---------------------------------------------------------------------------------
(* The refinement.                                                         *)

\* A failure is one of the link.
LEMMA FailRefines == Fail => L!LinkFail
BY DEF Fail, LetGo, L!LinkFail, L!Dropped

\* Letting go of the socket without a word replaces it.
LEMMA ConnectRefines == Connect => L!LinkReplace
BY DEF Connect, LetGo, L!LinkReplace, L!Dropped

LEMMA ConnectionStepRefines == LineInv /\ [ConnectionNext]_connection => [L!LinkNext]_L!link
<1> SUFFICES ASSUME LineInv, [ConnectionNext]_connection PROVE [L!LinkNext]_L!link
  OBVIOUS
<1>1. CASE Retry
  BY <1>1, ConnectRefines DEF Retry, L!LinkNext
<1>2. CASE AttemptTimesOut
  BY <1>2, FailRefines DEF AttemptTimesOut, L!LinkNext
<1>3. CASE OutageTimesOut
  <2>1. ~expired /\ ~marked
    BY <1>3 DEF OutageTimesOut, LineInv, OutageOnce, NeverStranded, Reached
  <2>2. L!LinkGiveUp
    BY <1>3, <2>1 DEF OutageTimesOut, LetGo, L!LinkGiveUp, L!Dropped
  <2> QED BY <2>2 DEF L!LinkNext
<1>4. CASE ProbeAnswered
  BY <1>4 DEF ProbeAnswered, L!link
<1>5. CASE ProbeTimesOut
  BY <1>5, FailRefines DEF ProbeTimesOut, L!LinkNext
<1>6. CASE HeartbeatPings
  BY <1>6 DEF HeartbeatPings, L!link
<1>7. CASE HeartbeatFails
  BY <1>7, FailRefines DEF HeartbeatFails, L!LinkNext
<1>8. CASE Opens
  BY <1>8 DEF Opens, L!LinkNext, L!LinkOpen
<1>9. CASE Hears
  BY <1>9 DEF Hears, L!link
<1>10. CASE HearsReady
  BY <1>10 DEF HearsReady, L!LinkNext, L!LinkReady
<1>11. CASE Closing
  BY <1>11 DEF Closing, L!link
<1>12. CASE Closes
  BY <1>12, FailRefines DEF Closes, L!LinkNext
<1>13. CASE Cut
  BY <1>13 DEF Cut, L!link
<1>14. CASE WakeConnects
  BY <1>14, ConnectRefines DEF WakeConnects, L!LinkNext
<1>15. CASE WakeProbes
  BY <1>15 DEF WakeProbes, L!link
<1>16. CASE Offline
  BY <1>16, FailRefines DEF Offline, L!LinkNext
<1>17. CASE Dispose
  BY <1>17 DEF Dispose, LetGo, L!LinkNext, L!LinkReplace, L!Dropped
<1>18. CASE UNCHANGED connection
  BY <1>18 DEF connection, L!link
<1> QED
  BY <1>1, <1>2, <1>3, <1>4, <1>5, <1>6, <1>7, <1>8, <1>9, <1>10, <1>11, <1>12, <1>13,
     <1>14, <1>15, <1>16, <1>17, <1>18 DEF ConnectionNext

\* Every step of the connection is a step of the link or none: the page is told
\* to give up only with no socket marked, and once an outage.
THEOREM ConnectionImplementsLink == ConnectionSpec => ImplementsLink
<1>1. ConnectionInit => L!LinkInit
  BY DEF ConnectionInit, L!LinkInit
<1> QED BY <1>1, ConnectionStepRefines, LineSound, PTL
     DEF ConnectionSpec, ImplementsLink, L!LinkSpec
=================================================================================
