---------------------------------- MODULE Voice ---------------------------------
(***************************************************************************)
(* Voice chat in a room (voice.ts): the token the game server mints, the   *)
(* connection to the LiveKit room, the capture of the microphone, its      *)
(* publication, the noise filter in front of it, and the playback of one   *)
(* other player.                                                           *)
(*                                                                         *)
(* v is the VoiceManager with what its calls do outside: v.asking are the  *)
(* token requests under way (in order, by the room they were made in),     *)
(* v.hw the captures that have the microphone open, v.sent what LiveKit    *)
(* was given to publish of ours, v.going the publications under way,       *)
(* v.filtering the tracks whose filter is starting.  A capture and the     *)
(* track made from it are named by the request, v.ask, that started them;  *)
(* 0 is none.                                                              *)
(*                                                                         *)
(* Every await is a step of its own: the token's reply, LiveKit's connect, *)
(* the permission, the resuming of the audio graph, the constraints, the   *)
(* filter, the publication, the retry timer and each change waiting in     *)
(* captureChange.                                                          *)
(***************************************************************************)
EXTENDS Naturals, Sequences, FiniteSets

CONSTANTS
  Rooms, None,
  AskLimit,      \* bound: how often the microphone is asked for or given up, or a room left
  ClickLimit,    \* bound: how often the user changes a setting or the speaker
  FaultLimit,    \* bound: how often clock, network or LiveKit interfere
  Awkward        \* timings and failures that break a promise below, allowed one by one:

AwkwardTimings ==
  {"late reply",        \* the room is left while a token is under way
   "overtaken",         \* a third change while one is applied and one waits
   "filter starting",   \* the microphone goes while its filter is starting
   "room lost",         \* the room is lost while a filter is starting
   "reconnecting",      \* a track should go out while LiveKit reconnects
   "half on",           \* a track goes out while its startMic still applies a choice
   "publish fails"}     \* LiveKit refuses a track, and stays connected

ASSUME VoiceAssumption ==
  /\ None \notin Rooms /\ Awkward \subseteq AwkwardTimings
  /\ AskLimit \in Nat /\ ClickLimit \in Nat /\ FaultLimit \in Nat

VARIABLES
  v,          \* the manager
  starting,   \* startMic, by request: [at, echo]; at is the await it is in
  refuses,    \* the browser refuses an exact echo cancellation
  clicks, faults

vars == <<v, starting, refuses, clicks, faults>>

Asks == 1 .. AskLimit
NoToken == [room |-> None, age |-> "none"]
NoTrack == [track |-> 0, filtered |-> FALSE]
Idle    == [at |-> "idle", echo |-> FALSE]

\* A change of the queue whose turn it is, or whose publication has ended, runs
\* before any event: of the user, of the world, or an answer.
TurnOfChange ==
  /\ v.changes # <<>>
  /\ \/ Head(v.changes).at = "wait"
     \/ Head(v.changes).at = "publish" /\ v.filtering = {} /\ v.going = {}

Click == /\ ~TurnOfChange /\ clicks < ClickLimit
         /\ clicks' = clicks + 1 /\ UNCHANGED <<refuses, faults>>
Fault == /\ ~TurnOfChange /\ faults < FaultLimit
         /\ faults' = faults + 1 /\ UNCHANGED <<refuses, clicks>>
Quiet == ~TurnOfChange /\ UNCHANGED <<refuses, clicks, faults>>

Active(w) == w.mic \/ w.speaker

---------------------------------------------------------------------------------
(* Token and room.                                                         *)

\* A request is not repeated within five seconds, nor made for a fresh token.
RequestToken(w, force) ==
  IF \/ ~w.socket \/ w.room = None
     \/ ~force /\ (w.token.age = "fresh" \/ w.spaced)
  THEN w
  ELSE [w EXCEPT !.spaced = TRUE, !.asking = Append(@, w.room)]

\* connectRoom up to its await: the room is the one the token admits to.
ConnectRoom(w) == [w EXCEPT !.lk = "connecting", !.lkRoom = w.token.room]

EnsureConnected(w) ==
  IF \/ w.room = None \/ ~Active(w)
     \/ w.lk \in {"connecting", "connected", "reconnecting"}
  THEN w
  ELSE IF w.token.age \in {"none", "spent"} THEN RequestToken(w, FALSE)
  ELSE ConnectRoom(w)

IfActive(w) == IF Active(w) THEN EnsureConnected(w) ELSE w

Left(f) == {[x EXCEPT !.gone = TRUE] : x \in f}

\* Mutant: the reference to the published track outlives its room.
DropRoomKeepingTrack(w) ==
  [w EXCEPT !.lk = "none", !.lkRoom = None, !.sent = {},
            !.audio = "none", !.filtering = Left(@)]

\* teardownRoom, and the loss of the room: what was in it is dropped.
DropRoom(w) ==
  [w EXCEPT !.lk = "none", !.lkRoom = None, !.published = NoTrack, !.sent = {},
            !.audio = "none", !.filtering = Left(@)]

---------------------------------------------------------------------------------
(* Microphone.                                                             *)

Constraints(w) == [echo |-> w.echo, suppress |-> ~w.noise]

\* applyCaptureConstraints, on whatever is being captured: the browser takes
\* constraints in the order of the calls, and answers later.
Constrain(w, c) ==
  [w EXCEPT !.applied =
     IF w.raw = 0 THEN @ ELSE [c EXCEPT !.echo = @ /\ ~refuses]]

\* publishTrack up to its await.
Publish(w, t, filtered) ==
  LET out == [track |-> t, filtered |-> filtered]
  IN  [Constrain(w, Constraints(w)) EXCEPT
         !.published = out, !.sent = @ \union {out}, !.going = @ \union {out}]

\* publishMic: with the filter wanted, the track goes out once that has started.
PublishMic(w) ==
  IF w.track = 0 \/ w.published.track # 0 \/ w.lk # "connected" THEN w
  ELSE IF w.noise THEN [w EXCEPT !.filtering = @ \union {[track |-> w.track, gone |-> FALSE]}]
  ELSE Publish(w, w.track, FALSE)

UnpublishMic(w) ==
  [w EXCEPT !.published = NoTrack, !.sent = @ \ {w.published}, !.going = @ \ {w.published}]

ReleaseMic(w) ==
  [w EXCEPT !.hw = @ \ {w.raw}, !.raw = 0, !.track = 0, !.changes = <<>>]

\* applyOutput, for the one other player.
ApplyOutput(w) ==
  [w EXCEPT !.audio =
     IF @ = "none" THEN @ ELSE IF w.speaker /\ ~w.muted THEN "playing" ELSE "muted"]

\* The filter may be starting for a track: by default the microphone stays.
MicStays == "filter starting" \in Awkward \/ v.filtering = {}

---------------------------------------------------------------------------------
(* The page: rooms, and the game socket.                                   *)

\* enterRoom, of the game screen.
EnterRoom(r) ==
  /\ v.room = None /\ Quiet
  /\ v' = IfActive(RequestToken([DropRoom(v) EXCEPT !.room = r], FALSE))
  /\ UNCHANGED starting

\* Mutant: the token of the room stays.
LeaveRoomKeepingToken ==
  /\ v.room # None /\ v.ask < AskLimit /\ MicStays /\ v.asking = <<>> /\ Quiet
  /\ LET w == ReleaseMic(UnpublishMic([v EXCEPT !.asked = FALSE, !.ask = @ + 1]))
     IN  v' = [DropRoom(w) EXCEPT !.room = None, !.mic = FALSE, !.speaker = FALSE]
  /\ UNCHANGED starting

\* leaveRoom: leaving, or giving up after a lost connection.
LeaveRoom ==
  /\ v.room # None /\ v.ask < AskLimit /\ Quiet
  /\ MicStays /\ ("late reply" \in Awkward \/ v.asking = <<>>)
  /\ LET w == ReleaseMic(UnpublishMic([v EXCEPT !.asked = FALSE, !.ask = @ + 1]))
     IN  v' = [DropRoom(w) EXCEPT !.room = None, !.token = NoToken,
                                  !.mic = FALSE, !.speaker = FALSE]
  /\ UNCHANGED starting

\* setLiveKitToken: the server answers for the room it was asked in ...
TokenArrives ==
  /\ v.asking # <<>>
  /\ v' = IfActive([v EXCEPT !.asking = Tail(@),
                             !.token = [room |-> Head(v.asking), age |-> "fresh"]])
  /\ Quiet /\ UNCHANGED starting

\* ... or has no credentials.
TokenRefused ==
  /\ v.asking # <<>> /\ Fault
  /\ v' = [v EXCEPT !.asking = Tail(@)]
  /\ UNCHANGED starting

\* Five seconds pass; a token comes near its end, or too near to connect.
SpacingEnds == v.spaced /\ v' = [v EXCEPT !.spaced = FALSE] /\ Quiet /\ UNCHANGED starting

TokenAges ==
  /\ v.token.age \in {"fresh", "old"} /\ Fault
  /\ v' = [v EXCEPT !.token.age = IF @ = "fresh" THEN "old" ELSE "spent"]
  /\ UNCHANGED starting

\* setSocket(null): what was asked is not answered.
SocketDrops ==
  /\ v.socket /\ Fault
  /\ v' = [v EXCEPT !.socket = FALSE, !.asking = <<>>] /\ UNCHANGED starting

\* onSocketConnected runs before the account is known: the server ignores a
\* request made here.
SocketReturns ==
  /\ ~v.socket
  /\ v' = [IfActive([v EXCEPT !.socket = TRUE]) EXCEPT !.asking = <<>>]
  /\ Quiet /\ UNCHANGED starting

---------------------------------------------------------------------------------
(* LiveKit.                                                                *)

\* connectRoom after its await.
Connected ==
  /\ v.lk = "connecting"
  /\ "half on" \in Awkward \/ v.mic \/ v.track = 0
  /\ v' = PublishMic([v EXCEPT !.lk = "connected"]) /\ Quiet /\ UNCHANGED starting

ConnectFails ==
  /\ v.lk = "connecting" /\ Fault
  /\ v' = [v EXCEPT !.lk = "idle", !.lkRoom = None, !.token = NoToken]
  /\ UNCHANGED starting

\* RoomEvent.Disconnected, unexpected: a new token, and another try in a second.
Disconnected ==
  /\ v.lk \in {"connected", "reconnecting"} /\ Fault
  /\ "room lost" \in Awkward \/ v.filtering = {}
  /\ LET w == DropRoom(v)
     IN  v' = IF Active(w) /\ w.room # None
              THEN [RequestToken(w, TRUE) EXCEPT !.retry = TRUE] ELSE w
  /\ UNCHANGED starting

RetryFires ==
  v.retry /\ v' = IfActive([v EXCEPT !.retry = FALSE]) /\ Quiet /\ UNCHANGED starting

\* LiveKit mends its connection itself and tells nobody.
Reconnecting ==
  /\ v.lk = "connected" /\ Fault
  /\ "reconnecting" \in Awkward \/ (v.asked = v.mic /\ v.changes = <<>>)
  /\ v' = [v EXCEPT !.lk = "reconnecting"] /\ UNCHANGED starting

Reconnected ==
  /\ v.lk = "reconnecting"
  /\ v' = [v EXCEPT !.lk = "connected"] /\ Quiet /\ UNCHANGED starting

Steady == "reconnecting" \in Awkward \/ v.lk # "reconnecting"

\* TrackSubscribed and TrackUnsubscribed, of the other player.
PeerSpeaks ==
  /\ v.lk = "connected" /\ v.audio = "none"
  /\ v' = ApplyOutput([v EXCEPT !.audio = "muted"]) /\ Quiet /\ UNCHANGED starting

PeerStops ==
  /\ v.audio # "none"
  /\ v' = [v EXCEPT !.audio = "none"] /\ Quiet /\ UNCHANGED starting

---------------------------------------------------------------------------------
(* setMic and startMic.                                                    *)

SetMicOn ==
  /\ v.room # None /\ ~v.asked /\ v.ask < AskLimit /\ Steady
  /\ v' = [v EXCEPT !.asked = TRUE, !.ask = @ + 1]
  /\ starting' = [starting EXCEPT ![v.ask + 1] = [at |-> "permission", echo |-> v.echo]]
  /\ Quiet

\* The button turns off only what has come on.
SetMicOff ==
  /\ v.mic /\ v.ask < AskLimit /\ MicStays
  /\ v' = [ReleaseMic(UnpublishMic(v)) EXCEPT !.asked = FALSE, !.ask = @ + 1, !.mic = FALSE]
  /\ Quiet /\ UNCHANGED starting

Stop(r) == starting' = [starting EXCEPT ![r] = Idle]

\* The end of startMic and of setMic, once the constraints are the wanted ones.
Started(w, r) ==
  IF starting[r].echo # w.echo
  THEN /\ v' = Constrain(w, Constraints(w))
       /\ starting' = [starting EXCEPT ![r] = [at |-> "apply", echo |-> w.echo]]
  ELSE /\ LET p == PublishMic([w EXCEPT !.micEcho = w.echo])
              on == [p EXCEPT !.mic = TRUE]
          IN  v' = IF Active(w) THEN on ELSE EnsureConnected(on)
       /\ Stop(r)

\* Mutant: a permission is taken whenever it comes.
PermissionGrantedLate(r) ==
  /\ starting[r].at = "permission"
  /\ v' = [Constrain([v EXCEPT !.raw = r], [Constraints(v) EXCEPT !.echo = starting[r].echo])
             EXCEPT !.hw = @ \union {r}]
  /\ starting' = [starting EXCEPT ![r].at = "resume"]
  /\ Quiet

\* A permission that comes too late is not used.
PermissionGranted(r) ==
  /\ starting[r].at = "permission"
  /\ IF r # v.ask THEN Stop(r) /\ UNCHANGED v
     ELSE /\ v' = [Constrain([v EXCEPT !.raw = r],
                             [Constraints(v) EXCEPT !.echo = starting[r].echo])
                     EXCEPT !.hw = @ \union {r}]
          /\ starting' = [starting EXCEPT ![r].at = "resume"]
  /\ Quiet

PermissionDenied(r) ==
  /\ starting[r].at = "permission" /\ Stop(r) /\ Fault
  /\ v' = IF r # v.ask THEN v ELSE [v EXCEPT !.asked = FALSE]

\* The audio graph runs: the track exists.
GraphResumed(r) ==
  /\ starting[r].at = "resume"
  /\ IF r # v.ask THEN Stop(r) /\ UNCHANGED v ELSE Started([v EXCEPT !.track = r], r)
  /\ Quiet

\* The choice changed meanwhile: the new one is accepted, or refused.
ChoiceApplied(r) ==
  /\ starting[r].at = "apply"
  /\ \/ r # v.ask /\ Stop(r) /\ UNCHANGED v
     \/ /\ r = v.ask /\ ~(refuses /\ starting[r].echo)
        /\ Started(v, r)
     \/ /\ r = v.ask /\ refuses /\ starting[r].echo
        /\ v' = [ReleaseMic(v) EXCEPT !.asked = FALSE] /\ Stop(r)
  /\ Quiet

---------------------------------------------------------------------------------
(* Settings during a call: captureChange is a queue of changes.            *)

Change(w, kind) ==
  [kind |-> kind, rev |-> w.rev, ask |-> w.ask, at |-> "wait", to |-> Constraints(w)]

\* A change is queued while the microphone is on, else startMic picks it up.
MayChange == "overtaken" \in Awkward \/ Len(v.changes) < 2
Changed(w, kind) ==
  IF w.mic THEN [w EXCEPT !.changes = Append(@, Change(w, kind))] ELSE w

SetEchoCancellation ==
  /\ Click /\ MayChange
  /\ v' = Changed([v EXCEPT !.echo = ~@, !.rev = @ + 1], "echo") /\ UNCHANGED starting

SetNoiseCancellation ==
  /\ Click /\ MayChange /\ MicStays /\ Steady
  /\ v' = Changed([v EXCEPT !.noise = ~@, !.rev = @ + 1], "noise") /\ UNCHANGED starting

\* reloadSettings: the account's copy replaces the choices.
ReloadSettings ==
  /\ Click /\ MayChange /\ MicStays /\ Steady
  /\ \E e, n, m \in BOOLEAN :
       LET w == [v EXCEPT !.echo = e, !.noise = n, !.muted = m]
           c == Constrain(ApplyOutput(w), Constraints(w))
       IN  v' = IF n # v.noise /\ v.published.track # 0
                THEN [c EXCEPT !.changes = Append(@, Change(c, "reload"))] ELSE c
  /\ UNCHANGED starting

Overtaken(w, c) == c.kind # "reload" /\ (c.ask # w.ask \/ c.rev # w.rev)
Done(w) == [w EXCEPT !.changes = Tail(@)]
At(w, stage) ==
  [w EXCEPT !.changes[1] = [@ EXCEPT !.at = stage, !.to = Constraints(w)]]
Apply(w)   == At(Constrain(w, Constraints(w)), "apply")
ToApply(w) == IF Overtaken(w, Head(w.changes)) THEN Done(w) ELSE Apply(w)

Republished(w) ==
  At(PublishMic(UnpublishMic(w)), "publish")

\* Mutant: the filter is only taken into account by the next publication.
ChangeRunsNoRebuild ==
  /\ TurnOfChange
  /\ v' = ToApply(v) /\ UNCHANGED <<starting, refuses, clicks, faults>>

\* The filter rides the published track, which is built anew; the change goes on
\* once that has ended.
ChangeRuns ==
  /\ TurnOfChange
  /\ LET c == Head(v.changes) IN
     v' = IF c.at = "publish" THEN ToApply(v)
          ELSE IF Overtaken(v, c) THEN Done(v)
          ELSE IF c.kind = "echo" THEN Apply(v)
          ELSE IF v.published.track # 0 THEN Republished(v)
          ELSE IF c.kind = "reload" THEN Done(v) ELSE Apply(v)
  /\ UNCHANGED <<starting, refuses, clicks, faults>>

\* The browser answers: applied, or refused, and then the last choice is taken back.
ChangeApplied ==
  /\ v.changes # <<>> /\ Head(v.changes).at = "apply"
  /\ LET c == Head(v.changes)
         refused == refuses /\ c.to.echo
         w == Done(v)
     IN  v' = IF c.kind # "echo" \/ c.ask # v.ask THEN w
              ELSE IF ~refused THEN [w EXCEPT !.micEcho = c.to.echo]
              ELSE IF c.rev = v.rev THEN [w EXCEPT !.echo = v.micEcho]
              ELSE w
  /\ Quiet /\ UNCHANGED starting

\* publishMic after its await: with the filter, or plain and the choice undone.
FilterStarts(x, ok) ==
  /\ LET w == [v EXCEPT !.filtering = @ \ {x}, !.noise = @ /\ ok]
         p == Publish(w, x.track, ok)
     IN  v' = IF x.gone THEN [p EXCEPT !.sent = v.sent] ELSE p
  /\ IF ok THEN Quiet ELSE Fault
  /\ UNCHANGED starting

\* publishTrack answers.  A track of a room that is gone is refused, and any
\* other may be; what the manager takes for published is then forgotten, and
\* nothing tries again.
PublishEnds(x, ok) ==
  /\ IF ok THEN x \in v.sent /\ Quiet
     ELSE IF x \in v.sent THEN "publish fails" \in Awkward /\ Fault ELSE Quiet
  /\ v' = IF ok THEN [v EXCEPT !.going = @ \ {x}]
          ELSE [v EXCEPT !.going = @ \ {x}, !.sent = @ \ {x},
                         !.published = IF @ = x THEN NoTrack ELSE @]
  /\ UNCHANGED starting

---------------------------------------------------------------------------------
(* Listening.                                                              *)

SetSpeaker ==
  /\ v.room # None /\ Click
  /\ LET w == [v EXCEPT !.speaker = ~@]
     IN  v' = ApplyOutput(IF w.speaker /\ ~Active(v) THEN EnsureConnected(w) ELSE w)
  /\ UNCHANGED starting

ToggleMutePeer ==
  Click /\ v' = ApplyOutput([v EXCEPT !.muted = ~@]) /\ UNCHANGED starting

---------------------------------------------------------------------------------
Init ==
  /\ v = [room |-> None, socket |-> TRUE, token |-> NoToken, spaced |-> FALSE,
          asking |-> <<>>, lk |-> "none", lkRoom |-> None, retry |-> FALSE,
          speaker |-> FALSE, mic |-> FALSE, asked |-> FALSE, ask |-> 0,
          hw |-> {}, raw |-> 0, track |-> 0, published |-> NoTrack, sent |-> {},
          going |-> {}, filtering |-> {}, echo |-> FALSE, noise |-> FALSE, micEcho |-> FALSE,
          applied |-> [echo |-> FALSE, suppress |-> TRUE], rev |-> 0, changes |-> <<>>,
          muted |-> FALSE, audio |-> "none"]
  /\ starting = [r \in Asks |-> Idle]
  /\ refuses \in BOOLEAN
  /\ clicks = 0 /\ faults = 0

Page == (\E r \in Rooms : EnterRoom(r)) \/ LeaveRoom \/ SocketDrops \/ SocketReturns
Token == TokenArrives \/ TokenRefused \/ SpacingEnds \/ TokenAges
LiveKit ==
  \/ Connected \/ ConnectFails \/ Disconnected \/ RetryFires
  \/ Reconnecting \/ Reconnected \/ PeerSpeaks \/ PeerStops
Mic ==
  \/ SetMicOn \/ SetMicOff
  \/ \E r \in Asks : PermissionGranted(r) \/ PermissionDenied(r) \/ GraphResumed(r)
                     \/ ChoiceApplied(r)
Settings ==
  \/ SetEchoCancellation \/ SetNoiseCancellation \/ ReloadSettings
  \/ ChangeRuns \/ ChangeApplied \/ SetSpeaker \/ ToggleMutePeer
  \/ \E x \in v.filtering, ok \in BOOLEAN : FilterStarts(x, ok)
  \/ \E x \in v.going, ok \in BOOLEAN : PublishEnds(x, ok)

Next == Page \/ Token \/ LiveKit \/ Mic \/ Settings

Spec == Init /\ [][Next]_vars

---------------------------------------------------------------------------------
(* Properties.                                                             *)

\* Nobody is recorded unasked: only the capture asked for last has the
\* microphone, in a room, until it is given up.
RecordsOnlyWhenAsked == v.hw # {} => v.hw = {v.ask} /\ v.asked /\ v.room # None

\* The other player plays exactly while the speaker is on and they are not muted.
PlaysWhatIsAsked ==
  /\ (v.audio = "playing") = (v.audio # "none" /\ v.speaker /\ ~v.muted)
  /\ v.audio # "none" => v.lk \in {"connected", "reconnecting"}

\* A microphone that looks on is heard by the room, once nothing of it is under way.
MicIsHeard ==
  v.mic /\ v.lk = "connected" /\ v.filtering = {} /\ v.going = {} /\ v.changes = <<>>
    => v.track # 0 /\ \E t \in v.sent : t.track = v.track

\* What the controls show is what room and player hear.
HeardAsShown == MicIsHeard /\ PlaysWhatIsAsked

\* Voice is connected to the room the player is in.
VoiceStaysInRoom == v.lk \notin {"none", "idle"} => v.lkRoom = v.room

\* Once the changes are through, the capture and the filter of what goes out are
\* the last choice; so one noise reducer is at work, the browser's or the filter
\* (voice.ts:853, 1030).
Through == v.mic /\ v.filtering = {} /\ v.changes = <<>> /\ ~refuses
LastChoiceWins ==
  Through /\ v.sent # {} =>
    v.applied = Constraints(v) /\ \A t \in v.sent : t.filtered = v.noise
=================================================================================
