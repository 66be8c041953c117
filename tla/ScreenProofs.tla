------------------------------ MODULE ScreenProofs ------------------------------
(***************************************************************************)
(* Proofs about the three parts of the page that keep a state of their     *)
(* own: module Scenes (what the screens show), module Page (the music they *)
(* play, at the level the player keeps) and module TableScreen (a finger   *)
(* on the cards).                                                          *)
(*                                                                         *)
(* 1. For any assets and any number of screens: what was loaded stays      *)
(*    loaded, and a screen shows without a fallback only what is loaded.   *)
(* 2. For any preferences, screens and number of disturbances: one loop is *)
(*    heard at most, that of the screen on show, as loud as the player     *)
(*    asked for.  A screen must not be opened again while its own track is *)
(*    loading (~Hasty): then the code starts two loops.                    *)
(* 3. For any cards and however many clearings of heldRef are under way:   *)
(*    the table tells taps from holds.                                     *)
(* 4. For any cards of a deck of 52: the name the browser gives a hand is  *)
(*    the best that can be made of it, and so is the one on the screen.    *)
(***************************************************************************)
EXTENDS Scenes, Page, TableScreen, FiniteSetTheorems, FunctionTheorems, TLAPS

---------------------------------------------------------------------------------
(* 1. Scenes.                                                              *)

TaskStates == {"none", "loading", "ready"}
BatchState == [state : {"off", "waiting", "done"}, left : SUBSET Assets, failed : SUBSET Assets]

\* The type of the state: every asset has a task or none, every batch counts on
\* assets only.
SceneShape ==
  /\ tasks \in [Assets -> TaskStates]
  /\ stale \in [Assets -> Nat]
  /\ batch \in [Batches -> BatchState]

SceneInv == SceneShape /\ ShowsTheLoaded

---------------------------------------------------------------------------------
(* Operators.                                                              *)

LEMMA UrlsAreAssets == \A b \in Batches : Urls[b] \subseteq Assets
BY DEF Urls, Batches, Assets

\* A batch ends with its type, and what it does not miss is loaded.
LEMMA FinishedShowsLoaded ==
  ASSUME NEW b \in Batches, tasks' \in [Assets -> TaskStates]
  PROVE  /\ Finished(b) \in BatchState
         /\ Urls[b] \ Finished(b).failed \subseteq Ready'
BY UrlsAreAssets DEF Finished, Missing, Ready, BatchState

\* A batch that was done may stay as it is when nothing is lost.
LEMMA DoneStays ==
  ASSUME SceneInv, Ready \subseteq Ready', NEW b \in Batches, batch'[b].state = "done",
         batch'[b].failed = batch[b].failed, batch[b].state = "done"
  PROVE  Urls[b] \ batch'[b].failed \subseteq Ready'
BY DEF SceneInv, ShowsTheLoaded

\* A step is fine if it loses nothing and each batch keeps its failures, is not
\* done, or ends now.
LEMMA SceneStepInv ==
  ASSUME SceneInv, tasks' \in [Assets -> TaskStates], stale' \in [Assets -> Nat],
         Ready \subseteq Ready', DOMAIN batch' = Batches, batch' = [b \in Batches |-> batch'[b]],
         \A b \in Batches :
           \/ batch'[b] = Finished(b)
           \/ /\ batch'[b] \in BatchState
              /\ batch'[b].state = "done" => /\ batch[b].state = "done"
                                             /\ batch'[b].failed = batch[b].failed
  PROVE  SceneInv'
<1>1. ASSUME NEW b \in Batches
      PROVE  /\ batch'[b] \in BatchState
             /\ batch'[b].state = "done" => Urls[b] \ batch'[b].failed \subseteq Ready'
  <2>1. CASE batch'[b] = Finished(b)
    BY <2>1, FinishedShowsLoaded
  <2>2. CASE batch'[b] # Finished(b)
    BY <2>2, DoneStays
  <2> QED BY <2>1, <2>2
<1>2. batch' \in [Batches -> BatchState]
  BY <1>1
<1>3. Urls' = Urls /\ Batches' = Batches
  BY DEF Urls, Batches
<1>4. ShowsTheLoaded'
  BY <1>1, <1>3 DEF ShowsTheLoaded
<1> QED BY <1>2, <1>4 DEF SceneInv, SceneShape, TaskStates, BatchState

---------------------------------------------------------------------------------
(* The steps.                                                              *)

LEMMA SceneInitInv == ScenesInit => SceneInv
<1> SUFFICES ASSUME ScenesInit PROVE SceneInv
  OBVIOUS
<1>1. Critical \subseteq Assets
  BY DEF Assets
<1>2. tasks \in [Assets -> TaskStates] /\ stale \in [Assets -> Nat]
  BY DEF ScenesInit, TaskStates
<1>3. Left(Critical) \in BatchState /\ Off \in BatchState
  BY <1>1 DEF Left, Off, BatchState
<1>4. batch \in [Batches -> BatchState]
  BY <1>3 DEF ScenesInit
<1>5. ShowsTheLoaded
  BY DEF ScenesInit, ShowsTheLoaded, Left, Off
<1> QED BY <1>2, <1>4, <1>5 DEF SceneInv, SceneShape

\* A request resolves.
LEMMA SceneSettleInv ==
  ASSUME SceneInv, NEW a \in Assets, NEW outcome \in {"none", "ready"},
         tasks[a] = "loading", Settle(a, outcome), stale' \in [Assets -> Nat]
  PROVE  SceneInv' /\ Ready \subseteq Ready'
<1>1. tasks' \in [Assets -> TaskStates] /\ Ready \subseteq Ready'
  BY DEF SceneInv, SceneShape, TaskStates, Settle, Ready
<1>2. DOMAIN batch' = Batches /\ batch' = [b \in Batches |-> batch'[b]]
  BY DEF Settle
<1>3. ASSUME NEW b \in Batches
      PROVE  \/ batch'[b] = Finished(b)
             \/ /\ batch'[b] \in BatchState
                /\ batch'[b].state = batch[b].state /\ batch'[b].failed = batch[b].failed
  <2>1. batch[b] \in BatchState
    BY DEF SceneInv, SceneShape
  <2>2. [batch[b] EXCEPT !.left = @ \ {a}] \in BatchState
    BY <2>1 DEF BatchState
  <2>3. \/ batch'[b] = batch[b] \/ batch'[b] = Finished(b)
        \/ batch'[b] = [batch[b] EXCEPT !.left = @ \ {a}]
    BY DEF Settle
  <2> QED BY <2>1, <2>2, <2>3 DEF BatchState
<1> QED BY <1>1, <1>2, <1>3, SceneStepInv

\* The assets of a batch are asked for.
LEMMA SceneLoadInv ==
  ASSUME SceneInv, NEW b \in Batches, Load(b)
  PROVE  SceneInv' /\ Ready \subseteq Ready'
<1>1. tasks' \in [Assets -> TaskStates] /\ Ready \subseteq Ready' /\ stale' \in [Assets -> Nat]
  BY DEF SceneInv, SceneShape, TaskStates, Load, Loading, Ready
<1> DEFINE left == {a \in Urls[b] : tasks'[a] = "loading"}
<1>2. batch' = [batch EXCEPT ![b] = IF left = {} THEN Finished(b) ELSE Left(left)]
  BY DEF Load
<1>3. Left(left) \in BatchState /\ Left(left).state # "done"
  BY UrlsAreAssets DEF Left, BatchState
<1> HIDE DEF left
<1>4. batch \in [Batches -> BatchState]
  BY DEF SceneInv, SceneShape
<1>5. DOMAIN batch' = Batches /\ batch' = [c \in Batches |-> batch'[c]]
  BY <1>2, <1>4
<1>6. \A c \in Batches :
        \/ batch'[c] = Finished(c)
        \/ /\ batch'[c] \in BatchState
           /\ batch'[c].state = "done" => /\ batch[c].state = "done"
                                          /\ batch'[c].failed = batch[c].failed
  BY <1>2, <1>3, <1>4
<1> QED BY <1>1, <1>5, <1>6, SceneStepInv

\* One batch ends or is forgotten; the requests go on.
LEMMA SceneEndInv ==
  ASSUME SceneInv, NEW b \in Batches, UNCHANGED <<tasks, stale>>,
         batch' = [batch EXCEPT ![b] = Finished(b)] \/ batch' = [batch EXCEPT ![b] = Off]
  PROVE  SceneInv' /\ Ready \subseteq Ready'
<1>1. tasks' \in [Assets -> TaskStates] /\ stale' \in [Assets -> Nat]
  BY DEF SceneInv, SceneShape
<1>2. Ready \subseteq Ready'
  BY DEF Ready
<1>3. batch \in [Batches -> BatchState]
  BY DEF SceneInv, SceneShape
<1>4. Off \in BatchState /\ Off.state # "done"
  BY DEF Off, BatchState
<1>5. DOMAIN batch' = Batches /\ batch' = [c \in Batches |-> batch'[c]]
  BY <1>3
<1>6. \A c \in Batches :
        \/ batch'[c] = Finished(c)
        \/ /\ batch'[c] \in BatchState
           /\ batch'[c].state = "done" => /\ batch[c].state = "done"
                                          /\ batch'[c].failed = batch[c].failed
  BY <1>3, <1>4
<1> QED BY <1>1, <1>2, <1>5, <1>6, SceneStepInv

\* The batches and the tasks stay as they are.
LEMMA SceneQuietInv ==
  ASSUME SceneInv, UNCHANGED <<tasks, batch>>, stale' \in [Assets -> Nat]
  PROVE  SceneInv' /\ Ready \subseteq Ready'
BY DEF SceneInv, SceneShape, ShowsTheLoaded, Ready, Urls, Batches

LEMMA SceneNextInv == SceneInv /\ [ScenesNext]_scenes => SceneInv' /\ Ready \subseteq Ready'
<1> SUFFICES ASSUME SceneInv, [ScenesNext]_scenes PROVE SceneInv' /\ Ready \subseteq Ready'
  OBVIOUS
<1>s. stale \in [Assets -> Nat]
  BY DEF SceneInv, SceneShape
<1>1. ASSUME NEW a \in Assets, Loads(a) PROVE SceneInv' /\ Ready \subseteq Ready'
  BY <1>1, <1>s, SceneSettleInv DEF Loads
<1>2. ASSUME NEW a \in Assets, Fails(a) PROVE SceneInv' /\ Ready \subseteq Ready'
  BY <1>2, <1>s, SceneSettleInv DEF Fails
<1>3. ASSUME NEW a \in Assets, GivesUp(a) PROVE SceneInv' /\ Ready \subseteq Ready'
  BY <1>3, <1>s, SceneSettleInv DEF GivesUp
<1>4. ASSUME NEW a \in Assets, AnsweredLate(a) PROVE SceneInv' /\ Ready \subseteq Ready'
  <2>1. stale' \in [Assets -> Nat]
    BY <1>4, <1>s DEF AnsweredLate
  <2> QED BY <1>4, <2>1, SceneQuietInv DEF AnsweredLate
<1>5. ASSUME NEW b \in Batches, Deadline(b) PROVE SceneInv' /\ Ready \subseteq Ready'
  BY <1>5, SceneEndInv DEF Deadline
<1>6. CASE Reveal
  BY <1>6, <1>s, SceneQuietInv DEF Reveal
<1>7. CASE WarmUp \/ WarmUpLater
  BY <1>7, SceneLoadInv DEF WarmUp, WarmUpLater, Batches
<1>8. ASSUME NEW s \in {"room", "recharge"}, Open(s) PROVE SceneInv' /\ Ready \subseteq Ready'
  BY <1>8, SceneLoadInv DEF Open, Batches
<1>9. ASSUME NEW s \in {"room", "recharge"}, Close(s) PROVE SceneInv' /\ Ready \subseteq Ready'
  BY <1>9, SceneEndInv DEF Close, Batches
<1>10. CASE UNCHANGED scenes
  BY <1>10, <1>s, SceneQuietInv DEF scenes
<1> QED
  BY <1>1, <1>2, <1>3, <1>4, <1>5, <1>6, <1>7, <1>8, <1>9, <1>10
  DEF ScenesNext, Network, Browser, Viewer

LEMMA SceneInductive == ScenesSpec => []SceneInv
BY SceneInitInv, SceneNextInv, PTL DEF ScenesSpec

---------------------------------------------------------------------------------
(* The theorems.                                                           *)

\* For any batches sharing any requests, whatever ends early, fails or is given
\* up, what a screen shows without a fallback is loaded (preload.ts).
THEOREM ScreensShowTheLoaded == ScenesSpec => []ShowsTheLoaded
<1>1. SceneInv => ShowsTheLoaded
  BY DEF SceneInv
<1> QED BY <1>1, SceneInductive, PTL

\* No answer that comes late, and no other screen's failure, takes away an asset
\* that was loaded.
THEOREM WhatIsLoadedStays == ScenesSpec => LoadedStays
<1>1. SceneInv /\ [ScenesNext]_scenes => [\A a \in Ready : tasks'[a] = "ready"]_scenes
  BY SceneNextInv DEF Ready
<1> QED BY <1>1, SceneInductive, PTL DEF ScenesSpec, LoadedStays

---------------------------------------------------------------------------------
(* 2. Page.                                                                *)

MusicShape ==
  /\ screen \in Tracks \union {Quiet} /\ loads \in [Tracks -> Nat]
  /\ DOMAIN local = Fields

\* A call waits at most for the screen's track to load, and for nothing once its
\* loop plays.
OneCall ==
  /\ \A t \in Tracks : loads[t] <= 1
  /\ source # Quiet => loads[source] = 0

\* A cached level is the one the browser stores.
CacheIsRight == cachedVol \in {Uncached, Kept(local)}

PageInv == MusicShape /\ track = screen /\ OneCall /\ CacheIsRight /\ MusicAsAsked

LEMMA PageInitInv == PageInit => PageInv
<1> SUFFICES ASSUME PageInit PROVE PageInv
  OBVIOUS
<1>1. MusicShape
  BY DEF PageInit, MusicInit, PrefsInit, MusicShape, Nothing
<1>2. track = screen /\ OneCall /\ CacheIsRight /\ MusicAsAsked
  BY DEF PageInit, MusicInit, OneCall, CacheIsRight, MusicAsAsked, OneLoop, LoudAsAsked
<1> QED BY <1>1, <1>2 DEF PageInv

\* Neither the browser's copy nor the music changes.
LEMMA PageQuietInv ==
  ASSUME PageInv, UNCHANGED local, UNCHANGED music
  PROVE  PageInv'
BY DEF PageInv, MusicShape, OneCall, CacheIsRight, MusicAsAsked, OneLoop, LoudAsAsked, Kept, music

\* The level is read again after the browser's copy changed.
LEMMA PageLevelInv ==
  ASSUME PageInv, DOMAIN local' = Fields, cachedVol' = Kept(local'),
         gain' = IF source # Quiet THEN Kept(local') ELSE gain,
         UNCHANGED <<screen, track, source, loads, strays>>
  PROVE  PageInv'
BY DEF PageInv, MusicShape, OneCall, CacheIsRight, MusicAsAsked, OneLoop, LoudAsAsked, Kept

\* The account's preferences arrive.
LEMMA PageTakesInInv == PageInv /\ TakesIn => PageInv'
<1> SUFFICES ASSUME PageInv, TakesIn PROVE PageInv'
  OBVIOUS
<1>1. CASE HasStored(Head(answers))
  <2>1. DOMAIN local' = Fields
    BY <1>1 DEF TakesIn, UserInfo, SignedIn, Adopted
  <2>2. ReadAgain(Kept(local'))
    BY <1>1 DEF TakesIn
  <2>3. /\ cachedVol' = Kept(local') /\ gain' = IF source # Quiet THEN Kept(local') ELSE gain
        /\ UNCHANGED <<screen, track, source, loads, strays>>
    BY <2>2 DEF ReadAgain, VolumeApplied
  <2> QED BY <2>1, <2>3, PageLevelInv
<1>2. CASE ~HasStored(Head(answers))
  BY <1>2, PageQuietInv DEF TakesIn, UserInfo, SignedIn
<1> QED BY <1>1, <1>2

\* A setting changes; the volume is told to the music.
LEMMA PageChangeInv ==
  ASSUME PageInv, NEW f \in Fields, NEW v \in Values, Change(f, v, up),
         IF f = Bgm THEN SetVolume(v) ELSE UNCHANGED music
  PROVE  PageInv'
<1>1. DOMAIN local = Fields
  BY DEF PageInv, MusicShape
<1>2. local' = [local EXCEPT ![f] = v]
  BY DEF Change, Chosen
<1>3. DOMAIN local' = Fields
  BY <1>1, <1>2
<1>4. CASE f = Bgm
  <2>1. v # Unset
    BY PreferencesAssumption DEF Unset
  <2>2. Kept(local') = v
    BY <1>1, <1>2, <1>4, <2>1 DEF Kept
  <2> QED BY <1>3, <1>4, <2>2, PageLevelInv DEF SetVolume
<1>5. CASE f # Bgm
  <2>1. Kept(local') = Kept(local)
    BY <1>1, <1>2, <1>5, PageAssumption DEF Kept
  <2>2. UNCHANGED <<screen, track, source, gain, cachedVol, loads, strays>>
    BY <1>5 DEF music
  <2> QED
    BY <1>3, <2>1, <2>2
    DEF PageInv, MusicShape, OneCall, CacheIsRight, MusicAsAsked, OneLoop, LoudAsAsked
<1> QED BY <1>4, <1>5

\* Another screen starts its track.
LEMMA PageShowInv ==
  ASSUME PageInv, ~Hasty, NEW next \in Tracks \union {Quiet}, Show(next), UNCHANGED local
  PROVE  PageInv'
<1>1. loads \in [Tracks -> Nat] /\ (next \in Tracks => loads[next] = 0)
  BY DEF PageInv, MusicShape, Show
<1>2. loads' \in [Tracks -> Nat] /\ \A t \in Tracks : loads'[t] <= 1
  BY <1>1 DEF PageInv, OneCall, Show
<1>3. MusicShape' /\ track' = screen' /\ source' = Quiet /\ strays' = 0
  BY <1>2 DEF PageInv, MusicShape, Show, StopBgm, MusicAsAsked, OneLoop
<1>4. CacheIsRight'
  BY DEF PageInv, CacheIsRight, Show, Kept
<1> QED BY <1>2, <1>3, <1>4 DEF PageInv, OneCall, MusicAsAsked, OneLoop, LoudAsAsked

\* A track is there, and its loop starts if its screen is still on show.
LEMMA PageLoadedInv ==
  ASSUME PageInv, NEW t \in Tracks, Loaded(t, Kept(local)), UNCHANGED local
  PROVE  PageInv'
<1>1. /\ loads \in [Tracks -> Nat] /\ loads[t] = 1
      /\ loads' = [loads EXCEPT ![t] = @ - 1]
  BY DEF PageInv, MusicShape, OneCall, Loaded
<1>2. loads' \in [Tracks -> Nat] /\ loads'[t] = 0 /\ \A s \in Tracks : loads'[s] <= loads[s]
  BY <1>1
<1>3. Kept(local') = Kept(local)
  BY DEF Kept
<1>4. CASE track # t
  <2>1. UNCHANGED <<screen, track, source, gain, cachedVol, strays>>
    BY <1>4 DEF Loaded
  <2>2. source # Quiet => source \in Tracks /\ source # t
    BY <1>4, MusicAssumption DEF PageInv, MusicShape, MusicAsAsked, OneLoop
  <2>3. OneCall'
    BY <1>1, <1>2, <2>1, <2>2 DEF PageInv, OneCall
  <2> QED
    BY <1>2, <1>3, <2>1, <2>3
    DEF PageInv, MusicShape, CacheIsRight, MusicAsAsked, OneLoop, LoudAsAsked
<1>5. CASE track = t
  <2>1. source = Quiet
    BY <1>1, <1>5 DEF PageInv, OneCall, MusicAsAsked, OneLoop
  <2>2. Volume(Kept(local)) = Kept(local)
    BY DEF PageInv, CacheIsRight, Volume
  <2>3. /\ source' = t /\ gain' = Kept(local) /\ cachedVol' = Kept(local) /\ strays' = strays
        /\ UNCHANGED <<screen, track>>
    BY <1>5, <2>1, <2>2 DEF Loaded
  <2>4. OneCall'
    BY <1>1, <1>2, <2>3 DEF PageInv, OneCall
  <2> QED
    BY <1>2, <1>3, <1>5, <2>3, <2>4
    DEF PageInv, MusicShape, CacheIsRight, MusicAsAsked, OneLoop, LoudAsAsked
<1> QED BY <1>4, <1>5

LEMMA PageLoadFailsInv ==
  ASSUME PageInv, NEW t \in Tracks, LoadFails(t), UNCHANGED local
  PROVE  PageInv'
<1>1. loads \in [Tracks -> Nat] /\ loads[t] = 1 /\ loads' = [loads EXCEPT ![t] = @ - 1]
  BY DEF PageInv, MusicShape, OneCall, LoadFails
<1>2. loads' \in [Tracks -> Nat] /\ \A s \in Tracks : loads'[s] <= loads[s]
  BY <1>1
<1>3. UNCHANGED <<screen, track, source, gain, cachedVol, strays>> /\ Kept(local') = Kept(local)
  BY DEF LoadFails, Kept
<1>4. source # Quiet => source \in Tracks
  BY DEF PageInv, MusicShape, MusicAsAsked, OneLoop
<1>5. OneCall'
  BY <1>1, <1>2, <1>3, <1>4 DEF PageInv, OneCall
<1> QED
  BY <1>2, <1>3, <1>5 DEF PageInv, MusicShape, CacheIsRight, MusicAsAsked, OneLoop, LoudAsAsked

LEMMA PageNextInv ==
  ASSUME ~Hasty
  PROVE  PageInv /\ [PageNext]_page => PageInv'
<1> SUFFICES ASSUME PageInv, [PageNext]_page PROVE PageInv'
  OBVIOUS
<1>1. CASE PageOpens
  BY <1>1, PageQuietInv DEF PageOpens, Flush
<1>2. CASE Answered
  BY <1>2, PageTakesInInv, PageQuietInv DEF Answered, SessionExpired, prefs
<1>3. CASE Quits
  BY <1>3, PageQuietInv DEF Quits, Lost
<1>4. CASE Saves
  BY <1>4, PageQuietInv DEF Saves, SaveDue
<1>5. CASE Serves
  BY <1>5, PageQuietInv DEF Serves, ServerSaves, ServerAnswers
<1>6. CASE Account
  BY <1>6, PageQuietInv DEF Account, ServerAnswers, OtherDevice, SignIn
<1>7. CASE User
  BY <1>7, PageChangeInv, PageShowInv, PageLoadFailsInv DEF User, prefs
<1>8. CASE Plays
  BY <1>8, PageLoadedInv DEF Plays, prefs
<1>9. CASE UNCHANGED page
  BY <1>9, PageQuietInv DEF page, prefs
<1> QED BY <1>1, <1>2, <1>3, <1>4, <1>5, <1>6, <1>7, <1>8, <1>9 DEF PageNext

\* Whatever loads late or fails, whichever screens come and go, and whatever the
\* account's preferences change meanwhile, what plays is the music of the screen
\* on show at the level the browser stores (sfx.ts).
THEOREM MusicIsAsAsked ==
  ASSUME ~Hasty
  PROVE  PageSpec => []MusicAsAsked
<1>1. PageInv /\ [PageNext]_page => PageInv'
  BY PageNextInv
<1>2. PageInv => MusicAsAsked
  BY DEF PageInv
<1> QED BY <1>1, <1>2, PageInitInv, PTL DEF PageSpec

---------------------------------------------------------------------------------
(* 3. TableScreen.                                                         *)

PeekShape ==
  /\ finger \in {"up", "on", "off"} /\ armed \in Targets \union {None}
  /\ held \in BOOLEAN /\ running \in BOOLEAN
  /\ press \in [playing : BOOLEAN, hold : BOOLEAN, spoiled : BOOLEAN,
                click : {None, "eaten", "acts"}]

\* What heldRef means while the finger is down: it is set if this press has become
\* a hold and no clearing came since; and if the game ran when the press began,
\* which emptied it, it is set for no other reason.
HeldIsKnown ==
  finger = "on" =>
    /\ press.click = None
    /\ press.hold /\ ~press.spoiled => held
    /\ held /\ press.playing => press.hold

\* A hold may only come of the finger that is down.
ArmedByFinger == armed # None => finger = "on"

PeekInv == PeekShape /\ HeldIsKnown /\ ArmedByFinger /\ TapsAndHolds

LEMMA PeekInitInv == Init => PeekInv
<1> SUFFICES ASSUME Init PROVE PeekInv
  OBVIOUS
<1>1. finger \in {"up", "on", "off"} /\ armed \in Targets \union {None}
  BY DEF Init, Targets, None
<1>2. held \in BOOLEAN /\ running \in BOOLEAN
  BY DEF Init
<1>3. press \in [playing : BOOLEAN, hold : BOOLEAN, spoiled : BOOLEAN,
                click : {None, "eaten", "acts"}]
  BY DEF Init, NoPress, None
<1>4. HeldIsKnown /\ ArmedByFinger
  BY DEF Init, HeldIsKnown, ArmedByFinger
<1>5. TapsAndHolds
  BY DEF Init, NoPress, None, TapsAndHolds, TapsAct, HoldsDoNotAct
<1> QED BY <1>1, <1>2, <1>3, <1>4, <1>5 DEF PeekInv, PeekShape

\* The game going on changes nothing of a press.
LEMMA PeekGameInv ==
  ASSUME PeekInv, UNCHANGED hold, running' \in BOOLEAN
  PROVE  PeekInv'
BY DEF PeekInv, PeekShape, HeldIsKnown, ArmedByFinger, TapsAndHolds, TapsAct, HoldsDoNotAct, hold

LEMMA PeekNextInv == PeekInv /\ [Next]_vars => PeekInv'
<1> SUFFICES ASSUME PeekInv, [Next]_vars PROVE PeekInv'
  OBVIOUS
<1> USE DEF PeekInv, PeekShape, HeldIsKnown, ArmedByFinger, TapsAndHolds, TapsAct, HoldsDoNotAct, None
<1>1. CASE Press
  BY <1>1 DEF Press, NoPress, Targets, game
<1>2. CASE HoldElapses
  BY <1>2 DEF HoldElapses, game
<1>3. CASE Leave
  BY <1>3 DEF Leave, EndPeek, game
<1>4. CASE LiftOff
  BY <1>4 DEF LiftOff, game
<1>5. CASE Release
  BY <1>5 DEF Release, EndPeek, game
<1>6. CASE Clear
  BY <1>6 DEF Clear, game
<1>7. CASE NewHand
  BY <1>7, PeekGameInv DEF NewHand
<1>8. CASE Deal
  BY <1>8, PeekGameInv DEF Deal
<1>9. CASE Stop
  BY <1>9 DEF Stop, EndPeek
<1>10. CASE UNCHANGED vars
  BY <1>10, PeekGameInv DEF vars, game
<1> QED BY <1>1, <1>2, <1>3, <1>4, <1>5, <1>6, <1>7, <1>8, <1>9, <1>10 DEF Next

\* Whatever timers of earlier holds are still to fire and whenever the game stops,
\* a tap during the game acts, and the click of a hold does not, unless such a
\* timer cleared heldRef while the finger was down (Table.tsx).
THEOREM TapsAreToldFromHolds == Spec => []TapsAndHolds
<1>1. PeekInv => TapsAndHolds
  BY DEF PeekInv
<1> QED BY <1>1, PeekInitInv, PeekNextInv, PTL DEF Spec

---------------------------------------------------------------------------------
(* 4. The names of hands.  Five cards of C hold whatever their name says,  *)
(* and C holds it with them (HoldsGrows); what C holds, five of its cards  *)
(* show (Reaches), and they are named by it or better (AtLeast).  So the   *)
(* best name of five is the best of C.                                     *)

LEMMA CardReads ==
  ASSUME NEW c \in Cards
  PROVE  /\ Rank(c) \in 0 .. 12 /\ Suit(c) \in 0 .. 3
         /\ c \in 4 * Rank(c) .. 4 * Rank(c) + 3
BY DEF Cards, Rank, Suit

LEMMA CardsFinite ==
  ASSUME NEW C \in SUBSET Cards
  PROVE  IsFiniteSet(C) /\ Cardinality(C) \in Nat
<1>1. IsFiniteSet(Cards)
  <2>1. Cards \in SUBSET Nat /\ 51 \in Nat /\ \A c \in Cards : c <= 51
    BY DEF Cards
  <2> QED BY <2>1, FS_BoundedSetOfNaturals
<1>2. IsFiniteSet(C)
  BY <1>1, FS_Subset
<1> QED BY <1>2, FS_CardinalityType

LEMMA RanksFinite ==
  ASSUME NEW C \in SUBSET Cards, NEW R \in SUBSET Ranks(C)
  PROVE  IsFiniteSet(R) /\ Cardinality(R) \in Nat
<1>1. R \subseteq 0 .. 12
  BY CardReads DEF Ranks
<1>2. R \in SUBSET Nat /\ 12 \in Nat /\ \A r \in R : r <= 12
  BY <1>1
<1>3. IsFiniteSet(R)
  BY <1>2, FS_BoundedSetOfNaturals
<1> QED BY <1>3, FS_CardinalityType

\* Two elements, and no more than one.
LEMMA TwoOf ==
  ASSUME NEW S, IsFiniteSet(S)
  PROVE  Cardinality(S) >= 2 <=> \E x, y \in S : x # y
<1>1. Cardinality(S) \in Nat
  BY FS_CardinalityType
<1>2. ASSUME Cardinality(S) >= 2 PROVE \E x, y \in S : x # y
  <2>1. S # {} /\ \A x : S # {x}
    BY <1>2, FS_EmptySet, FS_Singleton
  <2> QED BY <2>1
<1>3. ASSUME NEW x \in S, NEW y \in S, x # y PROVE Cardinality(S) >= 2
  <2>1. IsFiniteSet({x}) /\ Cardinality({x}) = 1
    BY FS_Singleton
  <2>2. Cardinality({x} \cup {y}) = 2
    BY <1>3, <2>1, FS_AddElement
  <2>3. Cardinality({x} \cup {y}) <= Cardinality(S)
    BY <1>3, FS_Subset
  <2> QED BY <1>1, <2>2, <2>3
<1> QED BY <1>2, <1>3

\* A hand of k cards can be chosen that keeps the cards A.
LEMMA CanChoose ==
  ASSUME NEW C \in SUBSET Cards, NEW A \in SUBSET C, NEW k \in Nat,
         Cardinality(A) <= k, k <= Cardinality(C)
  PROVE  \E F \in SUBSET C : A \subseteq F /\ Cardinality(F) = k
<1> DEFINE B == C \ A
           m == k - Cardinality(A)
<1>1. /\ IsFiniteSet(A) /\ IsFiniteSet(B) /\ IsFiniteSet(C)
      /\ Cardinality(A) \in Nat /\ Cardinality(B) \in Nat /\ Cardinality(C) \in Nat
  BY CardsFinite
<1>2. Cardinality(C) = Cardinality(A) + Cardinality(B)
  <2>1. C = A \cup B /\ A \cap B = {}
    OBVIOUS
  <2>2. Cardinality(A \cup B) = Cardinality(A) + Cardinality(B) - Cardinality(A \cap B)
    BY <1>1, FS_Union
  <2>3. Cardinality(A \cap B) = 0
    BY <2>1, FS_EmptySet
  <2> HIDE DEF B
  <2> QED BY <1>1, <2>1, <2>2, <2>3
<1>3. m \in Nat /\ m <= Cardinality(B)
  BY <1>1, <1>2
<1>4. PICK f : f \in Bijection(1 .. Cardinality(B), B)
  BY <1>1, FS_CardinalityType DEF ExistsBijection
<1> DEFINE G == {f[i] : i \in 1 .. m}
           g == [i \in 1 .. m |-> f[i]]
<1> HIDE DEF B, m
<1>5. \A i \in 1 .. m : i \in 1 .. Cardinality(B)
  BY <1>1, <1>3
<1>6. G \subseteq B
  BY <1>4, <1>5 DEF Bijection, Injection
<1>7. g \in Bijection(1 .. m, G)
  <2>1. g \in [1 .. m -> G]
    OBVIOUS
  <2>2. \A i, j \in 1 .. m : g[i] = g[j] => i = j
    BY <1>4, <1>5 DEF Bijection, Injection, IsInjective
  <2>3. \A x \in G : \E i \in 1 .. m : g[i] = x
    OBVIOUS
  <2> HIDE DEF g, G
  <2> QED BY <2>1, <2>2, <2>3 DEF Bijection, Injection, Surjection, IsInjective
<1>8. IsFiniteSet(G) /\ Cardinality(G) = m
  <2>1. IsFiniteSet(1 .. m) /\ Cardinality(1 .. m) = m
    BY <1>3, FS_Interval
  <2> HIDE DEF g, G
  <2> QED BY <1>7, <2>1, FS_Bijection DEF ExistsBijection
<1> HIDE DEF G
<1>9. Cardinality(A \cup G) = k
  <2>1. A \cap G = {}
    BY <1>6 DEF B
  <2>2. Cardinality(A \cup G) = Cardinality(A) + m - Cardinality(A \cap G)
    BY <1>1, <1>8, FS_Union
  <2>3. Cardinality(A \cap G) = 0
    BY <2>1, FS_EmptySet
  <2> QED BY <1>1, <1>3, <2>2, <2>3 DEF m
<1> QED BY <1>6, <1>9 DEF B

(* How often ranks occur.                                                  *)

Of(C, r) == {c \in C : Rank(c) = r}

LEMMA CountFacts ==
  ASSUME NEW C \in SUBSET Cards, NEW r
  PROVE  /\ Count(C, r) = Cardinality(Of(C, r)) /\ Of(C, r) \in SUBSET C
         /\ IsFiniteSet(Of(C, r)) /\ Count(C, r) \in 0 .. 4
         /\ Count(C, r) > 0 => r \in Ranks(C)
         /\ r \in Ranks(C) => r \in 0 .. 12
<1>1. Count(C, r) = Cardinality(Of(C, r)) /\ Of(C, r) \in SUBSET C
  BY DEF Count, Of
<1>2. IsFiniteSet(Of(C, r)) /\ Cardinality(Of(C, r)) \in Nat
  BY <1>1, CardsFinite
<1>3. r \in Ranks(C) => r \in 0 .. 12
  BY CardReads DEF Ranks
<1>4. Count(C, r) > 0 => r \in Ranks(C)
  <2> SUFFICES ASSUME Count(C, r) > 0 PROVE r \in Ranks(C)
    OBVIOUS
  <2>1. Of(C, r) # {}
    BY <1>1, FS_EmptySet
  <2> QED BY <2>1 DEF Of, Ranks
<1>5. Cardinality(Of(C, r)) <= 4
  <2>1. CASE r \in Ranks(C)
    <3> DEFINE low  == 4 * r
               high == 4 * r + 3
               four == low .. high
    <3>1. Of(C, r) \subseteq four
      BY CardReads DEF Of
    <3>2. IsFiniteSet(four) /\ Cardinality(four) = 4
      <4>1. low \in Int /\ high \in Int /\ high = low + 3
        BY <2>1, <1>3
      <4> HIDE DEF low, high
      <4>2. IsFiniteSet(four) /\ Cardinality(four) = IF low > high THEN 0 ELSE high - low + 1
        BY <4>1, FS_Interval
      <4> QED BY <4>1, <4>2
    <3> HIDE DEF four
    <3>3. Cardinality(Of(C, r)) <= Cardinality(four)
      BY <3>1, <3>2, FS_Subset
    <3> QED BY <3>2, <3>3
  <2>2. CASE r \notin Ranks(C)
    BY <2>2, <1>1, <1>2, <1>4
  <2> QED BY <2>1, <2>2
<1> QED BY <1>1, <1>2, <1>3, <1>4, <1>5

\* Fewer cards hold a rank less often.
LEMMA CountGrows ==
  ASSUME NEW C \in SUBSET Cards, NEW D \in SUBSET C, NEW r
  PROVE  Count(D, r) <= Count(C, r)
<1>1. Of(D, r) \in SUBSET Of(C, r) /\ D \in SUBSET Cards
  BY DEF Of
<1>2. IsFiniteSet(Of(C, r))
  BY CountFacts
<1>3. Cardinality(Of(D, r)) <= Cardinality(Of(C, r))
  BY <1>1, <1>2, FS_Subset
<1> QED BY <1>1, <1>3, CountFacts

\* Two ranks are not on the same cards.
LEMMA TwoRanks ==
  ASSUME NEW C \in SUBSET Cards, NEW r, NEW q, r # q
  PROVE  /\ Count(C, r) + Count(C, q) <= Cardinality(C)
         /\ Cardinality(Of(C, r) \cup Of(C, q)) = Count(C, r) + Count(C, q)
<1>1. IsFiniteSet(Of(C, r)) /\ IsFiniteSet(Of(C, q)) /\ IsFiniteSet(C)
  BY CountFacts, CardsFinite
<1>2. Of(C, r) \cap Of(C, q) = {} /\ Of(C, r) \cup Of(C, q) \in SUBSET C
  BY DEF Of
<1>3. Cardinality(Of(C, r) \cap Of(C, q)) = 0
  BY <1>2, FS_EmptySet
<1>4. Cardinality(Of(C, r) \cup Of(C, q))
        = Cardinality(Of(C, r)) + Cardinality(Of(C, q)) - Cardinality(Of(C, r) \cap Of(C, q))
  BY <1>1, FS_Union
<1>5. Cardinality(Of(C, r) \cup Of(C, q)) <= Cardinality(C)
  BY <1>1, <1>2, FS_Subset
<1>6. /\ Count(C, r) \in Nat /\ Count(C, r) = Cardinality(Of(C, r))
      /\ Count(C, q) \in Nat /\ Count(C, q) = Cardinality(Of(C, q))
  BY CountFacts
<1> QED BY <1>3, <1>4, <1>5, <1>6

LEMMA ThreeRanks ==
  ASSUME NEW C \in SUBSET Cards, NEW r, NEW q, NEW p, r # q, r # p, q # p
  PROVE  Count(C, r) + Count(C, q) + Count(C, p) <= Cardinality(C)
<1> DEFINE RQ == Of(C, r) \cup Of(C, q)
<1>1. IsFiniteSet(Of(C, r)) /\ IsFiniteSet(Of(C, q)) /\ IsFiniteSet(Of(C, p)) /\ IsFiniteSet(C)
  BY CountFacts, CardsFinite
<1>2. RQ \cap Of(C, p) = {} /\ RQ \cup Of(C, p) \in SUBSET C /\ RQ \in SUBSET C
  BY DEF Of
<1>3. Cardinality(RQ) = Count(C, r) + Count(C, q)
  BY TwoRanks
<1> HIDE DEF RQ
<1>4. Cardinality(RQ \cap Of(C, p)) = 0
  BY <1>2, FS_EmptySet
<1>5. IsFiniteSet(RQ)
  BY <1>2, CardsFinite
<1>6. Cardinality(RQ \cup Of(C, p))
        = Cardinality(RQ) + Cardinality(Of(C, p)) - Cardinality(RQ \cap Of(C, p))
  BY <1>1, <1>5, FS_Union
<1>7. Cardinality(RQ \cup Of(C, p)) <= Cardinality(C)
  BY <1>1, <1>2, FS_Subset
<1>8. Count(C, r) \in Nat /\ Count(C, q) \in Nat /\ Count(C, p) = Cardinality(Of(C, p))
      /\ Count(C, p) \in Nat
  BY CountFacts
<1> QED BY <1>3, <1>4, <1>6, <1>7, <1>8

(* What five cards are called, all cards that contain them hold.           *)

LEMMA HoldsGrows ==
  ASSUME NEW C \in SUBSET Cards, NEW D \in SUBSET C, NEW name \in DOMAIN ORDER,
         Holds(D, name)
  PROVE  Holds(C, name)
<1>1. Ranks(D) \subseteq Ranks(C) /\ D \in SUBSET Cards
  BY DEF Ranks
<1>2. ASSUME NEW k \in 0 .. 4 PROVE OfAKind(D, k) \subseteq OfAKind(C, k)
  <2> SUFFICES ASSUME NEW r \in OfAKind(D, k) PROVE r \in OfAKind(C, k)
    OBVIOUS
  <2>1. r \in Ranks(C) /\ Count(D, r) >= k
    BY <1>1 DEF OfAKind
  <2>2. Count(D, r) \in Nat /\ Count(C, r) \in Nat /\ Count(D, r) <= Count(C, r)
    BY <1>1, CountFacts, CountGrows
  <2> QED BY <2>1, <2>2 DEF OfAKind
<1>3. ASSUME NEW s \in Suited(D)
      PROVE  \E t \in Suited(C) : s \subseteq t
  <2>1. PICK d \in D : s = {c \in D : Suit(c) = Suit(d)}
    BY DEF Suited
  <2> DEFINE t == {c \in C : Suit(c) = Suit(d)}
  <2>2. t \in Suited(C) /\ s \subseteq t
    BY <2>1 DEF Suited
  <2> QED BY <2>2
<1>4. ASSUME NEW s, NEW t, s \subseteq t
      PROVE  Runs(s) \subseteq Runs(t)
  <2>1. Ranks(s) \subseteq Ranks(t)
    BY <1>4 DEF Ranks
  <2> QED BY <2>1 DEF Runs
<1>5. \A s \in Suited(D) : s \in SUBSET Cards
  BY <1>1 DEF Suited
<1>6. \A s \in Suited(C) : s \in SUBSET Cards
  BY DEF Suited
<1>7. CASE name = "royal flush"
  <2>1. PICK s \in Suited(D) : 8 \in Runs(s)
    BY <1>7 DEF Holds
  <2>2. PICK t \in Suited(C) : s \subseteq t
    BY <1>3
  <2>3. 8 \in Runs(t)
    BY <1>4, <2>1, <2>2
  <2> QED BY <1>7, <2>3 DEF Holds
<1>8. CASE name = "straight flush"
  <2>1. PICK s \in Suited(D) : Runs(s) # {}
    BY <1>8 DEF Holds
  <2>2. PICK t \in Suited(C) : s \subseteq t
    BY <1>3
  <2>3. Runs(t) # {}
    BY <1>4, <2>1, <2>2
  <2> QED BY <1>8, <2>3 DEF Holds
<1>9. CASE name = "four of a kind"
  <2>1. OfAKind(D, 4) \subseteq OfAKind(C, 4)
    BY <1>2
  <2>2. OfAKind(D, 4) # {}
    BY <1>9 DEF Holds
  <2> QED BY <1>9, <2>1, <2>2 DEF Holds
<1>10. CASE name = "full house"
  <2>1. PICK r \in OfAKind(D, 3) : OfAKind(D, 2) # {r}
    BY <1>10 DEF Holds
  <2>2. r \in OfAKind(D, 2)
    <3>1. Count(D, r) \in Nat
      BY <1>1, CountFacts
    <3> QED BY <2>1, <3>1 DEF OfAKind
  <2>3. OfAKind(C, 2) # {r} /\ r \in OfAKind(C, 3)
    BY <1>2, <2>1, <2>2
  <2> QED BY <1>10, <2>3 DEF Holds
<1>11. CASE name = "flush"
  <2>1. PICK s \in Suited(D) : Cardinality(s) >= 5
    BY <1>11 DEF Holds
  <2>2. PICK t \in Suited(C) : s \subseteq t
    BY <1>3
  <2>3. IsFiniteSet(t) /\ Cardinality(t) \in Nat
    BY <1>6, CardsFinite
  <2>4. Cardinality(s) <= Cardinality(t)
    BY <2>2, <2>3, FS_Subset
  <2>5. Cardinality(s) \in Nat
    BY <1>5, CardsFinite
  <2>6. Cardinality(t) >= 5
    BY <2>1, <2>3, <2>4, <2>5
  <2> QED BY <1>11, <2>6 DEF Holds
<1>12. CASE name = "straight"
  BY <1>12, <1>4 DEF Holds
<1>13. CASE name = "three of a kind"
  <2>1. OfAKind(D, 3) \subseteq OfAKind(C, 3)
    BY <1>2
  <2>2. OfAKind(D, 3) # {}
    BY <1>13 DEF Holds
  <2> QED BY <1>13, <2>1, <2>2 DEF Holds
<1>14. CASE name = "two pair"
  <2>1. OfAKind(D, 2) \subseteq OfAKind(C, 2)
    BY <1>2
  <2>2. OfAKind(C, 2) \in SUBSET Ranks(C) /\ OfAKind(D, 2) \in SUBSET Ranks(C)
    BY <1>1, <2>1 DEF OfAKind
  <2>3. IsFiniteSet(OfAKind(C, 2)) /\ Cardinality(OfAKind(C, 2)) \in Nat /\ Cardinality(OfAKind(D, 2)) \in Nat
    BY <2>2, RanksFinite
  <2>4. Cardinality(OfAKind(D, 2)) <= Cardinality(OfAKind(C, 2))
    BY <2>1, <2>3, FS_Subset
  <2>5. Cardinality(OfAKind(D, 2)) >= 2
    BY <1>14 DEF Holds
  <2>6. Cardinality(OfAKind(C, 2)) >= 2
    BY <2>3, <2>4, <2>5
  <2> QED BY <1>14, <2>6 DEF Holds
<1>15. CASE name = "one pair"
  <2>1. OfAKind(D, 2) \subseteq OfAKind(C, 2)
    BY <1>2
  <2>2. OfAKind(D, 2) # {}
    BY <1>15 DEF Holds
  <2> QED BY <1>15, <2>1, <2>2 DEF Holds
<1>16. CASE name = "high card"
  BY <1>16 DEF Holds
<1> QED
  BY <1>7, <1>8, <1>9, <1>10, <1>11, <1>12, <1>13, <1>14, <1>15, <1>16 DEF ORDER

(* Numbers up to 12 have a greatest and a least.                           *)

LEMMA Greatest ==
  ASSUME NEW R \in SUBSET (0 .. 12), R # {}
  PROVE  \E x \in R : \A y \in R : x >= y
<1> SUFFICES ASSUME \A x \in R : \E y \in R : ~(x >= y) PROVE FALSE
  OBVIOUS
<1>1. \A x \in R : \E y \in R : y > x
  OBVIOUS
<1>2. 12 \notin R
  BY <1>1
<1>3. 11 \notin R
  BY <1>1, <1>2
<1>4. 10 \notin R
  BY <1>1, <1>2, <1>3
<1>5. 9 \notin R
  BY <1>1, <1>2, <1>3, <1>4
<1>6. \A r \in R : r <= 8
  BY <1>2, <1>3, <1>4, <1>5
<1>7. 8 \notin R
  BY <1>1, <1>6
<1>8. 7 \notin R
  BY <1>1, <1>6, <1>7
<1>9. 6 \notin R
  BY <1>1, <1>6, <1>7, <1>8
<1>10. 5 \notin R
  BY <1>1, <1>6, <1>7, <1>8, <1>9
<1>11. \A r \in R : r <= 4
  BY <1>6, <1>7, <1>8, <1>9, <1>10
<1>12. 4 \notin R
  BY <1>1, <1>11
<1>13. 3 \notin R
  BY <1>1, <1>11, <1>12
<1>14. 2 \notin R
  BY <1>1, <1>11, <1>12, <1>13
<1>15. 1 \notin R
  BY <1>1, <1>11, <1>12, <1>13, <1>14
<1>16. 0 \notin R
  BY <1>1, <1>11, <1>12, <1>13, <1>14, <1>15
<1>17. PICK r : r \in R
  OBVIOUS
<1>18. r \in 0 .. 12 /\ r <= 4
  BY <1>11, <1>17
<1>19. r = 0 \/ r = 1 \/ r = 2 \/ r = 3 \/ r = 4
  BY <1>18
<1> QED BY <1>12, <1>13, <1>14, <1>15, <1>16, <1>17, <1>19

LEMMA Least ==
  ASSUME NEW R \in SUBSET (0 .. 12), R # {}
  PROVE  \E x \in R : \A y \in R : x =< y
<1> DEFINE S == {12 - x : x \in R}
<1>1. S \in SUBSET (0 .. 12) /\ S # {}
  <2>1. \A x \in R : 12 - x \in 0 .. 12
    OBVIOUS
  <2>2. PICK x : x \in R
    OBVIOUS
  <2>3. 12 - x \in S
    BY <2>2
  <2>4. \A z \in S : z \in 0 .. 12
    BY <2>1
  <2> HIDE DEF S
  <2> QED BY <2>3, <2>4
<1> HIDE DEF S
<1>2. PICK z \in S : \A y \in S : z >= y
  BY <1>1, Greatest
<1>3. PICK x \in R : z = 12 - x
  BY <1>2 DEF S
<1>4. \A y \in R : x =< y
  <2> SUFFICES ASSUME NEW y \in R PROVE x =< y
    OBVIOUS
  <2>1. 12 - y \in S
    BY DEF S
  <2>2. 12 - x >= 12 - y
    BY <1>2, <1>3, <2>1
  <2> QED BY <2>2
<1> QED BY <1>4

(* Five cards in a row.                                                    *)

\* The ranks of a run, from its lowest one; the ace is below the deuce.
Row(low) == IF low = -1 THEN Wheel ELSE low .. low + 4

LEMMA RowFacts ==
  ASSUME NEW low \in -1 .. 8
  PROVE  /\ Row(low) \in SUBSET (0 .. 12)
         /\ IsFiniteSet(Row(low)) /\ Cardinality(Row(low)) = 5
         /\ low # -1 => Max(Row(low)) = low + 4 /\ Min(Row(low)) = low
         /\ low # -1 => Row(low) # Wheel
<1>1. Row(low) \in SUBSET (0 .. 12)
  BY DEF Row, Wheel
<1>2. CASE low = -1
  <2>1. IsFiniteSet(0 .. 3) /\ Cardinality(0 .. 3) = 4
    <3>1. PICK three \in Int : three = 3
      OBVIOUS
    <3>2. IsFiniteSet(0 .. three) /\ Cardinality(0 .. three) = IF 0 > three THEN 0 ELSE three - 0 + 1
      BY FS_Interval
    <3> QED BY <3>1, <3>2
  <2>2. Row(low) = (0 .. 3) \cup {12} /\ 12 \notin 0 .. 3
    BY <1>2 DEF Row, Wheel
  <2>3. IsFiniteSet((0 .. 3) \cup {12}) /\ Cardinality((0 .. 3) \cup {12}) = 5
    BY <2>1, <2>2, FS_AddElement
  <2> QED BY <1>1, <1>2, <2>2, <2>3
<1>3. CASE low # -1
  <2> DEFINE high == low + 4
  <2>1. Row(low) = low .. high /\ high \in Int /\ high = low + 4 /\ low \in 0 .. 8
    BY <1>3 DEF Row
  <2> HIDE DEF high
  <2>2. IsFiniteSet(low .. high) /\ Cardinality(low .. high) = IF low > high THEN 0 ELSE high - low + 1
    BY <2>1, FS_Interval
  <2>3. Cardinality(low .. high) = 5
    BY <2>1, <2>2
  <2>4. Max(low .. high) = high
    <3>1. high \in low .. high /\ \A y \in low .. high : high >= y
      BY <2>1
    <3>2. \A x \in low .. high : (\A y \in low .. high : x >= y) => x = high
      BY <2>1, <3>1
    <3> QED BY <3>1, <3>2 DEF Max
  <2>5. Min(low .. high) = low
    <3>1. low \in low .. high /\ \A y \in low .. high : low =< y
      BY <2>1
    <3>2. \A x \in low .. high : (\A y \in low .. high : x =< y) => x = low
      BY <2>1, <3>1
    <3> QED BY <3>1, <3>2 DEF Min
  <2>6. low .. high # Wheel
    <3>1. CASE low = 0
      <4>1. 4 \in low .. high /\ 4 \notin Wheel
        BY <2>1, <3>1 DEF Wheel
      <4> QED BY <4>1
    <3>2. CASE low # 0
      <4>1. 0 \notin low .. high /\ 0 \in Wheel
        BY <2>1, <3>2 DEF Wheel
      <4> QED BY <4>1
    <3> QED BY <3>1, <3>2
  <2> QED BY <1>1, <1>3, <2>1, <2>2, <2>3, <2>4, <2>5, <2>6
<1> QED BY <1>2, <1>3

\* A straight is a run, and its highest card says which.
LEMMA StraightIsRow ==
  ASSUME NEW F \in SUBSET Cards, IsStraight(F)
  PROVE  /\ StraightHigh(Ranks(F)) - 4 \in -1 .. 8
         /\ Ranks(F) = Row(StraightHigh(Ranks(F)) - 4)
<1> DEFINE R == Ranks(F)
<1>1. IsFiniteSet(R) /\ R \subseteq 0 .. 12
  BY RanksFinite, CardReads DEF Ranks
<1>2. Cardinality(R) = 5 /\ (Max(R) - Min(R) = 4 \/ R = Wheel)
  BY DEF IsStraight
<1>3. CASE R = Wheel
  BY <1>3 DEF StraightHigh, Row
<1>4. CASE R # Wheel
  <2> HIDE DEF R
  <2>1. R # {}
    BY <1>1, <1>2, FS_EmptySet
  <2>2. Max(R) \in R /\ \A y \in R : Max(R) >= y
    <3>1. \E x \in R : \A y \in R : x >= y
      BY <1>1, <2>1, Greatest
    <3> QED BY <3>1 DEF Max
  <2>3. Min(R) \in R /\ \A y \in R : Min(R) =< y
    <3>1. \E x \in R : \A y \in R : x =< y
      BY <1>1, <2>1, Least
    <3> QED BY <3>1 DEF Min
  <2>4. Max(R) - Min(R) = 4
    BY <1>2, <1>4
  <2> DEFINE low == Min(R)
  <2>5. low \in 0 .. 8 /\ Max(R) = low + 4 /\ R \subseteq low .. low + 4
    <3>1. Max(R) \in 0 .. 12 /\ low \in 0 .. 12
      BY <1>1, <2>2, <2>3
    <3>2. Max(R) = low + 4 /\ low \in 0 .. 8
      BY <2>4, <3>1
    <3>3. \A r \in R : r \in 0 .. 12 /\ low <= r /\ r <= Max(R)
      BY <1>1, <2>2, <2>3
    <3> HIDE DEF low
    <3> QED BY <3>2, <3>3
  <2>6. Row(low) = low .. low + 4
    BY <2>5 DEF Row
  <2>7. IsFiniteSet(Row(low)) /\ Cardinality(Row(low)) = 5
    <3>1. low \in -1 .. 8
      BY <2>5
    <3> HIDE DEF low
    <3> QED BY <3>1, RowFacts
  <2>8. R = Row(low)
    BY <1>2, <2>5, <2>6, <2>7, FS_Subset
  <2>9. StraightHigh(R) = low + 4
    BY <1>4, <2>5 DEF StraightHigh
  <2> HIDE DEF low
  <2> QED BY <2>5, <2>8, <2>9 DEF R
<1> QED BY <1>3, <1>4

\* The other way round.
LEMMA RowIsStraight ==
  ASSUME NEW F \in SUBSET Cards, NEW low \in -1 .. 8, Ranks(F) = Row(low)
  PROVE  /\ IsStraight(F)
         /\ StraightHigh(Ranks(F)) = low + 4
<1>1. CASE low = -1
  <2>1. Row(low) = Wheel /\ Cardinality(Row(low)) = 5
    BY <1>1, RowFacts DEF Row
  <2> QED BY <1>1, <2>1 DEF IsStraight, StraightHigh
<1>2. CASE low # -1
  <2>1. /\ Cardinality(Row(low)) = 5 /\ Max(Row(low)) = low + 4 /\ Min(Row(low)) = low
        /\ Row(low) # Wheel
    BY <1>2, RowFacts
  <2> QED BY <2>1 DEF IsStraight, StraightHigh
<1> QED BY <1>1, <1>2

LEMMA RunIsRow ==
  ASSUME NEW s \in SUBSET Cards
  PROVE  Runs(s) = {low \in -1 .. 8 : Row(low) \subseteq Ranks(s)}
<1>1. Ranks(s) \subseteq 0 .. 12
  BY CardReads DEF Ranks
<1>2. ASSUME NEW low \in -1 .. 8
      PROVE  low \in Runs(s) <=> Row(low) \subseteq Ranks(s)
  <2> DEFINE ranks == Ranks(s) \cup (IF 12 \in Ranks(s) THEN {-1} ELSE {})
  <2>1. low \in Runs(s) <=> low .. low + 4 \subseteq ranks
    BY DEF Runs
  <2>2. CASE low = -1
    <3>1. low .. low + 4 = {-1, 0, 1, 2, 3}
      BY <2>2
    <3>2. -1 \in ranks <=> 12 \in Ranks(s)
      BY <1>1
    <3>3. \A r \in {0, 1, 2, 3} : r \in ranks <=> r \in Ranks(s)
      OBVIOUS
    <3>4. Row(low) = {0, 1, 2, 3, 12}
      BY <2>2 DEF Row, Wheel
    <3> HIDE DEF ranks
    <3> QED BY <2>1, <3>1, <3>2, <3>3, <3>4
  <2>3. CASE low # -1
    <3>1. low .. low + 4 \subseteq 0 .. 12 /\ Row(low) = low .. low + 4
      BY <2>3 DEF Row
    <3>2. \A r \in 0 .. 12 : r \in ranks <=> r \in Ranks(s)
      OBVIOUS
    <3> HIDE DEF ranks
    <3> QED BY <2>1, <3>1, <3>2
  <2> QED BY <2>2, <2>3
<1> QED BY <1>2 DEF Runs

(* What the name of five cards says.                                       *)

HighCard == "high card"
OnePair == "one pair"
TwoPair == "two pair"
ThreeOfAKind == "three of a kind"
AStraight == "straight"
AFlush == "flush"
FullHouse == "full house"
FourOfAKind == "four of a kind"
StraightFlush == "straight flush"
RoyalFlush == "royal flush"
Names == {HighCard, OnePair, TwoPair, ThreeOfAKind, AStraight, AFlush, FullHouse, FourOfAKind,
          StraightFlush, RoyalFlush}

LEMMA OrderFacts ==
  /\ DOMAIN ORDER = Names
  /\ ORDER[HighCard] = 0       /\ ORDER[OnePair] = 1
  /\ ORDER[TwoPair] = 2        /\ ORDER[ThreeOfAKind] = 3
  /\ ORDER[AStraight] = 4       /\ ORDER[AFlush] = 5
  /\ ORDER[FullHouse] = 6      /\ ORDER[FourOfAKind] = 7
  /\ ORDER[StraightFlush] = 8  /\ ORDER[RoyalFlush] = 9
<1> USE DEF Names, HighCard, OnePair, TwoPair, ThreeOfAKind, AStraight, AFlush, FullHouse,
            FourOfAKind, StraightFlush, RoyalFlush
<1> QED BY DEF ORDER

LEMMA OrderType ==
  \A name \in Names : ORDER[name] \in 0 .. 9
BY OrderFacts DEF Names

\* Whatever else five cards are, their name says the best of it.
LEMMA AtLeast ==
  ASSUME NEW F \in SUBSET Cards
  PROVE  /\ CategorizeFive(F) \in Names
         /\ IsStraight(F) /\ IsFlush(F) => ORDER[CategorizeFive(F)] >= 8
         /\ IsStraight(F) /\ IsFlush(F) /\ StraightHigh(Ranks(F)) = 12
              => ORDER[CategorizeFive(F)] = 9
         /\ Groups(F, 4) # {} => ORDER[CategorizeFive(F)] >= 7
         /\ Groups(F, 3) # {} /\ Groups(F, 2) # {} => ORDER[CategorizeFive(F)] >= 6
         /\ IsFlush(F) => ORDER[CategorizeFive(F)] >= 5
         /\ IsStraight(F) => ORDER[CategorizeFive(F)] >= 4
         /\ Groups(F, 3) # {} => ORDER[CategorizeFive(F)] >= 3
         /\ Cardinality(Groups(F, 2)) = 2 => ORDER[CategorizeFive(F)] >= 2
         /\ Groups(F, 2) # {} => ORDER[CategorizeFive(F)] >= 1
<1> DEFINE name == CategorizeFive(F)
           few  == CategorizePartial(F)
<1>1. /\ few \in Names
      /\ Groups(F, 3) # {} => ORDER[few] >= 3
      /\ Cardinality(Groups(F, 2)) = 2 => ORDER[few] >= 2
      /\ Groups(F, 2) # {} => ORDER[few] >= 1
  <2>1. CASE Groups(F, 4) # {}
    <3>1. few = FourOfAKind
      BY <2>1 DEF CategorizePartial, FourOfAKind
    <3> QED BY <3>1, OrderFacts DEF Names
  <2>2. CASE Groups(F, 4) = {} /\ Groups(F, 3) # {}
    <3>1. few = ThreeOfAKind
      BY <2>2 DEF CategorizePartial, ThreeOfAKind
    <3> QED BY <3>1, OrderFacts DEF Names
  <2>3. CASE Groups(F, 4) = {} /\ Groups(F, 3) = {} /\ Cardinality(Groups(F, 2)) = 2
    <3>1. few = TwoPair
      BY <2>3 DEF CategorizePartial, TwoPair
    <3> QED BY <2>3, <3>1, OrderFacts DEF Names
  <2>4. CASE /\ Groups(F, 4) = {} /\ Groups(F, 3) = {} /\ Cardinality(Groups(F, 2)) # 2
             /\ Groups(F, 2) # {}
    <3>1. few = OnePair
      BY <2>4 DEF CategorizePartial, OnePair
    <3> QED BY <2>4, <3>1, OrderFacts DEF Names
  <2>5. CASE /\ Groups(F, 4) = {} /\ Groups(F, 3) = {} /\ Cardinality(Groups(F, 2)) # 2
             /\ Groups(F, 2) = {}
    <3>1. few = HighCard
      BY <2>5 DEF CategorizePartial, HighCard
    <3> QED BY <2>5, <3>1, OrderFacts DEF Names
  <2> QED BY <2>1, <2>2, <2>3, <2>4, <2>5
<1>2. CASE IsStraight(F) /\ IsFlush(F) /\ StraightHigh(Ranks(F)) = 12
  <2>1. name = RoyalFlush
    BY <1>2 DEF CategorizeFive, RoyalFlush
  <2> QED BY <2>1, OrderFacts DEF Names
<1>3. CASE IsStraight(F) /\ IsFlush(F) /\ StraightHigh(Ranks(F)) # 12
  <2>1. name = StraightFlush
    BY <1>3 DEF CategorizeFive, StraightFlush
  <2> QED BY <1>3, <2>1, OrderFacts DEF Names
<1>4. CASE ~(IsStraight(F) /\ IsFlush(F)) /\ Groups(F, 4) # {}
  <2>1. name = FourOfAKind
    BY <1>4 DEF CategorizeFive, FourOfAKind
  <2> QED BY <1>4, <2>1, OrderFacts DEF Names
<1>5. CASE /\ ~(IsStraight(F) /\ IsFlush(F)) /\ Groups(F, 4) = {}
           /\ Groups(F, 3) # {} /\ Groups(F, 2) # {}
  <2>1. name = FullHouse
    BY <1>5 DEF CategorizeFive, FullHouse
  <2> QED BY <1>5, <2>1, OrderFacts DEF Names
<1>6. CASE /\ ~(IsStraight(F) /\ IsFlush(F)) /\ Groups(F, 4) = {}
           /\ ~(Groups(F, 3) # {} /\ Groups(F, 2) # {})
  <2>1. CASE IsFlush(F)
    <3>1. name = AFlush
      BY <1>6, <2>1 DEF CategorizeFive, AFlush
    <3> QED BY <1>6, <3>1, OrderFacts DEF Names
  <2>2. CASE ~IsFlush(F) /\ IsStraight(F)
    <3>1. name = AStraight
      BY <1>6, <2>2 DEF CategorizeFive, AStraight
    <3> QED BY <1>6, <2>2, <3>1, OrderFacts DEF Names
  <2>3. CASE ~IsFlush(F) /\ ~IsStraight(F)
    <3>1. name = few
      BY <1>6, <2>3 DEF CategorizeFive
    <3> HIDE DEF name, few
    <3> QED BY <1>1, <1>6, <2>3, <3>1 DEF name
  <2> QED BY <2>1, <2>2, <2>3
<1> QED BY <1>2, <1>3, <1>4, <1>5, <1>6

\* Of few cards, too.
LEMMA PartialHolds ==
  ASSUME NEW F \in SUBSET Cards
  PROVE  CategorizePartial(F) \in Names /\ Holds(F, CategorizePartial(F))
<1> DEFINE name == CategorizePartial(F)
<1>1. \A k \in 0 .. 4 : Groups(F, k) \subseteq OfAKind(F, k)
  BY DEF Groups, OfAKind
<1>2. CASE Groups(F, 4) # {}
  <2>1. name = FourOfAKind
    BY <1>2 DEF CategorizePartial, FourOfAKind
  <2>2. Groups(F, 4) \subseteq OfAKind(F, 4)
    BY <1>1
  <2> QED BY <1>2, <2>1, <2>2 DEF Holds, Names, FourOfAKind
<1>3. CASE Groups(F, 4) = {} /\ Groups(F, 3) # {}
  <2>1. name = ThreeOfAKind
    BY <1>3 DEF CategorizePartial, ThreeOfAKind
  <2>2. Groups(F, 3) \subseteq OfAKind(F, 3)
    BY <1>1
  <2> QED BY <1>3, <2>1, <2>2 DEF Holds, Names, ThreeOfAKind
<1>4. CASE Groups(F, 4) = {} /\ Groups(F, 3) = {} /\ Cardinality(Groups(F, 2)) = 2
  <2>1. name = TwoPair
    BY <1>4 DEF CategorizePartial, TwoPair
  <2>2. Groups(F, 2) \subseteq OfAKind(F, 2) /\ OfAKind(F, 2) \in SUBSET Ranks(F)
    BY <1>1 DEF OfAKind
  <2>3. IsFiniteSet(OfAKind(F, 2)) /\ Cardinality(OfAKind(F, 2)) \in Nat
    BY <2>2, RanksFinite
  <2>4. Cardinality(Groups(F, 2)) <= Cardinality(OfAKind(F, 2))
    BY <2>2, <2>3, FS_Subset
  <2>5. Cardinality(OfAKind(F, 2)) >= 2
    BY <1>4, <2>3, <2>4
  <2> QED BY <2>1, <2>5 DEF Holds, Names, TwoPair
<1>5. CASE /\ Groups(F, 4) = {} /\ Groups(F, 3) = {} /\ Cardinality(Groups(F, 2)) # 2
           /\ Groups(F, 2) # {}
  <2>1. name = OnePair
    BY <1>5 DEF CategorizePartial, OnePair
  <2>2. Groups(F, 2) \subseteq OfAKind(F, 2)
    BY <1>1
  <2> QED BY <1>5, <2>1, <2>2 DEF Holds, Names, OnePair
<1>6. CASE /\ Groups(F, 4) = {} /\ Groups(F, 3) = {} /\ Cardinality(Groups(F, 2)) # 2
           /\ Groups(F, 2) = {}
  <2>1. name = HighCard
    BY <1>6 DEF CategorizePartial, HighCard
  <2> QED BY <2>1 DEF Holds, Names, HighCard
<1> QED BY <1>2, <1>3, <1>4, <1>5, <1>6

LEMMA FiveHold ==
  ASSUME NEW F \in SUBSET Cards, Cardinality(F) = 5
  PROVE  CategorizeFive(F) \in Names /\ Holds(F, CategorizeFive(F))
<1> DEFINE name == CategorizeFive(F)
<1>1. F # {}
  BY FS_EmptySet
<1>2. IsFlush(F) => F \in Suited(F)
  <2> SUFFICES ASSUME IsFlush(F) PROVE F \in Suited(F)
    OBVIOUS
  <2>1. PICK d : d \in F
    BY <1>1
  <2>2. F = {c \in F : Suit(c) = Suit(d)}
    BY <2>1 DEF IsFlush
  <2> QED BY <2>1, <2>2 DEF Suited
<1>3. IsStraight(F) => StraightHigh(Ranks(F)) - 4 \in Runs(F)
  <2> SUFFICES ASSUME IsStraight(F) PROVE StraightHigh(Ranks(F)) - 4 \in Runs(F)
    OBVIOUS
  <2> DEFINE low == StraightHigh(Ranks(F)) - 4
  <2>1. low \in -1 .. 8 /\ Ranks(F) = Row(low)
    BY StraightIsRow
  <2> HIDE DEF low
  <2> QED BY <2>1, RunIsRow DEF low
<1>4. CASE IsStraight(F) /\ IsFlush(F) /\ StraightHigh(Ranks(F)) = 12
  <2>1. name = RoyalFlush
    BY <1>4 DEF CategorizeFive, RoyalFlush
  <2>2. 8 \in Runs(F)
    BY <1>3, <1>4
  <2> QED BY <1>2, <1>4, <2>1, <2>2 DEF Holds, Names, RoyalFlush
<1>5. CASE IsStraight(F) /\ IsFlush(F) /\ StraightHigh(Ranks(F)) # 12
  <2>1. name = StraightFlush
    BY <1>5 DEF CategorizeFive, StraightFlush
  <2>2. Runs(F) # {}
    BY <1>3, <1>5
  <2> QED BY <1>2, <1>5, <2>1, <2>2 DEF Holds, Names, StraightFlush
<1>6. CASE ~(IsStraight(F) /\ IsFlush(F)) /\ Groups(F, 4) # {}
  <2>1. name = FourOfAKind
    BY <1>6 DEF CategorizeFive, FourOfAKind
  <2>2. Groups(F, 4) \subseteq OfAKind(F, 4)
    BY DEF Groups, OfAKind
  <2> QED BY <1>6, <2>1, <2>2 DEF Holds, Names, FourOfAKind
<1>7. CASE /\ ~(IsStraight(F) /\ IsFlush(F)) /\ Groups(F, 4) = {}
           /\ Groups(F, 3) # {} /\ Groups(F, 2) # {}
  <2>1. name = FullHouse
    BY <1>7 DEF CategorizeFive, FullHouse
  <2>2. PICK r, q : r \in Groups(F, 3) /\ q \in Groups(F, 2)
    BY <1>7
  <2>3. r \in OfAKind(F, 3) /\ q \in OfAKind(F, 2) /\ q # r
    BY <2>2 DEF Groups, OfAKind
  <2> QED BY <2>1, <2>3 DEF Holds, Names, FullHouse
<1>8. CASE /\ ~(IsStraight(F) /\ IsFlush(F)) /\ Groups(F, 4) = {}
           /\ ~(Groups(F, 3) # {} /\ Groups(F, 2) # {})
  <2>1. CASE IsFlush(F)
    <3>1. name = AFlush
      BY <1>8, <2>1 DEF CategorizeFive, AFlush
    <3>2. Cardinality(F) >= 5
      OBVIOUS
    <3> QED BY <1>2, <2>1, <3>1, <3>2 DEF Holds, Names, AFlush
  <2>2. CASE IsStraight(F)
    <3>1. name = AStraight
      BY <1>8, <2>2 DEF CategorizeFive, AStraight
    <3>2. Runs(F) # {}
      BY <1>3, <2>2
    <3> QED BY <3>1, <3>2 DEF Holds, Names, AStraight
  <2>3. CASE ~IsFlush(F) /\ ~IsStraight(F)
    <3>1. name = CategorizePartial(F)
      BY <1>8, <2>3 DEF CategorizeFive
    <3> QED BY <3>1, PartialHolds
  <2> QED BY <2>1, <2>2, <2>3
<1> QED BY <1>4, <1>5, <1>6, <1>7, <1>8

(* What all the cards hold, five of them are called, or better.            *)

\* Five cards are called at least what name says.
Reached(F, name) ==
  F \in SUBSET Cards /\ Cardinality(F) = 5 /\ ORDER[CategorizeFive(F)] >= ORDER[name]

\* Cards of one rank, as many as are wanted.
LEMMA Alike ==
  ASSUME NEW C \in SUBSET Cards, NEW r, NEW k \in 1 .. 4, Count(C, r) >= k
  PROVE  \E A \in SUBSET C : Cardinality(A) = k /\ IsFiniteSet(A) /\ Of(A, r) = A
<1>1. Of(C, r) \in SUBSET Cards /\ Of(C, r) \in SUBSET C /\ Cardinality(Of(C, r)) >= k
  BY CountFacts
<1>2. {} \in SUBSET Of(C, r) /\ Cardinality({}) <= k /\ k \in Nat
  BY FS_EmptySet
<1>3. PICK A \in SUBSET Of(C, r) : Cardinality(A) = k
  BY <1>1, <1>2, CanChoose
<1>4. A \in SUBSET C /\ A \in SUBSET Cards /\ Of(A, r) = A
  BY <1>1, <1>3 DEF Of
<1> QED BY <1>3, <1>4, CardsFinite

\* A run can be taken as five cards.
LEMMA Rowed ==
  ASSUME NEW s \in SUBSET Cards, NEW low \in Runs(s)
  PROVE  \E A \in SUBSET s : /\ low \in -1 .. 8 /\ Ranks(A) = Row(low) /\ Cardinality(A) = 5
<1>1. low \in -1 .. 8 /\ Row(low) \subseteq Ranks(s)
  BY RunIsRow
<1> DEFINE card(r) == CHOOSE c \in s : Rank(c) = r
           A == {card(r) : r \in Row(low)}
           f == [r \in Row(low) |-> card(r)]
<1>2. \A r \in Row(low) : card(r) \in s /\ Rank(card(r)) = r
  <2> SUFFICES ASSUME NEW r \in Row(low) PROVE card(r) \in s /\ Rank(card(r)) = r
    OBVIOUS
  <2>1. \E c \in s : Rank(c) = r
    BY <1>1 DEF Ranks
  <2> QED BY <2>1
<1> HIDE DEF card
<1>3. A \in SUBSET s
  BY <1>2
<1>4. Ranks(A) = Row(low)
  BY <1>2 DEF Ranks
<1>5. f \in Bijection(Row(low), A)
  <2>1. f \in [Row(low) -> A]
    OBVIOUS
  <2>2. \A i, j \in Row(low) : f[i] = f[j] => i = j
    BY <1>2
  <2>3. \A x \in A : \E i \in Row(low) : f[i] = x
    OBVIOUS
  <2> HIDE DEF f, A
  <2> QED BY <2>1, <2>2, <2>3 DEF Bijection, Injection, Surjection, IsInjective
<1>6. IsFiniteSet(Row(low)) /\ Cardinality(Row(low)) = 5
  BY <1>1, RowFacts
<1> HIDE DEF f, A
<1>7. Cardinality(A) = 5
  BY <1>5, <1>6, FS_Bijection DEF ExistsBijection
<1> QED BY <1>1, <1>3, <1>4, <1>7

\* Five cards that contain a number of one rank.
LEMMA Contains ==
  ASSUME NEW F \in SUBSET Cards, NEW r, NEW k \in 1 .. 4, NEW A \in SUBSET F,
         Cardinality(A) = k, Of(A, r) = A
  PROVE  Count(F, r) \in k .. 4 /\ r \in Groups(F, Count(F, r))
<1>1. A \in SUBSET Cards /\ Count(A, r) = k
  BY CountFacts
<1>2. Count(A, r) <= Count(F, r) /\ Count(F, r) \in 0 .. 4
  BY CountGrows, CountFacts
<1>3. Count(F, r) \in k .. 4
  BY <1>1, <1>2
<1>4. r \in Ranks(F)
  BY <1>3, CountFacts
<1> QED BY <1>3, <1>4 DEF Groups

\* Cards of two ranks are as many as there are of each.
LEMMA Apart ==
  ASSUME NEW A \in SUBSET Cards, NEW B \in SUBSET Cards, NEW r, NEW q, r # q,
         Of(A, r) = A, Of(B, q) = B
  PROVE  Cardinality(A \cup B) = Cardinality(A) + Cardinality(B)
<1>1. /\ IsFiniteSet(A) /\ Cardinality(A) \in Nat
      /\ IsFiniteSet(B) /\ Cardinality(B) \in Nat
  BY CardsFinite
<1>2. Cardinality(A \cup B) = Cardinality(A) + Cardinality(B) - Cardinality(A \cap B)
  BY <1>1, FS_Union
<1>3. A \cap B = {}
  <2> SUFFICES ASSUME NEW x \in A, x \in B PROVE FALSE
    OBVIOUS
  <2>1. x \in Of(A, r) /\ x \in Of(B, q)
    OBVIOUS
  <2> QED BY <2>1 DEF Of
<1>4. Cardinality(A \cap B) = 0
  BY <1>3, FS_EmptySet
<1> QED BY <1>1, <1>2, <1>4

LEMMA ReachesFullHouse ==
  ASSUME NEW C \in SUBSET Cards, NEW r \in OfAKind(C, 3), OfAKind(C, 2) # {r}
  PROVE  \E F \in SUBSET C : Reached(F, FullHouse)
<1>1. r \in Ranks(C) /\ Count(C, r) >= 3 /\ Count(C, r) \in 0 .. 4
  BY CountFacts DEF OfAKind
<1>2. r \in OfAKind(C, 2)
  BY <1>1 DEF OfAKind
<1>3. PICK q \in OfAKind(C, 2) : q # r
  BY <1>2
<1>4. Count(C, q) >= 2
  BY DEF OfAKind
<1>5. PICK A \in SUBSET C : Cardinality(A) = 3 /\ Of(A, r) = A
  BY <1>1, Alike
<1>5b. PICK B \in SUBSET C : Cardinality(B) = 2 /\ Of(B, q) = B
  BY <1>4, Alike
<1>5c. Cardinality(A \cup B) = 5
  <2>1. A \in SUBSET Cards /\ B \in SUBSET Cards
    OBVIOUS
  <2>2. Cardinality(A \cup B) = Cardinality(A) + Cardinality(B)
    BY <1>3, <1>5, <1>5b, <2>1, Apart
  <2> QED BY <1>5, <1>5b, <2>2
<1> DEFINE F == A \cup B
<1>6. F \in SUBSET C /\ F \in SUBSET Cards /\ Cardinality(F) = 5
      /\ A \in SUBSET F /\ B \in SUBSET F
  BY <1>5c
<1> HIDE DEF F
<1>7. Count(F, r) \in 3 .. 4 /\ r \in Groups(F, Count(F, r))
  BY <1>5, <1>6, Contains
<1>8. Count(F, q) \in 2 .. 4 /\ q \in Groups(F, Count(F, q))
  BY <1>5b, <1>6, Contains
<1>9. Count(F, r) + Count(F, q) <= 5
  BY <1>3, <1>6, TwoRanks
<1>10. Count(F, r) = 3 /\ Count(F, q) = 2
  BY <1>7, <1>8, <1>9
<1>11. Groups(F, 3) # {} /\ Groups(F, 2) # {}
  BY <1>7, <1>8, <1>10
<1>12. ORDER[CategorizeFive(F)] >= 6
  BY <1>6, <1>11, AtLeast
<1> QED BY <1>6, <1>12, OrderFacts DEF Reached

LEMMA ReachesTwoPair ==
  ASSUME NEW C \in SUBSET Cards, Cardinality(C) >= 5, Cardinality(OfAKind(C, 2)) >= 2
  PROVE  \E F \in SUBSET C : Reached(F, TwoPair)
<1>1. PICK r, q \in OfAKind(C, 2) : r # q
  <2>1. OfAKind(C, 2) \in SUBSET Ranks(C)
    BY DEF OfAKind
  <2>2. IsFiniteSet(OfAKind(C, 2))
    BY <2>1, RanksFinite
  <2> QED BY <2>2, TwoOf
<1>2. Count(C, r) >= 2 /\ Count(C, q) >= 2
  BY DEF OfAKind
<1>3. PICK A \in SUBSET C : Cardinality(A) = 2 /\ Of(A, r) = A
  BY <1>2, Alike
<1>3b. PICK B \in SUBSET C : Cardinality(B) = 2 /\ Of(B, q) = B
  BY <1>2, Alike
<1>3c. Cardinality(A \cup B) = 4
  <2>1. A \in SUBSET Cards /\ B \in SUBSET Cards
    OBVIOUS
  <2>2. Cardinality(A \cup B) = Cardinality(A) + Cardinality(B)
    BY <1>1, <1>3, <1>3b, <2>1, Apart
  <2> QED BY <1>3, <1>3b, <2>2
<1>4. PICK F \in SUBSET C : A \cup B \subseteq F /\ Cardinality(F) = 5
  <2> DEFINE D == A \cup B
  <2>1. Cardinality(D) <= 5 /\ 5 \in Nat
    BY <1>3c
  <2>2. D \in SUBSET C
    OBVIOUS
  <2> HIDE DEF D
  <2>3. 5 <= Cardinality(C)
    BY CardsFinite
  <2>4. \E F \in SUBSET C : D \subseteq F /\ Cardinality(F) = 5
    BY <2>1, <2>2, <2>3, CanChoose
  <2> QED BY <2>4 DEF D
<1>5. F \in SUBSET Cards /\ A \in SUBSET F /\ B \in SUBSET F
  BY <1>4
<1>6. Count(F, r) \in 2 .. 4 /\ r \in Groups(F, Count(F, r))
  BY <1>3, <1>5, Contains
<1>7. Count(F, q) \in 2 .. 4 /\ q \in Groups(F, Count(F, q))
  BY <1>3b, <1>5, Contains
<1>8. ORDER[CategorizeFive(F)] >= 2
  <2>1. ORDER[CategorizeFive(F)] \in 0 .. 9
    BY <1>5, AtLeast, OrderType
  <2>2. CASE Groups(F, 4) # {}
    BY <1>5, <2>1, <2>2, AtLeast
  <2>3. CASE Groups(F, 3) # {}
    BY <1>5, <2>1, <2>3, AtLeast
  <2>4. CASE Groups(F, 4) = {} /\ Groups(F, 3) = {}
    <3>1. Count(F, r) = 2 /\ Count(F, q) = 2
      BY <1>6, <1>7, <2>4
    <3>2. Groups(F, 2) = {r, q}
      <4> SUFFICES ASSUME NEW p \in Groups(F, 2), p # r, p # q PROVE FALSE
        BY <1>6, <1>7, <3>1
      <4>1. Count(F, p) = 2
        BY DEF Groups
      <4>2. Count(F, r) + Count(F, q) + Count(F, p) <= 5
        BY <1>1, <1>4, <1>5, ThreeRanks
      <4> QED BY <3>1, <4>1, <4>2
    <3>3. Cardinality({r, q}) = 2
      <4>1. Cardinality({r} \cup {q}) = Cardinality({r}) + 1
        BY <1>1, FS_Singleton, FS_AddElement
      <4>2. {r, q} = {r} \cup {q} /\ Cardinality({r}) = 1
        BY FS_Singleton
      <4> QED BY <4>1, <4>2
    <3> QED BY <1>5, <3>2, <3>3, AtLeast
  <2> QED BY <2>2, <2>3, <2>4
<1> QED BY <1>4, <1>5, <1>8, OrderFacts DEF Reached

\* Of one rank: a pair, three or four.
LEMMA ReachesKind ==
  ASSUME NEW C \in SUBSET Cards, Cardinality(C) >= 5, NEW k \in 2 .. 4, OfAKind(C, k) # {}
  PROVE  \E F \in SUBSET C :
           Reached(F, IF k = 4 THEN FourOfAKind ELSE IF k = 3 THEN ThreeOfAKind ELSE OnePair)
<1>1. PICK r \in OfAKind(C, k) : Count(C, r) >= k
  BY DEF OfAKind
<1>2. PICK A \in SUBSET C : Cardinality(A) = k /\ Of(A, r) = A
  BY <1>1, Alike
<1>3. PICK F \in SUBSET C : A \subseteq F /\ Cardinality(F) = 5
  <2>1. Cardinality(A) <= 5 /\ 5 \in Nat /\ 5 <= Cardinality(C)
    <3>1. Cardinality(C) \in Nat
      BY CardsFinite
    <3> QED BY <1>2, <3>1
  <2> QED BY <1>2, <2>1, CanChoose
<1>4. F \in SUBSET Cards /\ A \in SUBSET F
  BY <1>3
<1>5. Count(F, r) \in k .. 4 /\ r \in Groups(F, Count(F, r))
  BY <1>2, <1>4, Contains
<1>6. ORDER[CategorizeFive(F)] \in 0 .. 9
  BY <1>4, AtLeast, OrderType
<1>7. \/ Groups(F, 4) # {}
      \/ k <= 3 /\ Groups(F, 3) # {}
      \/ k = 2 /\ Groups(F, 2) # {}
  <2>1. \/ Count(F, r) = 4
        \/ k <= 3 /\ Count(F, r) = 3
        \/ k = 2 /\ Count(F, r) = 2
    <3>1. k = 2 \/ k = 3 \/ k = 4
      OBVIOUS
    <3>2. Count(F, r) \in k .. 4
      BY <1>5
    <3>3. Count(F, r) = 2 \/ Count(F, r) = 3 \/ Count(F, r) = 4
      BY <3>1, <3>2
    <3>4. Count(F, r) = 2 => k = 2
      BY <3>1, <3>2
    <3>5. Count(F, r) = 3 => k <= 3
      BY <3>1, <3>2
    <3> QED BY <3>3, <3>4, <3>5
  <2>2. r \in Groups(F, Count(F, r))
    BY <1>5
  <2> QED BY <2>1, <2>2
<1>8. \/ k = 4 /\ ORDER[CategorizeFive(F)] >= 7
      \/ k = 3 /\ ORDER[CategorizeFive(F)] >= 3
      \/ k = 2 /\ ORDER[CategorizeFive(F)] >= 1
  <2>1. CASE Groups(F, 4) # {}
    <3>1. ORDER[CategorizeFive(F)] >= 7
      BY <1>4, <2>1, AtLeast
    <3> QED BY <1>6, <3>1
  <2>2. CASE k <= 3 /\ Groups(F, 3) # {}
    <3>1. ORDER[CategorizeFive(F)] >= 3
      BY <1>4, <2>2, AtLeast
    <3> QED BY <1>6, <2>2, <3>1
  <2>3. CASE k = 2 /\ Groups(F, 2) # {}
    BY <1>4, <2>3, AtLeast
  <2> QED BY <1>7, <2>1, <2>2, <2>3
<1>9. CASE k = 4
  BY <1>3, <1>4, <1>8, <1>9, OrderFacts DEF Reached
<1>10. CASE k = 3
  BY <1>3, <1>4, <1>8, <1>10, OrderFacts DEF Reached
<1>11. CASE k = 2
  BY <1>3, <1>4, <1>8, <1>11, OrderFacts DEF Reached
<1> QED BY <1>9, <1>10, <1>11

\* Of one suit, or in a row, or both.
LEMMA OneSuit ==
  ASSUME NEW C \in SUBSET Cards, NEW s \in Suited(C), NEW F \in SUBSET s
  PROVE  F \in SUBSET C /\ s \in SUBSET Cards /\ IsFlush(F)
BY DEF Suited, IsFlush

LEMMA ReachesFlush ==
  ASSUME NEW C \in SUBSET Cards, NEW s \in Suited(C), Cardinality(s) >= 5
  PROVE  \E F \in SUBSET C : Reached(F, AFlush)
<1>1. s \in SUBSET Cards /\ Cardinality(s) \in Nat
  BY CardsFinite DEF Suited
<1>2. {} \in SUBSET s /\ Cardinality({}) <= 5 /\ 5 \in Nat /\ 5 <= Cardinality(s)
  BY <1>1, FS_EmptySet
<1>3. PICK F \in SUBSET s : Cardinality(F) = 5
  BY <1>1, <1>2, CanChoose
<1>4. F \in SUBSET C /\ F \in SUBSET Cards /\ IsFlush(F)
  BY <1>1, OneSuit
<1>5. ORDER[CategorizeFive(F)] >= 5
  BY <1>4, AtLeast
<1> QED BY <1>3, <1>4, <1>5, OrderFacts DEF Reached

LEMMA ReachesStraight ==
  ASSUME NEW C \in SUBSET Cards, Runs(C) # {}
  PROVE  \E F \in SUBSET C : Reached(F, AStraight)
<1>1. PICK low : low \in Runs(C)
  OBVIOUS
<1>2. PICK F \in SUBSET C : low \in -1 .. 8 /\ Ranks(F) = Row(low) /\ Cardinality(F) = 5
  BY <1>1, Rowed
<1>3. F \in SUBSET Cards /\ IsStraight(F)
  BY <1>2, RowIsStraight
<1>4. ORDER[CategorizeFive(F)] >= 4
  BY <1>3, AtLeast
<1> QED BY <1>2, <1>3, <1>4, OrderFacts DEF Reached

LEMMA ReachesStraightFlush ==
  ASSUME NEW C \in SUBSET Cards, NEW s \in Suited(C), NEW low \in Runs(s)
  PROVE  \E F \in SUBSET C : Reached(F, IF low = 8 THEN RoyalFlush ELSE StraightFlush)
<1>1. s \in SUBSET Cards
  BY DEF Suited
<1>2. PICK F \in SUBSET s : low \in -1 .. 8 /\ Ranks(F) = Row(low) /\ Cardinality(F) = 5
  BY <1>1, Rowed
<1>3. F \in SUBSET C /\ F \in SUBSET Cards /\ IsFlush(F)
  BY <1>1, OneSuit
<1>4. IsStraight(F) /\ StraightHigh(Ranks(F)) = low + 4
  BY <1>2, <1>3, RowIsStraight
<1>5. CASE low = 8
  <2>1. ORDER[CategorizeFive(F)] = 9
    <3>1. StraightHigh(Ranks(F)) = 12
      BY <1>4, <1>5
    <3> QED BY <1>3, <1>4, <3>1, AtLeast
  <2> QED BY <1>2, <1>3, <1>5, <2>1, OrderFacts DEF Reached
<1>6. CASE low # 8
  <2>1. ORDER[CategorizeFive(F)] >= 8
    BY <1>3, <1>4, AtLeast
  <2> QED BY <1>2, <1>3, <1>6, <2>1, OrderFacts DEF Reached
<1> QED BY <1>5, <1>6

LEMMA Reaches ==
  ASSUME NEW C \in SUBSET Cards, Cardinality(C) >= 5, NEW name \in Names, Holds(C, name)
  PROVE  \E F \in SUBSET C : Reached(F, name)
<1>1. CASE name = RoyalFlush
  <2>1. PICK s \in Suited(C) : 8 \in Runs(s)
    BY <1>1 DEF Holds, RoyalFlush
  <2> QED BY <1>1, <2>1, ReachesStraightFlush
<1>2. CASE name = StraightFlush
  <2>1. PICK s \in Suited(C) : Runs(s) # {}
    BY <1>2 DEF Holds, StraightFlush
  <2>2. PICK low : low \in Runs(s)
    BY <2>1
  <2>3. PICK F \in SUBSET C : Reached(F, IF low = 8 THEN RoyalFlush ELSE StraightFlush)
    BY <2>2, ReachesStraightFlush
  <2>4. Reached(F, StraightFlush)
    <3>1. ORDER[CategorizeFive(F)] \in 0 .. 9
      BY AtLeast, OrderType
    <3> QED BY <2>3, <3>1, OrderFacts DEF Reached
  <2> QED BY <1>2, <2>4
<1>3. CASE name = FourOfAKind
  <2>1. OfAKind(C, 4) # {}
    BY <1>3 DEF Holds, FourOfAKind
  <2>2. \E F \in SUBSET C :
          Reached(F, IF 4 = 4 THEN FourOfAKind ELSE IF 4 = 3 THEN ThreeOfAKind ELSE OnePair)
    BY <2>1, ReachesKind
  <2> QED BY <1>3, <2>2
<1>4. CASE name = FullHouse
  <2>1. PICK r \in OfAKind(C, 3) : OfAKind(C, 2) # {r}
    BY <1>4 DEF Holds, FullHouse
  <2> QED BY <1>4, <2>1, ReachesFullHouse
<1>5. CASE name = AFlush
  <2>1. PICK s \in Suited(C) : Cardinality(s) >= 5
    BY <1>5 DEF Holds, AFlush
  <2> QED BY <1>5, <2>1, ReachesFlush
<1>6. CASE name = AStraight
  <2>1. Runs(C) # {}
    BY <1>6 DEF Holds, AStraight
  <2> QED BY <1>6, <2>1, ReachesStraight
<1>7. CASE name = ThreeOfAKind
  <2>1. OfAKind(C, 3) # {}
    BY <1>7 DEF Holds, ThreeOfAKind
  <2>2. \E F \in SUBSET C :
          Reached(F, IF 3 = 4 THEN FourOfAKind ELSE IF 3 = 3 THEN ThreeOfAKind ELSE OnePair)
    BY <2>1, ReachesKind
  <2> QED BY <1>7, <2>2
<1>8. CASE name = TwoPair
  <2>1. Cardinality(OfAKind(C, 2)) >= 2
    BY <1>8 DEF Holds, TwoPair
  <2> QED BY <1>8, <2>1, ReachesTwoPair
<1>9. CASE name = OnePair
  <2>1. OfAKind(C, 2) # {}
    BY <1>9 DEF Holds, OnePair
  <2>2. \E F \in SUBSET C :
          Reached(F, IF 2 = 4 THEN FourOfAKind ELSE IF 2 = 3 THEN ThreeOfAKind ELSE OnePair)
    BY <2>1, ReachesKind
  <2> QED BY <1>9, <2>2
<1>10. CASE name = HighCard
  <2>1. {} \in SUBSET C /\ Cardinality({}) <= 5 /\ 5 \in Nat /\ 5 <= Cardinality(C)
    <3>1. Cardinality(C) \in Nat
      BY CardsFinite
    <3> QED BY <3>1, FS_EmptySet
  <2>2. PICK F \in SUBSET C : Cardinality(F) = 5
    BY <2>1, CanChoose
  <2>3. F \in SUBSET Cards
    BY <2>2
  <2>4. ORDER[CategorizeFive(F)] \in 0 .. 9
    BY <2>3, AtLeast, OrderType
  <2> QED BY <1>10, <2>2, <2>3, <2>4, OrderFacts DEF Reached
<1> QED BY <1>1, <1>2, <1>3, <1>4, <1>5, <1>6, <1>7, <1>8, <1>9, <1>10 DEF Names

(* The name of a hand.                                                     *)

LEMMA BestOfMany ==
  ASSUME NEW C \in SUBSET Cards, Cardinality(C) >= 5
  PROVE  IsBestHand(C, BestHandName(C))
<1> DEFINE fives == {F \in SUBSET C : Cardinality(F) = 5}
           names == {CategorizeFive(F) : F \in fives}
           best  == CHOOSE b \in names : \A n \in names : ORDER[n] <= ORDER[b]
<1>1. Cardinality(C) \in Nat /\ \A F \in fives : F \in SUBSET Cards /\ Cardinality(F) = 5
  BY CardsFinite
<1>2. names \in SUBSET Names /\ \A n \in names : ORDER[n] \in 0 .. 12
  <2>1. \A F \in fives : CategorizeFive(F) \in Names
    BY <1>1, FiveHold
  <2>2. names \in SUBSET Names
    BY <2>1
  <2> HIDE DEF names
  <2> QED BY <2>2, OrderType
<1>3. \A n \in names : Holds(C, n)
  <2> SUFFICES ASSUME NEW F \in fives PROVE Holds(C, CategorizeFive(F))
    OBVIOUS
  <2>1. CategorizeFive(F) \in Names /\ Holds(F, CategorizeFive(F))
    BY <1>1, FiveHold
  <2> QED BY <2>1, HoldsGrows, OrderFacts
<1>4. \A name \in Names : Holds(C, name) => \E n \in names : ORDER[n] >= ORDER[name]
  <2> SUFFICES ASSUME NEW name \in Names, Holds(C, name)
               PROVE  \E n \in names : ORDER[n] >= ORDER[name]
    OBVIOUS
  <2>1. PICK F \in SUBSET C : Reached(F, name)
    BY Reaches
  <2>2. F \in fives /\ ORDER[CategorizeFive(F)] >= ORDER[name]
    BY <2>1 DEF Reached
  <2> QED BY <2>2
<1>5. names # {}
  <2>1. HighCard \in Names /\ Holds(C, HighCard)
    BY DEF Names, Holds, HighCard
  <2> HIDE DEF names
  <2> QED BY <1>4, <2>1
<1>6. BestHandName(C) = best
  <2>1. ~(Cardinality(C) < 5) /\ ~(Cardinality(C) < 2)
    BY <1>1
  <2> QED BY <2>1 DEF BestHandName, kSubset
<1> HIDE DEF names
<1>7. \E b \in names : \A n \in names : ORDER[n] <= ORDER[b]
  <2> DEFINE R == {ORDER[n] : n \in names}
  <2>1. R \in SUBSET (0 .. 12) /\ R # {}
    BY <1>2, <1>5
  <2> HIDE DEF R
  <2>2. PICK x \in R : \A y \in R : x >= y
    BY <2>1, Greatest
  <2>3. PICK b \in names : x = ORDER[b]
    BY <2>2 DEF R
  <2>4. \A n \in names : ORDER[n] <= ORDER[b]
    <3> SUFFICES ASSUME NEW n \in names PROVE ORDER[n] <= ORDER[b]
      OBVIOUS
    <3>1. ORDER[n] \in R
      BY DEF R
    <3> QED BY <1>2, <2>2, <2>3, <3>1
  <2> QED BY <2>4
<1>8. best \in names /\ \A n \in names : ORDER[n] <= ORDER[best]
  BY <1>7
<1> HIDE DEF best
<1>9. \A better \in Names : ORDER[better] > ORDER[best] => ~Holds(C, better)
  <2> SUFFICES ASSUME NEW better \in Names, ORDER[better] > ORDER[best], Holds(C, better)
               PROVE  FALSE
    OBVIOUS
  <2>1. PICK n \in names : ORDER[n] >= ORDER[better]
    BY <1>4
  <2>2. ORDER[n] <= ORDER[best] /\ ORDER[n] \in 0 .. 9 /\ ORDER[best] \in 0 .. 9
        /\ ORDER[better] \in 0 .. 9
    BY <1>2, <1>8, OrderType
  <2> QED BY <2>1, <2>2
<1> QED BY <1>3, <1>6, <1>8, <1>9, OrderFacts DEF IsBestHand

\* Of two, three or four cards.
LEMMA TooFew ==
  ASSUME NEW C \in SUBSET Cards, Cardinality(C) < 5
  PROVE  /\ ~Holds(C, RoyalFlush) /\ ~Holds(C, StraightFlush) /\ ~Holds(C, FullHouse)
         /\ ~Holds(C, AFlush) /\ ~Holds(C, AStraight)
<1>1. IsFiniteSet(C) /\ Cardinality(C) \in Nat
  BY CardsFinite
<1>2. \A A \in SUBSET C : Cardinality(A) \in Nat /\ Cardinality(A) < 5
  <2> SUFFICES ASSUME NEW A \in SUBSET C PROVE Cardinality(A) \in Nat /\ Cardinality(A) < 5
    OBVIOUS
  <2>1. Cardinality(A) <= Cardinality(C)
    BY <1>1, FS_Subset
  <2>2. Cardinality(A) \in Nat
    BY CardsFinite
  <2> QED BY <1>1, <2>1, <2>2
<1>3. \A s \in SUBSET C : Runs(s) = {}
  <2> SUFFICES ASSUME NEW s \in SUBSET C, NEW low \in Runs(s) PROVE FALSE
    OBVIOUS
  <2>1. PICK A \in SUBSET s : Cardinality(A) = 5
    BY Rowed
  <2>2. A \in SUBSET C
    OBVIOUS
  <2> QED BY <1>2, <2>1, <2>2
<1>4. \A s \in Suited(C) : s \in SUBSET C
  BY DEF Suited
<1>5. ~Holds(C, AStraight)
  BY <1>3 DEF Holds, AStraight
<1>6. ~Holds(C, StraightFlush)
  BY <1>3, <1>4 DEF Holds, StraightFlush
<1>7. ~Holds(C, RoyalFlush)
  <2>1. \A s \in Suited(C) : 8 \notin Runs(s)
    BY <1>3, <1>4
  <2> QED BY <2>1 DEF Holds, RoyalFlush
<1>8. ~Holds(C, AFlush)
  <2>1. \A s \in Suited(C) : ~(Cardinality(s) >= 5)
    BY <1>2, <1>4
  <2> QED BY <2>1 DEF Holds, AFlush
<1>9. ~Holds(C, FullHouse)
  <2> SUFFICES ASSUME NEW r \in OfAKind(C, 3), OfAKind(C, 2) # {r} PROVE FALSE
    BY DEF Holds, FullHouse
  <2>1. r \in Ranks(C) /\ Count(C, r) >= 3 /\ Count(C, r) \in 0 .. 4
    BY CountFacts DEF OfAKind
  <2>2. r \in OfAKind(C, 2)
    BY <2>1 DEF OfAKind
  <2>3. PICK q \in OfAKind(C, 2) : q # r
    BY <2>2
  <2>4. Count(C, q) >= 2 /\ Count(C, q) \in 0 .. 4
    BY CountFacts DEF OfAKind
  <2>5. Count(C, r) + Count(C, q) <= Cardinality(C)
    BY <2>3, TwoRanks
  <2> QED BY <1>1, <2>1, <2>4, <2>5
<1> QED BY <1>5, <1>6, <1>7, <1>8, <1>9

\* A rank that occurs k times or more occurs k times, three or four.
LEMMA KindIsGroup ==
  ASSUME NEW C \in SUBSET Cards
  PROVE  /\ OfAKind(C, 4) = Groups(C, 4)
         /\ Groups(C, 4) = {} => OfAKind(C, 3) = Groups(C, 3)
         /\ Groups(C, 4) = {} /\ Groups(C, 3) = {} => OfAKind(C, 2) = Groups(C, 2)
<1>1. \A r \in Ranks(C) : Count(C, r) \in 0 .. 4
  BY CountFacts
<1>2. OfAKind(C, 4) = Groups(C, 4)
  BY <1>1 DEF OfAKind, Groups
<1>3. ASSUME Groups(C, 4) = {} PROVE OfAKind(C, 3) = Groups(C, 3)
  <2>1. \A r \in Ranks(C) : Count(C, r) # 4
    BY <1>3 DEF Groups
  <2>2. \A r \in Ranks(C) : Count(C, r) >= 3 <=> Count(C, r) = 3
    BY <1>1, <2>1
  <2> QED BY <2>2 DEF OfAKind, Groups
<1>4. ASSUME Groups(C, 4) = {}, Groups(C, 3) = {} PROVE OfAKind(C, 2) = Groups(C, 2)
  <2>1. \A r \in Ranks(C) : Count(C, r) # 4 /\ Count(C, r) # 3
    BY <1>4 DEF Groups
  <2>2. \A r \in Ranks(C) : Count(C, r) >= 2 <=> Count(C, r) = 2
    BY <1>1, <2>1
  <2> QED BY <2>2 DEF OfAKind, Groups
<1> QED BY <1>2, <1>3, <1>4

LEMMA BestOfFew ==
  ASSUME NEW C \in SUBSET Cards, Cardinality(C) < 5, ~(Cardinality(C) < 2)
  PROVE  IsBestHand(C, BestHandName(C))
<1> DEFINE name == CategorizePartial(C)
<1>1. BestHandName(C) = name
  BY DEF BestHandName
<1>2. name \in Names /\ Holds(C, name)
  BY PartialHolds
<1>3. \A better \in Names :
        Holds(C, better) => better \in {HighCard, OnePair, TwoPair, ThreeOfAKind, FourOfAKind}
  BY TooFew DEF Names
<1>4. \A better \in Names : Holds(C, better) => ORDER[better] <= ORDER[name]
  <2>1. CASE Groups(C, 4) # {}
    <3>1. name = FourOfAKind
      BY <2>1 DEF CategorizePartial, FourOfAKind
    <3> HIDE DEF name
    <3> QED BY <1>3, <3>1, OrderFacts
  <2>2. CASE Groups(C, 4) = {} /\ Groups(C, 3) # {}
    <3>1. name = ThreeOfAKind
      BY <2>2 DEF CategorizePartial, ThreeOfAKind
    <3>2. ~Holds(C, FourOfAKind)
      BY <2>2, KindIsGroup DEF Holds, FourOfAKind
    <3> HIDE DEF name
    <3> QED BY <1>3, <3>1, <3>2, OrderFacts
  <2>3. CASE Groups(C, 4) = {} /\ Groups(C, 3) = {}
    <3>1. ~Holds(C, FourOfAKind)
      BY <2>3, KindIsGroup DEF Holds, FourOfAKind
    <3>2. ~Holds(C, ThreeOfAKind)
      BY <2>3, KindIsGroup DEF Holds, ThreeOfAKind
    <3>3. CASE Cardinality(Groups(C, 2)) = 2
      <4>1. name = TwoPair
        BY <2>3, <3>3 DEF CategorizePartial, TwoPair
      <4> HIDE DEF name
      <4> QED BY <1>3, <3>1, <3>2, <4>1, OrderFacts
    <3>4. CASE Cardinality(Groups(C, 2)) # 2
      <4>1. ~Holds(C, TwoPair)
        <5> SUFFICES ASSUME Cardinality(OfAKind(C, 2)) >= 2 PROVE FALSE
          BY DEF Holds, TwoPair
        <5>1. OfAKind(C, 2) = Groups(C, 2) /\ Groups(C, 2) \in SUBSET Ranks(C)
          BY <2>3, KindIsGroup DEF Groups
        <5>2. IsFiniteSet(Groups(C, 2))
          BY <5>1, RanksFinite
        <5>3. PICK r, q \in Groups(C, 2) : r # q
          BY <5>1, <5>2, TwoOf
        <5>4. \E p \in Groups(C, 2) : p # r /\ p # q
          <6> SUFFICES ASSUME Groups(C, 2) = {r, q} PROVE FALSE
            BY <5>3
          <6>1. Cardinality({r} \cup {q}) = Cardinality({r}) + 1
            BY <5>3, FS_Singleton, FS_AddElement
          <6>2. {r, q} = {r} \cup {q} /\ Cardinality({r}) = 1
            BY FS_Singleton
          <6> QED BY <3>4, <6>1, <6>2
        <5>5. PICK p \in Groups(C, 2) : p # r /\ p # q
          BY <5>4
        <5>6. Count(C, r) + Count(C, q) + Count(C, p) <= Cardinality(C)
          BY <5>3, <5>5, ThreeRanks
        <5>7. Count(C, r) = 2 /\ Count(C, q) = 2 /\ Count(C, p) = 2
          BY <5>3, <5>5 DEF Groups
        <5>8. Cardinality(C) \in Nat
          BY CardsFinite
        <5> QED BY <5>6, <5>7, <5>8
      <4>2. CASE Groups(C, 2) # {}
        <5>1. name = OnePair
          BY <2>3, <3>4, <4>2 DEF CategorizePartial, OnePair
        <5> HIDE DEF name
        <5> QED BY <1>3, <3>1, <3>2, <4>1, <5>1, OrderFacts
      <4>3. CASE Groups(C, 2) = {}
        <5>1. name = HighCard
          BY <2>3, <3>4, <4>3 DEF CategorizePartial, HighCard
        <5>2. ~Holds(C, OnePair)
          BY <2>3, <4>3, KindIsGroup DEF Holds, OnePair
        <5> HIDE DEF name
        <5> QED BY <1>3, <3>1, <3>2, <4>1, <5>1, <5>2, OrderFacts
      <4> QED BY <4>2, <4>3
    <3> QED BY <3>3, <3>4
  <2> QED BY <2>1, <2>2, <2>3
<1> HIDE DEF name
<1>5. \A better \in Names : ORDER[better] > ORDER[name] => ~Holds(C, better)
  <2> SUFFICES ASSUME NEW better \in Names, ORDER[better] > ORDER[name], Holds(C, better)
               PROVE  FALSE
    OBVIOUS
  <2>1. ORDER[better] <= ORDER[name] /\ ORDER[better] \in 0 .. 9 /\ ORDER[name] \in 0 .. 9
    BY <1>2, <1>4, OrderType
  <2> QED BY <2>1
<1> QED BY <1>1, <1>2, <1>5, OrderFacts DEF IsBestHand

\* Whatever cards of the deck a hand has, two at least, handEval.ts gives it the
\* best name it deserves: bestHandName of two to four cards, and the best of five
\* of more.
THEOREM HandsAreNamed ==
  \A C \in SUBSET Cards : Cardinality(C) >= 2 => IsBestHand(C, BestHandName(C))
<1> SUFFICES ASSUME NEW C \in SUBSET Cards, Cardinality(C) >= 2
             PROVE  IsBestHand(C, BestHandName(C))
  OBVIOUS
<1>1. Cardinality(C) \in Nat /\ ~(Cardinality(C) < 2)
  BY CardsFinite
<1> QED BY <1>1, BestOfFew, BestOfMany

\* The cards on the screen are of the deck, and a player has two.
CardsOfDeck ==
  /\ hole \subseteq Cards /\ board \subseteq Cards
  /\ hole = {} \/ Cardinality(hole) = 2

LEMMA CardsInitInv == Init => CardsOfDeck
BY DEF Init, CardsOfDeck

LEMMA CardsNextInv == CardsOfDeck /\ [Next]_vars => CardsOfDeck'
<1> SUFFICES ASSUME CardsOfDeck, [Next]_vars PROVE CardsOfDeck'
  OBVIOUS
<1> USE DEF CardsOfDeck
<1>1. CASE Press \/ HoldElapses \/ Leave \/ LiftOff \/ Release \/ Clear \/ UNCHANGED vars
  BY <1>1 DEF Press, HoldElapses, Leave, LiftOff, Release, Clear, vars, game
<1>2. CASE NewHand
  BY <1>2, TableScreenAssumption DEF NewHand
<1>3. CASE Deal
  <2>1. PICK k : \E new \in kSubset(k, Deck \ (hole \union board)) : board' = board \union new
    BY <1>3 DEF Deal
  <2>2. PICK new \in kSubset(k, Deck \ (hole \union board)) : board' = board \union new
    BY <2>1
  <2>3. new \subseteq Deck
    BY DEF kSubset
  <2> QED BY <1>3, <2>2, <2>3, TableScreenAssumption DEF Deal
<1>4. CASE Stop
  BY <1>4 DEF Stop
<1> QED BY <1>1, <1>2, <1>3, <1>4 DEF Next

\* What is enlarged is named by the best hand that can be made of the player's
\* cards and the board, on every street and after any hands (Table.tsx).
THEOREM ScreenNamesBestHand == Spec => []NamesBestHand
<1>1. CardsOfDeck => NamesBestHand
  <2> SUFFICES ASSUME CardsOfDeck, Named PROVE IsBestHand(hole \union board, MyBestHand)
    BY DEF NamesBestHand
  <2>1. hole \union board \in SUBSET Cards /\ Cardinality(hole) = 2
    BY DEF CardsOfDeck, Named
  <2>2. IsFiniteSet(hole \union board) /\ Cardinality(hole \union board) \in Nat
    BY <2>1, CardsFinite
  <2>3. Cardinality(hole) <= Cardinality(hole \union board)
    BY <2>2, FS_Subset
  <2>4. Cardinality(hole \union board) >= 2
    BY <2>1, <2>2, <2>3
  <2> QED BY <2>1, <2>4, HandsAreNamed DEF MyBestHand
<1> QED BY <1>1, CardsInitInv, CardsNextInv, PTL DEF Spec
=================================================================================
