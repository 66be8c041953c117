--------------------------------- MODULE Music ----------------------------------
(***************************************************************************)
(* Background music (web/lib/sfx.ts): a screen starts the loop of its      *)
(* track and stops it when it is left.  A track is fetched and decoded     *)
(* once; the loop starts when that is done, unless it is stale by then.    *)
(***************************************************************************)
EXTENDS Naturals

CONSTANTS
  Tracks,      \* the screens with music
  Quiet,       \* no track, no screen with music
  Default,     \* the volume of a browser that stores none
  Uncached,
  Hasty        \* a screen may be left and opened again while its track is loading

ASSUME MusicAssumption == Hasty \in BOOLEAN /\ Quiet \notin Tracks

VARIABLES
  screen,      \* on show: a track's, or Quiet
  track,       \* bgmTrack
  source,      \* bgmSource: the track whose loop it is
  gain,        \* its volume
  cachedVol,   \* cachedBgmVolume
  decoded,     \* bgmBuffers
  loads,       \* calls of startBgm that wait for their buffer, per track
  strays       \* loops that play though nothing refers to them

music == <<screen, track, source, gain, cachedVol, decoded, loads, strays>>

MusicInit ==
  /\ screen = Quiet /\ track = Quiet /\ source = Quiet /\ gain = Default
  /\ cachedVol = Uncached /\ decoded = {} /\ loads = [t \in Tracks |-> 0] /\ strays = 0

\* getBgmVolume, given what the browser stores.
Volume(kept) == IF cachedVol # Uncached THEN cachedVol ELSE kept

\* stopBgm, and the track that startBgm sets next.
StopBgm(next) ==
  /\ track' = next /\ source' = Quiet
  /\ UNCHANGED <<gain, strays>>

\* Another screen: the old one's cleanup runs, then the new one's startBgm.
Show(next) ==
  /\ next # screen /\ screen' = next
  /\ next \in Tracks => Hasty \/ loads[next] = 0
  /\ StopBgm(next)
  /\ loads' = IF next \in Tracks THEN [loads EXCEPT ![next] = @ + 1] ELSE loads
  /\ UNCHANGED <<cachedVol, decoded>>

\* The buffer is there.
Loaded(t, kept) ==
  /\ loads[t] > 0 /\ loads' = [loads EXCEPT ![t] = @ - 1]
  /\ decoded' = decoded \union {t}
  /\ IF track # t THEN UNCHANGED <<source, gain, cachedVol, strays>>
     ELSE /\ source' = t /\ gain' = Volume(kept) /\ cachedVol' = Volume(kept)
          /\ strays' = IF source # Quiet THEN strays + 1 ELSE strays
  /\ UNCHANGED <<screen, track>>

LoadFails(t) ==
  /\ loads[t] > 0 /\ t \notin decoded
  /\ loads' = [loads EXCEPT ![t] = @ - 1]
  /\ UNCHANGED <<screen, track, source, gain, cachedVol, decoded, strays>>

\* setBgmVolume
SetVolume(v) ==
  /\ cachedVol' = v
  /\ gain' = IF source # Quiet THEN v ELSE gain
  /\ UNCHANGED <<screen, track, source, decoded, loads, strays>>

\* Mutant: the level is kept until the next track.
VolumeAppliedLater(kept) == cachedVol' = kept /\ UNCHANGED gain

\* onSettingsApplied: the caches are dropped and the level is read again.
VolumeApplied(kept) ==
  /\ cachedVol' = kept
  /\ gain' = IF source # Quiet THEN kept ELSE gain

ReadAgain(kept) ==
  /\ VolumeApplied(kept)
  /\ UNCHANGED <<screen, track, source, decoded, loads, strays>>

---------------------------------------------------------------------------------
(* Properties.                                                             *)

\* One loop at most is heard, and it is the music of the screen on show:
\* whatever loads were stopped, overtaken or failed.
OneLoop == strays = 0 /\ (source # Quiet => source = track /\ track = screen)
=================================================================================
