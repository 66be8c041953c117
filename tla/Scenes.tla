--------------------------------- MODULE Scenes ---------------------------------
(***************************************************************************)
(* Loading what the screens show (preload.ts).  A batch waits for the      *)
(* assets of the start screen, the room, the recharge dialog or one of the *)
(* two warm-ups; all of them share the requests under way.  A request is   *)
(* given up after 12 s, a batch waits 8 s at most.  A request that was     *)
(* given up, and aborted, is answered nevertheless.                        *)
(***************************************************************************)
EXTENDS Naturals

CONSTANTS
  Critical, Room, Recharge, Wallpapers,  \* the assets of the batches
  Openings                               \* bound: how often screens open

ASSUME ScenesAssumption == Openings \in Nat

Assets  == Critical \union Room \union Recharge \union Wallpapers
Batches == {"start", "room", "recharge", "warm", "warmLater"}
Urls    == [start |-> Critical, room |-> Room, recharge |-> Recharge,
            warm |-> Room \union Recharge, warmLater |-> Wallpapers]

VARIABLES
  tasks,     \* of each asset: "none", "loading" or "ready"
  stale,     \* requests given up that the browser has not answered
  batch,     \* [state: "off", "waiting" or "done", left, failed]: the assets it
             \* still counts on, and failedUrls
  revealed,  \* assetsReady: the start screen is gone
  openings   \* times screens may still open
scenes == <<tasks, stale, batch, revealed, openings>>

Off        == [state |-> "off", left |-> {}, failed |-> {}]
Left(left) == [state |-> "waiting", left |-> left, failed |-> {}]
Ready      == {a \in Assets : tasks[a] = "ready"}
Missing(b) == {a \in Urls[b] : tasks'[a] # "ready"}

\* failedUrls is what is missing when the batch ends, for whatever reason.
Finished(b) == [state |-> "done", left |-> {}, failed |-> Missing(b)]

\* loadAsset for each asset of a batch: the request under way, or a new one.
Loading(b) == [a \in Assets |-> IF a \in Urls[b] /\ tasks[a] = "none" THEN "loading" ELSE tasks[a]]
Load(b) ==
  /\ tasks' = Loading(b)
  /\ LET left == {a \in Urls[b] : tasks'[a] = "loading"}
     IN  batch' = [batch EXCEPT ![b] = IF left = {} THEN Finished(b) ELSE Left(left)]
  /\ UNCHANGED stale

\* The promise of a request resolves: the batches that count on it go on.
Settle(a, outcome) ==
  /\ tasks' = [tasks EXCEPT ![a] = outcome]
  /\ batch' = [b \in Batches |->
                 IF a \notin batch[b].left THEN batch[b]
                 ELSE IF batch[b].left = {a} THEN Finished(b)
                 ELSE [batch[b] EXCEPT !.left = @ \ {a}]]
  /\ UNCHANGED <<revealed, openings>>

---------------------------------------------------------------------------------
(* Requests.                                                               *)

Loads(a) == tasks[a] = "loading" /\ Settle(a, "ready") /\ UNCHANGED stale

\* A task that failed is forgotten, so that the next screen tries again.
Fails(a) == tasks[a] = "loading" /\ Settle(a, "none") /\ UNCHANGED stale

GivesUp(a) ==
  /\ tasks[a] = "loading" /\ Settle(a, "none")
  /\ stale' = [stale EXCEPT ![a] = @ + 1]

\* finished: the asset may have another task by now.
AnsweredLate(a) ==
  /\ stale[a] > 0 /\ stale' = [stale EXCEPT ![a] = @ - 1]
  /\ UNCHANGED <<tasks, batch, revealed, openings>>

---------------------------------------------------------------------------------
(* Batches and the screens they are for.                                   *)

\* Mutant: what has not failed yet counts as loaded.
DeadlineTrusting(b) ==
  /\ batch[b].state = "waiting"
  /\ tasks' = tasks
  /\ batch' = [batch EXCEPT ![b] = [Finished(b) EXCEPT !.failed = @ \ batch[b].left]]
  /\ UNCHANGED <<stale, revealed, openings>>

\* 8 s: the batch ends, the requests go on for the others.
Deadline(b) ==
  /\ batch[b].state = "waiting"
  /\ tasks' = tasks
  /\ batch' = [batch EXCEPT ![b] = Finished(b)]
  /\ UNCHANGED <<stale, revealed, openings>>

\* Mutant: the start screen stays if something is missing.
RevealWhole ==
  /\ batch["start"].state = "done" /\ batch["start"].failed = {} /\ ~revealed
  /\ revealed' = TRUE
  /\ UNCHANGED <<tasks, stale, batch, openings>>

\* The start screen has faded out.
Reveal ==
  /\ batch["start"].state = "done" /\ ~revealed
  /\ revealed' = TRUE
  /\ UNCHANGED <<tasks, stale, batch, openings>>

\* preloadIdleAssets, once the start screen is gone.
WarmUp ==
  /\ revealed /\ batch["warm"].state = "off"
  /\ Load("warm")
  /\ UNCHANGED <<revealed, openings>>
WarmUpLater ==
  /\ batch["warm"].state = "done" /\ batch["warmLater"].state = "off"
  /\ Load("warmLater")
  /\ UNCHANGED <<revealed, openings>>

\* useSceneAssets: a room opens under the start screen when a session is
\* restored; the dialog takes a click.
Open(s) ==
  /\ batch[s].state = "off" /\ (s = "recharge" => revealed)
  /\ openings > 0 /\ openings' = openings - 1
  /\ Load(s)
  /\ UNCHANGED revealed

\* Unmounted, the screen has no use for its batch; the requests go on.
Close(s) ==
  /\ batch[s].state # "off"
  /\ batch' = [batch EXCEPT ![s] = Off]
  /\ UNCHANGED <<tasks, stale, revealed, openings>>

ScenesInit ==
  /\ tasks = [a \in Assets |-> IF a \in Critical THEN "loading" ELSE "none"]
  /\ stale = [a \in Assets |-> 0]
  /\ batch = [b \in Batches |-> IF b = "start" THEN Left(Critical) ELSE Off]
  /\ revealed = FALSE /\ openings = Openings

Network == \E a \in Assets : Loads(a) \/ Fails(a) \/ AnsweredLate(a)
Browser ==
  \/ \E a \in Assets : GivesUp(a)
  \/ \E b \in Batches : Deadline(b)
  \/ Reveal \/ WarmUp \/ WarmUpLater
Viewer == \E s \in {"room", "recharge"} : Open(s) \/ Close(s)

ScenesNext == Network \/ Browser \/ Viewer
ScenesSpec == ScenesInit /\ [][ScenesNext]_scenes

\* Timers fire; nothing is assumed of the network.
FairScenesSpec ==
  /\ ScenesSpec
  /\ \A b \in Batches : WF_scenes(Deadline(b))
  /\ WF_scenes(Reveal) /\ WF_scenes(WarmUp) /\ WF_scenes(WarmUpLater)

---------------------------------------------------------------------------------
(* Properties.                                                             *)

\* An asset that was loaded stays so, whatever becomes of an earlier request
\* for it: no screen that has shown it comes up without it again.
LoadedStays == [][\A a \in Ready : tasks'[a] = "ready"]_scenes

\* A screen shows without a fallback only what is loaded, though its batch may
\* have ended before its requests, and those were other batches' too.
ShowsTheLoaded ==
  \A b \in Batches : batch[b].state = "done" => Urls[b] \ batch[b].failed \subseteq Ready

\* Even if the network never answers, the start screen goes, the warm-up ends,
\* and no screen keeps its user waiting.
NobodyWaits ==
  /\ <>revealed
  /\ <>(batch["warmLater"].state = "done")
  /\ \A s \in {"room", "recharge"} : batch[s].state = "waiting" ~> batch[s].state # "waiting"
=================================================================================
