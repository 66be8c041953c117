---------------------------------- MODULE Page ----------------------------------
(***************************************************************************)
(* The page's own machinery at work together: its link to the server, the  *)
(* player's preferences that travel over it, and the music that plays at   *)
(* one of them.  WebSocket.tsx wires them: a socket that opens is given to *)
(* the preferences, the answer to the login both marks the link and brings *)
(* the account's preferences, and these change what is heard.              *)
(*                                                                         *)
(* What the player, the network and other devices do is a disturbance; a   *)
(* behaviour has at most Disturbances of them.                             *)
(***************************************************************************)
EXTENDS Link, Preferences, Music

CONSTANTS
  Bgm,             \* the field of the music's volume
  Disturbances     \* bound

ASSUME PageAssumption == Bgm \in Fields /\ Disturbances \in Nat

VARIABLE calm      \* disturbances left

page == <<link, prefs, music, calm>>

\* What the browser stores of the volume, if anything.
Kept(copy) == IF copy[Bgm] = Unset THEN Default ELSE copy[Bgm]

PageTypeOK == LinkTypeOK /\ PrefsTypeOK

PageInit == LinkInit /\ PrefsInit /\ MusicInit /\ calm = Disturbances

Disturb == calm > 0 /\ calm' = calm - 1

\* The page takes in the account's copy: the music is told if there is one.
TakesIn ==
  /\ UserInfo
  /\ IF HasStored(Head(answers)) THEN ReadAgain(Kept(local')) ELSE UNCHANGED music

PageOpens == LinkOpen /\ Flush /\ UNCHANGED <<music, calm>>

\* user-info; without a saved login the answer to the first ping is enough.
Answered ==
  /\ LinkReady /\ UNCHANGED calm
  /\ \/ TakesIn
     \/ SessionExpired /\ UNCHANGED music
     \/ ~login /\ ~marked /\ answers = <<>> /\ UNCHANGED <<prefs, music>>

\* The socket breaks, is replaced or is given up.
Quits ==
  /\ LinkFail \/ LinkReplace \/ LinkGiveUp
  /\ up /\ Disturb /\ Lost /\ UNCHANGED music

Freely  == UNCHANGED <<link, calm>>
Limited == UNCHANGED link /\ Disturb

Saves == SaveDue(up) /\ UNCHANGED music /\ Freely

Serves ==
  /\ up /\ Freely /\ UNCHANGED music
  /\ \/ ServerSaves
     \/ login /\ ~bound /\ ServerAnswers

Account ==
  /\ Limited /\ UNCHANGED music
  /\ \/ up /\ bound /\ ServerAnswers
     \/ OtherDevice
     \/ SignIn

User ==
  /\ Limited
  /\ \/ \E f \in Fields, v \in Values :
          /\ Change(f, v, up)
          /\ IF f = Bgm THEN SetVolume(v) ELSE UNCHANGED music
     \/ (\E next \in Tracks \union {Quiet} : Show(next)) /\ UNCHANGED prefs
     \/ (\E t \in Tracks : LoadFails(t)) /\ UNCHANGED prefs

Plays == (\E t \in Tracks : Loaded(t, Kept(local))) /\ UNCHANGED prefs /\ Freely

PageNext == PageOpens \/ Answered \/ Quits \/ Saves \/ Serves \/ Account \/ User \/ Plays

PageSpec == PageInit /\ [][PageNext]_page

\* Sockets open, the debounce runs out, and the server answers.
PageFairness ==
  /\ WF_page(PageOpens) /\ WF_page(Answered) /\ WF_page(Saves) /\ WF_page(Serves)

FairPageSpec == PageSpec /\ PageFairness

---------------------------------------------------------------------------------
(* Properties.                                                             *)

\* Browser and account come to agree on everything the account has: once nobody
\* interferes any more, every change has been saved or has given way, after
\* changes on either side, outages at any moment and a takeover by another device.
EventuallyAgree ==
  <>[](login => \A f \in Fields : stored[f] \in {Unset, local[f]})

\* The music is as loud as the preferences say, also those of the account that
\* arrive while it plays or loads.
LoudAsAsked == source # Quiet => gain = Kept(local)

\* What is heard is what was asked for.
MusicAsAsked == OneLoop /\ LoudAsAsked

\* A change made while the server is out of reach is not lost (settings.ts).
OfflineChangesKept == \A f \in Fields : asked[f] # Unset => local[f] = asked[f]
=================================================================================
