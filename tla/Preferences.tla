------------------------------ MODULE Preferences -------------------------------
(***************************************************************************)
(* A player's preferences (web/lib/settings.ts): kept in the browser, and  *)
(* mirrored onto the account, whose copy wins when the player signs in.  A *)
(* change is saved after a pause in which further ones may follow.         *)
(*                                                                         *)
(* A copy of the preferences maps every field to its value, Unset if the   *)
(* copy has none.  The answers of the server that carry the account are    *)
(* copies.                                                                 *)
(***************************************************************************)
EXTENDS Naturals, Sequences

CONSTANTS
  Fields, Values,
  Expired,     \* the notice that another device took the account over
  Crossing     \* an answer of the server and a save may cross on their way

ASSUME PreferencesAssumption == Values \subseteq Nat \ {0} /\ Crossing \in BOOLEAN

VARIABLES
  local,     \* the browser's copy
  stored,    \* the account's copy
  login,     \* the page has a login to sign in with
  account,   \* settings.ts knows the signed-in account
  pending,   \* a save is due
  bound,     \* the server knows the account behind this socket
  saves,     \* on their way to the server
  answers,   \* on their way to the page
  asked      \* history: what the signed-in player chose last while offline

prefs == <<local, stored, login, account, pending, bound, saves, answers, asked>>

Unset   == 0
Nothing == [f \in Fields |-> Unset]
Copies  == [Fields -> Values \union {Unset}]

PrefsTypeOK ==
  /\ local \in Copies /\ stored \in Copies /\ asked \in Copies
  /\ login \in BOOLEAN /\ account \in BOOLEAN /\ pending \in BOOLEAN /\ bound \in BOOLEAN
  /\ saves \in Seq(Copies) /\ answers \in Seq(Copies \union {Expired})

\* The player has saved a login, and both sides may have preferences.
PrefsInit ==
  /\ local \in {Nothing} \union [Fields -> Values]
  /\ stored \in Copies
  /\ login = TRUE
  /\ account = FALSE /\ pending = FALSE /\ bound = FALSE
  /\ saves = <<>> /\ answers = <<>> /\ asked = Nothing

\* hasStoredSettings
HasStored(copy) == copy # Nothing

\* applyAccountSettings: fields the account has no value for stay.
Adopted(copy) == [f \in Fields |-> IF copy[f] = Unset THEN local[f] ELSE copy[f]]

Chosen(f, v, online) ==
  /\ v # local[f] /\ local' = [local EXCEPT ![f] = v]
  /\ asked' = [asked EXCEPT ![f] = IF account /\ ~online THEN v ELSE Unset]

\* Mutant: a setting that is written without a word to settings.ts.
ChangeSilently(f, v, online) ==
  /\ Chosen(f, v, online)
  /\ UNCHANGED <<stored, login, account, pending, bound, saves, answers>>

\* settingsChanged, after the setting was written.
Change(f, v, online) ==
  /\ Chosen(f, v, online)
  /\ pending' = TRUE
  /\ UNCHANGED <<stored, login, account, bound, saves, answers>>

\* The pause is over: send, which needs an open socket and an account.
SaveDue(open) ==
  /\ pending /\ (Crossing \/ answers = <<>>)
  /\ pending' = FALSE
  /\ saves' = IF account /\ open THEN Append(saves, local) ELSE saves
  /\ UNCHANGED <<local, stored, login, account, bound, answers, asked>>

\* setSettingsSocket: what is due goes out first on a new socket, where the
\* server does not know the account yet.
Flush ==
  /\ pending' = FALSE
  /\ saves' = IF pending /\ account THEN <<local>> ELSE <<>>
  /\ UNCHANGED <<local, stored, login, account, bound, answers, asked>>

\* The socket is gone with what was under way; saves may have arrived.
Lost ==
  /\ stored' \in {stored} \union (IF bound THEN {saves[i] : i \in DOMAIN saves} ELSE {})
  /\ bound' = FALSE /\ saves' = <<>> /\ answers' = <<>>
  /\ UNCHANGED <<local, login, account, pending, asked>>

\* user-info: the account's copy wins; without one the browser's is saved.
SignedIn(copy) ==
  /\ local' = IF HasStored(copy) THEN Adopted(copy) ELSE local
  /\ account' = TRUE /\ pending' = FALSE
  /\ saves' = saves \o (IF pending THEN <<local'>> ELSE <<>>)
                    \o (IF HasStored(copy) THEN <<>> ELSE <<local'>>)

UserInfo ==
  /\ answers # <<>> /\ Head(answers) # Expired
  /\ SignedIn(Head(answers))
  /\ answers' = Tail(answers)
  /\ UNCHANGED <<stored, login, bound, asked>>

\* session-expired, of the whole account.
SessionExpired ==
  /\ answers # <<>> /\ Head(answers) = Expired
  /\ login' = FALSE /\ account' = FALSE
  /\ answers' = Tail(answers)
  /\ UNCHANGED <<local, stored, pending, bound, saves, asked>>

SignIn ==
  /\ ~login /\ login' = TRUE
  /\ UNCHANGED <<local, stored, account, pending, bound, saves, answers, asked>>

---------------------------------------------------------------------------------
(* The server.                                                             *)

\* handleSetSettings
ServerSaves ==
  /\ saves # <<>>
  /\ stored' = IF bound THEN Head(saves) ELSE stored
  /\ saves' = Tail(saves)
  /\ UNCHANGED <<local, login, account, pending, bound, answers, asked>>

\* handleReconnectUser or handleLogin, which the page sends after its saves; and
\* later every answer that shows the wallet or the avatar carries the account.
ServerAnswers ==
  /\ saves = <<>> \/ (bound /\ Crossing)
  /\ Len(answers) = 0
  /\ bound' = TRUE /\ answers' = Append(answers, stored)
  /\ UNCHANGED <<local, stored, login, account, pending, saves, asked>>

\* Another device signs in and saves; kickClient tells this one if it is there.
OtherDevice ==
  /\ Len(answers) = 0
  /\ stored' \in Copies \ {Nothing, stored}
  /\ bound' = FALSE /\ answers' = IF bound THEN <<Expired>> ELSE <<>>
  /\ asked' = Nothing
  /\ UNCHANGED <<local, login, account, pending, saves>>
=================================================================================
