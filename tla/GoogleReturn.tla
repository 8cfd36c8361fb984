----------------------------- MODULE GoogleReturn -----------------------------
(***************************************************************************)
(* The way back from Google's consent screen to the project page the       *)
(* reader came from (google-return-context.ts, GoogleWorkspace in          *)
(* screens/GoogleWorkspace.tsx). The page keeps the place in the tab's     *)
(* storage while the browser is away at Google, and in its own state while *)
(* it is mounted. The session cookie is shared by all tabs: another tab    *)
(* may sign somebody else in, which this one learns when it next reads the *)
(* profile, with a full load of the page or without.                       *)
(***************************************************************************)
EXTENDS Naturals

CONSTANTS
  ReturnUsers, ReturnPaths,  \* accounts; project pages
  MaxAge,                    \* MAX_AGE_MS, in ticks
  MaxNow                     \* bound on the clock

ASSUME ReturnConstants == MaxAge \in Nat /\ MaxNow \in Nat

VARIABLES
  now,
  cookieUser,  \* whose session the browser's cookie names
  identity,    \* the profile the tab holds
  where,       \* "settings", "consent" (at Google), or "away" (elsewhere in the app)
  store,       \* sessionStorage: a context or none
  context,     \* returnContext, the component's state
  authorizationUrl,
  connecting,  \* the connect mutation is under way
  entered      \* history: the contexts readers started with

returnVars == <<now, cookieUser, identity, where, store, context, authorizationUrl,
                connecting, entered>>

none == [user |-> "none"]
Unexpired(c) == c # none /\ now <= c.at + MaxAge
(* Mutant: the account is not compared.                                    *)
StoredForAnyone(u) == IF Unexpired(store) THEN store ELSE none

(* getGoogleReturnContext and consumeGoogleReturnContext.                  *)
StoredFor(u) == IF Unexpired(store) /\ store.user = u THEN store ELSE none

ReturnInit ==
  /\ now = 0 /\ cookieUser \in ReturnUsers /\ identity = cookieUser
  /\ where = "away" /\ store = none /\ context = none
  /\ authorizationUrl = FALSE /\ connecting = FALSE /\ entered = {}

(* The page is mounted with nothing asked of the connection yet.           *)
MountSettings(user, s, c) ==
  /\ where' = "settings" /\ identity' = user
  /\ store' = s /\ context' = c
  /\ authorizationUrl' = FALSE /\ connecting' = FALSE

KeepPage == UNCHANGED <<where, identity, authorizationUrl, connecting>>
KeepWorld == UNCHANGED <<now, cookieUser>>
-------------------------------------------------------------------------------
Tick ==
  /\ now < MaxNow /\ now' = now + 1
  /\ KeepPage /\ UNCHANGED <<cookieUser, store, context, entered>>

OtherTabSignsIn ==
  /\ \E u \in ReturnUsers : cookieUser' = u
  /\ KeepPage /\ UNCHANGED <<now, store, context, entered>>

(* With ?returnTo=: the context is saved, for the profile the tab holds.   *)
EnterFromProject ==
  /\ where \in {"away", "settings"}
  /\ \E path \in ReturnPaths, user \in {identity, cookieUser} :
       LET c == [user |-> user, path |-> path, at |-> now]
       IN  MountSettings(user, c, c) /\ entered' = entered \cup {c}
  /\ KeepWorld

(* From the account page: there is no place to go back to.                 *)
EnterDirect ==
  /\ where \in {"away", "settings"}
  /\ \E user \in {identity, cookieUser} : MountSettings(user, none, none)
  /\ KeepWorld /\ UNCHANGED entered

(* With ?outcome=: Google sends the browser back to a page newly loaded;   *)
(* reloading that page, or going back to it, comes here again.             *)
ReturnFromConsent ==
  /\ where \in {"consent", "away", "settings"}
  /\ MountSettings(cookieUser, none, StoredFor(cookieUser))
  /\ KeepWorld /\ UNCHANGED entered

(* The profile is read again under the mounted page.                       *)
IdentityChanges ==
  /\ where = "settings" /\ identity # cookieUser
  /\ identity' = cookieUser /\ store' = none /\ context' = none
  /\ UNCHANGED <<where, authorizationUrl, connecting, entered>> /\ KeepWorld

(* The timer of the effect; a browser may run it late.                     *)
ContextExpires ==
  /\ where = "settings" /\ context # none /\ now >= context.at + MaxAge
  /\ store' = none /\ context' = none
  /\ KeepPage /\ KeepWorld /\ UNCHANGED entered

connect ==
  /\ where = "settings" /\ ~connecting
  /\ connecting' = TRUE
  /\ KeepWorld /\ UNCHANGED <<identity, where, store, context, authorizationUrl, entered>>

(* The answer's address is used when it is this application's; an error    *)
(* leaves the link there was.                                              *)
ReceiveAuthorization ==
  /\ connecting /\ connecting' = FALSE
  /\ authorizationUrl' \in {TRUE, FALSE, authorizationUrl}
  /\ KeepWorld /\ UNCHANGED <<identity, where, store, context, entered>>

disconnect ==
  /\ where = "settings"
  /\ authorizationUrl' = FALSE
  /\ KeepWorld /\ UNCHANGED <<identity, where, store, context, connecting, entered>>

(* The link to Google: preserveReturnContextForConsent, then the browser   *)
(* leaves. A link opened in another tab leaves this page where it is.      *)
OpenConsent ==
  /\ where = "settings" /\ authorizationUrl
  /\ \/ /\ context # none /\ context.user = identity /\ Unexpired(context)
        /\ store' = context /\ UNCHANGED context
     \/ /\ ~(context # none /\ context.user = identity /\ Unexpired(context))
        /\ store' = none /\ context' = none
  /\ where' \in {"consent", "settings"}
  /\ KeepWorld /\ UNCHANGED <<identity, authorizationUrl, connecting, entered>>

LeaveSettings ==
  /\ where = "settings"
  /\ where' = "away" /\ context' = none
  /\ authorizationUrl' = FALSE /\ connecting' = FALSE
  /\ KeepWorld /\ UNCHANGED <<identity, store, entered>>

(* terminateSession clears the storage, its event the state; then somebody *)
(* signs in.                                                               *)
ReturnSessionEnds ==
  /\ where # "consent"
  /\ \E u \in ReturnUsers : cookieUser' = u /\ identity' = u
  /\ where' = "away" /\ store' = none /\ context' = none
  /\ authorizationUrl' = FALSE /\ connecting' = FALSE
  /\ UNCHANGED <<now, entered>>

ReturnNext ==
  \/ Tick \/ OtherTabSignsIn \/ EnterFromProject \/ EnterDirect \/ ReturnFromConsent
  \/ IdentityChanges \/ ContextExpires \/ connect \/ ReceiveAuthorization \/ disconnect
  \/ OpenConsent \/ LeaveSettings \/ ReturnSessionEnds

ReturnSpec == ReturnInit /\ [][ReturnNext]_returnVars
-------------------------------------------------------------------------------
(* The page that offers the way back took it up for the account it shows,  *)
(* from an entry of that account no more than MaxAge ago: consent after    *)
(* consent does not prolong it, and a context left by one account is never *)
(* offered to the next, whatever the other tabs sign in.                   *)
WayBackIsOwnAndRecent ==
  [][ context' # none /\ context' # context
        => /\ context'.user = identity'
           /\ context' \in entered'
           /\ now' <= context'.at + MaxAge ]_returnVars
===============================================================================
