---------------------------- MODULE BrowserSession ----------------------------
(***************************************************************************)
(* One browser page and its session: the generation counter of session.ts, *)
(* the request pipeline of api/client.ts (headers, body and the checks     *)
(* between them, the CSRF lookup before a write), the App that owns the    *)
(* query client, the sign-in gate and the sign-out of screens/Account.tsx, *)
(* and the access denial of one key (AccessRecovery).                      *)
(*                                                                         *)
(* A request outlives the session, and even the App, that sent it: main    *)
(* mounts the App under StrictMode, which runs its initialiser twice, and  *)
(* the tests of the session boundary mount it again in the same page.      *)
(* The cookie belongs to the browser: a sign-in in another tab replaces    *)
(* the session of the server, and this page does not learn of it.          *)
(***************************************************************************)
EXTENDS AccessRecovery, FiniteSets

CONSTANTS
  HttpRequests,   \* identities of requests; one is used again once it is over
  MaxGeneration,  \* no mount after this generation
  MaxLogins,      \* bound on the sessions the server opens
  MaxDenials,     \* no request is begun once the key was denied this often
  MaxChanges      \* bound on the changes of the caller's rights

ASSUME BrowserConstants ==
  /\ IsFiniteSet(HttpRequests)
  /\ {MaxGeneration, MaxLogins, MaxDenials, MaxChanges} \subseteq Nat

VARIABLES
  generation, terminated,   \* session.ts
  expired, cleared,         \* App: the session is over; its data is removed
  me,                       \* the identity query of Auth has succeeded
  client,                   \* the query client, by the generation of its mount
  cache,                    \* it holds protected data
  access,                   \* the denial record of one key
  reqs,                     \* HttpRequests -> request
  opened, signedIn,         \* server: sessions opened; the last one is alive
  elsewhere,                \* history: the sessions opened in another tab
  changes,                  \* server: changes of the caller's rights
  hash, saved,              \* where the page is; ai-erp.invitation is stored
  evidence                  \* history: a read begun after the last denial succeeded

sessionVars == <<generation, terminated, expired>>
appVars == <<cleared, me, client, cache>>
accessVars == <<access, evidence>>
serverVars == <<opened, signedIn, elsewhere, changes>>
pageVars == <<hash, saved>>
bsVars == <<sessionVars, appVars, accessVars, reqs, serverVars, pageVars>>

(* A request: "csrf" and "sent" wait for the server, "token" and "answer"  *)
(* for the page to see the headers, "body" for the rest of the answer and  *)
(* "callback" for what a callback awaits before it goes on. began is the   *)
(* session the browser held when the user acted, cookie the one the        *)
(* request is sent with, token the one its CSRF token belongs to, 0 if it  *)
(* is nobody's; fresh says that the key was not denied since it began,     *)
(* kept that its query was not removed.                                    *)
Phases == {"idle", "csrf", "token", "sent", "answer", "body", "callback"}
Kinds == {"me", "read", "write", "logout"}
Answers == {"none", "ok", "401", "403", "lost"}
Request ==
  [phase : Phases, kind : Kinds, gen : Nat, client : Nat, revision : Nat,
   answer : Answers, began : Nat, cookie : Nat, token : Nat,
   fresh : BOOLEAN, kept : BOOLEAN]

Idle == [phase |-> "idle", kind |-> "me", gen |-> 0, client |-> 0, revision |-> 0,
         answer |-> "none", began |-> 0, cookie |-> 0, token |-> 0,
         fresh |-> FALSE, kept |-> FALSE]

granted == changes % 2 = 0
isSessionActive(g) == ~terminated /\ g = generation

BSInit ==
  /\ generation = 1 /\ terminated = FALSE /\ expired = FALSE
  /\ cleared = FALSE /\ me = FALSE /\ client = 1 /\ cache = FALSE
  /\ access = resetAccessState /\ evidence = FALSE
  /\ reqs = [r \in HttpRequests |-> Idle]
  /\ opened = 1 /\ signedIn \in BOOLEAN /\ elsewhere = {} /\ changes = 0
  /\ hash \in {"home", "invite"} /\ saved = FALSE

-------------------------------------------------------------------------------
(* beginSessionBoundary and resetAccessState, in the initialiser of App.   *)
MountApp ==
  /\ generation < MaxGeneration
  /\ generation' = generation + 1 /\ terminated' = FALSE /\ expired' = FALSE
  /\ cleared' = FALSE /\ me' = FALSE /\ client' = generation + 1 /\ cache' = FALSE
  /\ access' = resetAccessState /\ evidence' = FALSE

(* Mutant: whatever request meets a 401 ends the session there is.         *)
terminateAnySession(expected) ==
  IF terminated
    THEN UNCHANGED sessionVars
    ELSE /\ terminated' = TRUE
         /\ generation' = generation + 1
         /\ expired' = TRUE

(* terminateSession, and App's listener of the event it dispatches.        *)
terminateSession(expected) ==
  IF expected # generation \/ terminated
    THEN UNCHANGED sessionVars
    ELSE /\ terminated' = TRUE
         /\ generation' = generation + 1
         /\ expired' = TRUE

(* The App is mounted again in the same page.                              *)
Remount == MountApp /\ UNCHANGED <<reqs, serverVars, pageVars>>

(* The sign-in link of Auth remembers an invitation; the server opens a    *)
(* session and sends the browser to the home page.                         *)
SignIn ==
  /\ expired /\ opened < MaxLogins
  /\ opened' = opened + 1 /\ signedIn' = TRUE
  /\ saved' = (saved \/ hash = "invite")
  /\ hash' = "home"
  /\ MountApp
  /\ UNCHANGED <<reqs, elsewhere, changes>>

(* Somebody signs in in another tab of the browser: the cookie is of the   *)
(* new session, and this page goes on as it is.                            *)
SignInElsewhere ==
  /\ opened < MaxLogins
  /\ opened' = opened + 1 /\ signedIn' = TRUE
  /\ elsewhere' = elsewhere \cup {opened + 1}
  /\ UNCHANGED <<sessionVars, appVars, accessVars, reqs, changes, pageVars>>

(* The effect of App on expired: what the session read is removed, and a   *)
(* query that is still being read no longer stores its answer.             *)
clearProtectedQueryData ==
  /\ expired /\ ~cleared
  /\ cleared' = TRUE /\ cache' = FALSE /\ me' = FALSE
  /\ reqs' = [r \in HttpRequests |->
                IF reqs[r].client = client THEN [reqs[r] EXCEPT !.kept = FALSE]
                                           ELSE reqs[r]]
  /\ UNCHANGED <<sessionVars, client, accessVars, serverVars, pageVars>>

(* The effect of Auth once the identity is known: an invitation stored     *)
(* before the sign-in opens, unless the page is somewhere already.         *)
ContinueInvitation ==
  /\ me /\ ~expired /\ saved
  /\ hash' = IF hash = "home" THEN "invite" ELSE hash
  /\ saved' = FALSE
  /\ UNCHANGED <<sessionVars, appVars, accessVars, reqs, serverVars>>

Navigate ==
  /\ me /\ ~expired
  /\ hash' \in {"home", "invite"} \ {hash}
  /\ UNCHANGED <<sessionVars, appVars, accessVars, reqs, serverVars, saved>>

-------------------------------------------------------------------------------
Send(r, kind, phase) ==
  reqs' = [reqs EXCEPT ![r] =
             [phase |-> phase, kind |-> kind, gen |-> generation, client |-> client,
              revision |-> IF kind = "read" THEN beginAccessRead(access) ELSE 0,
              answer |-> "none", began |-> opened, cookie |-> opened, token |-> 0,
              fresh |-> kind = "read", kept |-> kind \in {"me", "read"}]]

(* Auth reads who is signed in; its children are shown afterwards.         *)
ReadMe(r) ==
  /\ reqs[r].phase = "idle" /\ ~me /\ ~expired
  /\ \A o \in HttpRequests : ~(reqs[o].kind = "me" /\ reqs[o].phase # "idle" /\ reqs[o].client = client)
  /\ Send(r, "me", "sent")
  /\ UNCHANGED <<sessionVars, appVars, accessVars, serverVars, pageVars>>

(* A screen reads what the key protects.                                   *)
read(r) ==
  /\ reqs[r].phase = "idle" /\ me /\ ~expired /\ access.version < MaxDenials
  /\ Send(r, "read", "sent")
  /\ UNCHANGED <<sessionVars, appVars, accessVars, serverVars, pageVars>>

(* onMutate of signing out stores the invitation the page is at.           *)
rememberInvitation(kind) == saved \/ (kind = "logout" /\ hash = "invite")

(* A mutation, first its CSRF lookup.                                      *)
mutate(r, kind) ==
  /\ reqs[r].phase = "idle" /\ me /\ ~expired /\ access.version < MaxDenials
  /\ Send(r, kind, "csrf")
  /\ saved' = rememberInvitation(kind)
  /\ UNCHANGED <<sessionVars, appVars, accessVars, serverVars, hash>>

-------------------------------------------------------------------------------
(* The server answers under the session of the cookie. Anybody may look a  *)
(* token up; it is good for the session that made it and for no other, so  *)
(* that a write over a change of sessions is refused.                      *)
alive(q) == signedIn /\ q.cookie = opened
tokenIsGood(q) == q.cookie = opened /\ q.token = IF signedIn THEN opened ELSE 0

answerOf(q) ==
  IF q.kind \in {"write", "logout"} /\ ~tokenIsGood(q) THEN "403"
  ELSE IF ~alive(q) THEN "401"
  ELSE IF q.kind \in {"read", "write"} /\ ~granted THEN "403"
  ELSE "ok"

ServeToken(r) ==
  /\ reqs[r].phase = "csrf"
  /\ LET token == IF alive(reqs[r]) THEN opened ELSE 0
     IN reqs' = [reqs EXCEPT ![r] = [@ EXCEPT !.phase = "token", !.answer = "ok", !.token = token]]
  /\ UNCHANGED <<sessionVars, appVars, accessVars, serverVars, pageVars>>

Serve(r) ==
  /\ reqs[r].phase = "sent"
  /\ LET answer == answerOf(reqs[r])
     IN /\ reqs' = [reqs EXCEPT ![r] = [@ EXCEPT !.phase = "answer", !.answer = answer, !.token = 0]]
        /\ signedIn' = (signedIn /\ ~(reqs[r].kind = "logout" /\ answer = "ok"))
  /\ UNCHANGED <<sessionVars, appVars, accessVars, opened, elsewhere, changes, pageVars>>

Lose(r) ==
  /\ \/ reqs[r].phase \in {"csrf", "token", "sent", "answer"}
     \/ reqs[r].phase = "body" /\ reqs[r].answer = "ok"
  /\ reqs' = [reqs EXCEPT ![r] = Idle]
  /\ UNCHANGED <<sessionVars, appVars, accessVars, serverVars, pageVars>>

ServerForgets ==
  /\ signedIn /\ signedIn' = FALSE
  /\ UNCHANGED <<sessionVars, appVars, accessVars, reqs, opened, elsewhere, changes, pageVars>>

ChangeRights ==
  /\ changes < MaxChanges /\ changes' = changes + 1
  /\ UNCHANGED <<sessionVars, appVars, accessVars, reqs, opened, signedIn, elsewhere, pageVars>>

-------------------------------------------------------------------------------
(* parse, before the body: a 401 ends the session of the request, and only *)
(* that one; the answer of an ended session is not read.                   *)
(* Mutant: the session is not checked again once the token is there.       *)
OnlyRefusalStops(r) == reqs[r].answer = "401"

HeadersStop(r) == reqs[r].answer = "401" \/ ~isSessionActive(reqs[r].gen)

ParseHeaders(r) ==
  IF reqs[r].answer = "401" THEN terminateSession(reqs[r].gen) ELSE UNCHANGED sessionVars

(* The CSRF token: its answer is parsed as any other, and the session is   *)
(* checked again before the write is sent.                                 *)
ReceiveToken(r) ==
  /\ reqs[r].phase = "token"
  /\ ParseHeaders(r)
  /\ reqs' = [reqs EXCEPT ![r] = IF HeadersStop(r) THEN Idle
                                 ELSE [@ EXCEPT !.phase = "sent", !.answer = "none", !.cookie = opened]]
  /\ UNCHANGED <<appVars, accessVars, serverVars, pageVars>>

(* The headers of a read or a write. Signing out ends its own session here *)
(* and is the one answer an ended session may still take.                  *)
ReceiveHeaders(r) ==
  /\ reqs[r].phase = "answer"
  /\ LET ownLogout == reqs[r].kind = "logout" /\ reqs[r].answer = "ok" /\ isSessionActive(reqs[r].gen)
     IN IF ownLogout
          THEN /\ terminateSession(reqs[r].gen)
               /\ reqs' = [reqs EXCEPT ![r] = Idle]
          ELSE /\ ParseHeaders(r)
               /\ reqs' = [reqs EXCEPT ![r] = IF HeadersStop(r) THEN Idle
                                              ELSE [@ EXCEPT !.phase = "body"]]
  /\ UNCHANGED <<appVars, accessVars, serverVars, pageVars>>

(* What the end of a request does to the denial record; a denial makes     *)
(* every read that is under way one that began before it.                  *)
SettleAccess(a, told) ==
  /\ access' = a
  /\ evidence' = IF a.version # access.version THEN FALSE ELSE evidence \/ told

Aged(f, a) ==
  IF a.version = access.version THEN f
  ELSE [r \in HttpRequests |-> [f[r] EXCEPT !.fresh = FALSE]]

(* The body of an answer whose session is gone is thrown away.             *)
bodyOf(r) == isSessionActive(reqs[r].gen)

(* accessRead completes; the query keeps the value unless it was removed.  *)
ReceiveRead(r) ==
  /\ reqs[r].phase = "body" /\ reqs[r].kind = "read"
  /\ LET a == IF bodyOf(r) THEN accessRead(access, reqs[r].revision, reqs[r].answer) ELSE access
     IN /\ SettleAccess(a, bodyOf(r) /\ reqs[r].answer = "ok" /\ reqs[r].fresh)
        /\ reqs' = Aged([reqs EXCEPT ![r] = Idle], a)
  /\ cache' = (cache \/ (bodyOf(r) /\ reqs[r].answer = "ok" /\ reqs[r].kept /\ reqs[r].client = client))
  /\ UNCHANGED <<sessionVars, cleared, me, client, serverVars, pageVars>>

ReceiveMe(r) ==
  /\ reqs[r].phase = "body" /\ reqs[r].kind = "me"
  /\ reqs' = [reqs EXCEPT ![r] = Idle]
  /\ me' = (me \/ (bodyOf(r) /\ reqs[r].kept /\ reqs[r].client = client))
  /\ UNCHANGED <<sessionVars, cleared, client, cache, accessVars, serverVars, pageVars>>

(* onError of a mutation records the refusal; onSuccess first waits for    *)
(* the queries it cancels or refreshes.                                    *)
ReceiveWrite(r) ==
  /\ reqs[r].phase = "body" /\ reqs[r].kind \in {"write", "logout"}
  /\ LET active == bodyOf(r)
         refused == active /\ reqs[r].answer = "403" /\ reqs[r].kind = "write"
         a == IF refused THEN recordAccessDenial(access) ELSE access
         wait == active /\ reqs[r].answer = "ok" /\ reqs[r].kind = "write"
     IN /\ SettleAccess(a, FALSE)
        /\ reqs' = Aged([reqs EXCEPT ![r] = IF wait THEN [@ EXCEPT !.phase = "callback"] ELSE Idle], a)
  /\ UNCHANGED <<sessionVars, appVars, serverVars, pageVars>>

(* Mutant: onSuccess does not check the session it waited through.         *)
storesAnyway(r) == reqs[r].client = client

mayStore(r) == isSessionActive(reqs[r].gen) /\ reqs[r].client = client

(* The rest of onSuccess stores the value, if the session is still its own. *)
FinishWrite(r) ==
  /\ reqs[r].phase = "callback"
  /\ reqs' = [reqs EXCEPT ![r] = Idle]
  /\ cache' = (cache \/ mayStore(r))
  /\ UNCHANGED <<sessionVars, cleared, me, client, accessVars, serverVars, pageVars>>

(* The effect of a screen: a denial ends with the first read that began    *)
(* after it and succeeded.                                                 *)
ClearDenial ==
  /\ ~expired /\ accessReadCanClear(access)
  /\ access' = clearAccessDenial(access)
  /\ UNCHANGED <<sessionVars, appVars, evidence, reqs, serverVars, pageVars>>

-------------------------------------------------------------------------------
ReceiveAny(r) ==
  \/ ReceiveToken(r) \/ ReceiveHeaders(r)
  \/ ReceiveRead(r) \/ ReceiveMe(r) \/ ReceiveWrite(r) \/ FinishWrite(r)

BeginRequest(r) == ReadMe(r) \/ read(r) \/ mutate(r, "write") \/ mutate(r, "logout")

BSNext ==
  \/ Remount \/ SignIn \/ SignInElsewhere \/ clearProtectedQueryData \/ ContinueInvitation \/ Navigate
  \/ ClearDenial \/ ServerForgets \/ ChangeRights
  \/ \E r \in HttpRequests : 
       BeginRequest(r) \/ ServeToken(r) \/ Serve(r) \/ Lose(r) \/ ReceiveAny(r)

BSSpec == BSInit /\ [][BSNext]_bsVars
-------------------------------------------------------------------------------
BSTypeOK ==
  /\ {generation, client, opened, changes} \cup elsewhere \subseteq Nat
  /\ {terminated, expired, cleared, me, cache, signedIn, saved, evidence} \subseteq BOOLEAN
  /\ access \in Access
  /\ reqs \in [HttpRequests -> Request]
  /\ hash \in {"home", "invite"}

(* A write, signing out included, is sent with the cookie of the session   *)
(* the browser held when its user acted, although the CSRF lookup may be   *)
(* answered before, and the write sent after, that session ended: over a   *)
(* sign-in of this page it is not sent at all (mutate), and over one in    *)
(* another tab, which this page cannot see, the server refuses it, because *)
(* its token is of the session before.                                     *)
WriteKeepsItsSession ==
  \A r \in HttpRequests :
    reqs[r].kind \in {"write", "logout"} /\ reqs[r].phase \in {"sent", "answer", "body", "callback"}
      => /\ \A s \in 1..opened : reqs[r].began < s /\ s <= reqs[r].cookie => s \in elsewhere
         /\ reqs[r].answer = "ok" => reqs[r].cookie = reqs[r].began

(* Once the data of an ended session is removed nothing brings it back: no *)
(* late answer, and no callback that was waiting when the session ended.   *)
EndedSessionStaysEmpty == cleared => ~cache /\ ~me

(* A session ends by the answer to one of its own requests, never by the   *)
(* late 401 of a session before it.                                        *)
OnlyItsOwnAnswerEndsASession ==
  [][ ~terminated /\ terminated' =>
        \E r \in HttpRequests : reqs[r].gen = generation /\ reqs[r].phase # "idle" /\ reqs'[r] = Idle ]_bsVars

(* A denial is recorded for an answer to the session of the page, never    *)
(* for the late refusal of a session this page had before.                 *)
DenialIsOfThisSession ==
  [][ access'.version > access.version =>
        \E r \in HttpRequests : reqs[r].gen = generation /\ reqs[r].phase = "body" /\ reqs'[r] = Idle ]_bsVars

(* While the App stays mounted a denied screen is shown again only when a  *)
(* read that began after the denial has succeeded: one that was under way  *)
(* proves nothing. A new mount starts with no denials (resetAccessState).  *)
DenialOutlivesOlderReads ==
  [][ access.denied /\ ~access'.denied /\ client' = client => evidence ]_bsVars
===============================================================================
