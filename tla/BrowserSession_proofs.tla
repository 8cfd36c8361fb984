------------------------- MODULE BrowserSession_proofs -------------------------
(***************************************************************************)
(* Proofs about the pages of the application.  The generation of a session *)
(* keeps sessions apart, for any number of requests, mounts, logins and    *)
(* denials; so do the ways back from Google, the mail page and the direct  *)
(* edits of the calendar with what belongs to another account, an earlier  *)
(* mail or an answer that never came.                                      *)
(***************************************************************************)
EXTENDS BrowserSession, ScheduleDirectEdit, GoogleReturn, MailCompose, TLAPS

InFlight(r) == reqs[r].phase # "idle"

(***************************************************************************)
(* Sessions.  The App shows the end of the session exactly while its       *)
(* generation is terminated; no request is of a later generation, and one  *)
(* of the current generation acts in a session that is not terminated here *)
(* and is followed at the server by none but those of another tab.         *)
(***************************************************************************)
EndIsShown == expired = terminated

OnlyEndedIsCleared == cleared => expired

ClientIsMounted == client <= generation

OnlyElsewhere(from, to) == \A s \in Nat : from < s /\ s <= to => s \in elsewhere

RequestsOfSessions ==
  \A r \in HttpRequests : InFlight(r) =>
    /\ reqs[r].gen <= generation
    /\ reqs[r].gen = generation => ~terminated /\ OnlyElsewhere(reqs[r].began, opened)

SessionInv == EndIsShown /\ OnlyEndedIsCleared /\ ClientIsMounted /\ RequestsOfSessions

(***************************************************************************)
(* Writes, signing out included. Until its token is there a write has the  *)
(* cookie it began with; the token is of the session it began in, or of    *)
(* none; and once it may be sent, between the session it began in and that *)
(* of its cookie there are only sessions opened in another tab.            *)
(***************************************************************************)
WritesOfSessions ==
  /\ opened # 0
  /\ \A r \in HttpRequests : InFlight(r) /\ reqs[r].kind \in {"write", "logout"} =>
       /\ reqs[r].cookie <= opened
       /\ reqs[r].phase = "csrf" => reqs[r].cookie = reqs[r].began
       /\ reqs[r].phase \in {"token", "sent"} => reqs[r].token \in {0, reqs[r].began}
       /\ reqs[r].phase \in {"sent", "answer", "body", "callback"} =>
            /\ OnlyElsewhere(reqs[r].began, reqs[r].cookie)
            /\ reqs[r].answer = "ok" => reqs[r].cookie = reqs[r].began

(***************************************************************************)
(* Denials.  A read of the current generation that began at the current    *)
(* version began after the last denial, so that a completion recorded at   *)
(* that version is evidence.                                               *)
(***************************************************************************)
ReadsAreOfVersions ==
  \A r \in HttpRequests : InFlight(r) /\ reqs[r].kind = "read" /\ reqs[r].gen = generation =>
    /\ reqs[r].revision <= access.version
    /\ reqs[r].revision = access.version => reqs[r].fresh

CompletionIsEvidence ==
  /\ access.read <= access.version
  /\ access.read = access.version => evidence

DenialInv == ReadsAreOfVersions /\ CompletionIsEvidence

-------------------------------------------------------------------------------
(* Type correctness: every request keeps its shape through the pipeline.   *)
LEMMA IdleIsRequest == Idle \in Request
BY DEF Idle, Request, Phases, Kinds, Answers

LEMMA AccessOperators ==
  ASSUME NEW a \in Access, NEW revision \in Nat, NEW answer \in Answers
  PROVE  /\ resetAccessState \in Access
         /\ recordAccessDenial(a) \in Access
         /\ clearAccessDenial(a) \in Access
         /\ accessRead(a, revision, answer) \in Access
         /\ beginAccessRead(a) \in Nat
<1>1. a.denied \in BOOLEAN /\ a.version \in Nat /\ a.read \in Nat \cup {NoRevision}
      /\ a = [denied |-> a.denied, version |-> a.version, read |-> a.read]
  BY DEF Access
<1>2. resetAccessState \in Access
  BY DEF resetAccessState, Access
<1>4. recordAccessDenial(a) \in Access
  <2>1. a.version + 1 \in Nat
    BY <1>1
  <2>2. \A n \in Nat : [a EXCEPT !.denied = TRUE, !.version = n] \in Access
    BY DEF Access
  <2>3. recordAccessDenial(a) = [a EXCEPT !.denied = TRUE, !.version = a.version + 1]
    BY DEF recordAccessDenial
  <2> QED
    BY <2>1, <2>2, <2>3
<1>5. clearAccessDenial(a) \in Access
  <2>1. CASE a.denied
    <3>1. clearAccessDenial(a) = [denied |-> FALSE, version |-> a.version, read |-> NoRevision]
      BY <1>1, <2>1 DEF clearAccessDenial
    <3> QED
      BY <1>1, <3>1 DEF Access
  <2> QED
    BY <2>1 DEF clearAccessDenial
<1>6. completeAccessRead(a, revision) \in Access
  <2>1. [denied |-> a.denied, version |-> a.version, read |-> revision] \in Access
    BY <1>1 DEF Access
  <2>2. [a EXCEPT !.read = revision] = [denied |-> a.denied, version |-> a.version, read |-> revision]
    BY <1>1
  <2> QED
    BY <2>1, <2>2 DEF completeAccessRead
<1>7. accessRead(a, revision, answer) \in Access
  <2>1. accessRead(a, revision, answer)
          \in {completeAccessRead(a, revision), recordAccessDenial(a), a}
    BY DEF accessRead
  <2> QED
    BY <1>4, <1>6, <2>1
<1> QED
  BY <1>1, <1>2, <1>4, <1>5, <1>7 DEF beginAccessRead

LEMMA AgedIsTyped ==
  ASSUME NEW f \in [HttpRequests -> Request], NEW a \in Access
  PROVE  Aged(f, a) \in [HttpRequests -> Request]
BY DEF Aged, Request

LEMMA SendIsTyped ==
  ASSUME BSTypeOK, NEW r \in HttpRequests, NEW kind \in Kinds, NEW phase \in Phases,
         Send(r, kind, phase)
  PROVE  reqs' \in [HttpRequests -> Request]
<1> DEFINE revision == IF kind = "read" THEN beginAccessRead(access) ELSE 0
           fresh == kind = "read"
           kept == kind \in {"me", "read"}
<1>1. revision \in Nat
  BY DEF BSTypeOK, beginAccessRead, Access
<1>2. fresh \in BOOLEAN /\ kept \in BOOLEAN
  OBVIOUS
<1>3. generation \in Nat /\ client \in Nat /\ opened \in Nat /\ reqs \in [HttpRequests -> Request]
  BY DEF BSTypeOK
<1>4. reqs' = [reqs EXCEPT ![r] =
                [phase |-> phase, kind |-> kind, gen |-> generation, client |-> client,
                 revision |-> revision, answer |-> "none", began |-> opened, cookie |-> opened,
                 token |-> 0, fresh |-> fresh, kept |-> kept]]
  BY DEF Send
<1> HIDE DEF revision, fresh, kept
<1> QED
  BY <1>1, <1>2, <1>3, <1>4 DEF Request, Answers

LEMMA MountIsTyped ==
  ASSUME BSTypeOK, MountApp
  PROVE  /\ {generation', client'} \subseteq Nat
         /\ {terminated', expired', cleared', me', cache', evidence'} \subseteq BOOLEAN
         /\ access' \in Access
<1>1. {generation', client'} \subseteq Nat
  BY DEF BSTypeOK, MountApp
<1>2. {terminated', expired', cleared', me', cache', evidence'} \subseteq BOOLEAN
  BY Zenon DEF MountApp
<1>3. access' \in Access
  BY DEF MountApp, resetAccessState, Access
<1> QED
  BY <1>1, <1>2, <1>3

LEMMA SessionIsTyped ==
  ASSUME BSTypeOK, NEW expected \in Nat,
         terminateSession(expected) \/ UNCHANGED sessionVars
  PROVE  generation' \in Nat /\ {terminated', expired'} \subseteq BOOLEAN
<1>1. CASE UNCHANGED sessionVars
  BY <1>1 DEF BSTypeOK, sessionVars
<1>2. CASE terminated' = TRUE /\ generation' = generation + 1 /\ expired' = TRUE
  <2>1. generation' \in Nat
    BY <1>2 DEF BSTypeOK
  <2>2. {terminated', expired'} \subseteq BOOLEAN
    BY <1>2, Zenon
  <2> QED
    BY <2>1, <2>2
<1> QED
  BY <1>1, <1>2 DEF terminateSession

LEMMA TypeStep == BSTypeOK /\ [BSNext]_bsVars => BSTypeOK'
<1> SUFFICES ASSUME BSTypeOK, [BSNext]_bsVars
             PROVE  BSTypeOK'
  OBVIOUS
<1> USE BSTypeOK DEF BSTypeOK
<1>1. CASE Remount
  BY <1>1, MountIsTyped DEF Remount, serverVars, pageVars
<1>2. CASE SignIn
  BY <1>2, MountIsTyped DEF SignIn
<1>19. CASE SignInElsewhere
  BY <1>19 DEF SignInElsewhere, sessionVars, appVars, accessVars, pageVars
<1>20. ASSUME NEW r \in HttpRequests, ServeToken(r)
       PROVE  BSTypeOK'
  <2>1. PICK n \in Nat :
          reqs' = [reqs EXCEPT ![r] = [reqs[r] EXCEPT !.phase = "token", !.answer = "ok", !.token = n]]
    BY <1>20 DEF ServeToken
  <2>2. [reqs[r] EXCEPT !.phase = "token", !.answer = "ok", !.token = n] \in Request
    BY DEF Request, Phases, Answers
  <2>3. reqs' \in [HttpRequests -> Request]
    BY <2>1, <2>2
  <2> QED
    BY <1>20, <2>3 DEF ServeToken, sessionVars, appVars, accessVars, serverVars, pageVars
<1>3. CASE clearProtectedQueryData
  <2>2. \A r \in HttpRequests : [reqs[r] EXCEPT !.kept = FALSE] \in Request
    BY DEF Request
  <2>1. reqs' \in [HttpRequests -> Request]
    BY <1>3, <2>2 DEF clearProtectedQueryData
  <2> QED
    BY <1>3, <2>1 DEF clearProtectedQueryData, sessionVars, accessVars, serverVars, pageVars
<1>4. CASE ContinueInvitation
  BY <1>4 DEF ContinueInvitation, sessionVars, appVars, accessVars, serverVars
<1>5. CASE Navigate
  BY <1>5 DEF Navigate, sessionVars, appVars, accessVars, serverVars
<1>6. CASE ClearDenial
  <2>1. access' \in Access
    BY <1>6, AccessOperators DEF ClearDenial, clearAccessDenial, Access, NoRevision
  <2> QED
    BY <1>6, <2>1 DEF ClearDenial, sessionVars, appVars, serverVars, pageVars
<1>7. CASE ServerForgets
  BY <1>7 DEF ServerForgets, sessionVars, appVars, accessVars, pageVars
<1>8. CASE ChangeRights
  BY <1>8 DEF ChangeRights, sessionVars, appVars, accessVars, pageVars
<1>9. ASSUME NEW r \in HttpRequests, BeginRequest(r)
      PROVE  BSTypeOK'
  <2>1. \E kind \in Kinds, phase \in Phases : Send(r, kind, phase)
    BY <1>9 DEF BeginRequest, ReadMe, read, mutate, Kinds, Phases
  <2>2. reqs' \in [HttpRequests -> Request]
    BY <2>1, SendIsTyped
  <2> QED
    BY <1>9, <2>2 DEF BeginRequest, ReadMe, read, mutate, rememberInvitation, sessionVars,
                      appVars, accessVars, serverVars, pageVars
<1>10. ASSUME NEW r \in HttpRequests, Serve(r)
       PROVE  BSTypeOK'
  <2> DEFINE q == [reqs[r] EXCEPT !.phase = "answer", !.answer = answerOf(reqs[r]), !.token = 0]
  <2>1. answerOf(reqs[r]) \in Answers
    BY DEF answerOf, Answers
  <2>3. reqs' = [reqs EXCEPT ![r] = q]
    BY <1>10 DEF Serve
  <2>4. q \in Request
    BY <2>1 DEF Request, Phases
  <2>5. reqs' \in [HttpRequests -> Request]
    BY <2>3, <2>4
  <2>6. {signedIn'} \subseteq BOOLEAN
    BY <1>10 DEF Serve
  <2> HIDE DEF q
  <2> QED
    BY <1>10, <2>5, <2>6 DEF Serve, sessionVars, appVars, accessVars, pageVars
<1>11. ASSUME NEW r \in HttpRequests, Lose(r)
       PROVE  BSTypeOK'
  BY <1>11, IdleIsRequest DEF Lose, sessionVars, appVars, accessVars, serverVars, pageVars
<1>12. ASSUME NEW r \in HttpRequests, ReceiveToken(r)
       PROVE  BSTypeOK'
  <2>4. [reqs[r] EXCEPT !.phase = "sent", !.answer = "none", !.cookie = opened] \in Request
    BY DEF Request, Phases, Answers
  <2>1. reqs' \in [HttpRequests -> Request]
    BY <1>12, <2>4, IdleIsRequest DEF ReceiveToken
  <2>2. reqs[r].gen \in Nat
    BY DEF Request
  <2>3. generation' \in Nat /\ {terminated', expired'} \subseteq BOOLEAN
    BY <1>12, <2>2, SessionIsTyped DEF ReceiveToken, ParseHeaders
  <2> QED
    BY <1>12, <2>1, <2>3 DEF ReceiveToken, appVars, accessVars, serverVars, pageVars
<1>13. ASSUME NEW r \in HttpRequests, ReceiveHeaders(r)
       PROVE  BSTypeOK'
  <2>1. reqs' \in [HttpRequests -> Request]
    BY <1>13, IdleIsRequest DEF ReceiveHeaders, Request, Phases
  <2>2. reqs[r].gen \in Nat
    BY DEF Request
  <2>3. generation' \in Nat /\ {terminated', expired'} \subseteq BOOLEAN
    BY <1>13, <2>2, SessionIsTyped DEF ReceiveHeaders, ParseHeaders
  <2> QED
    BY <1>13, <2>1, <2>3 DEF ReceiveHeaders, appVars, accessVars, serverVars, pageVars
<1>14. ASSUME NEW r \in HttpRequests, ReceiveRead(r)
       PROVE  BSTypeOK'
  <2> DEFINE a == IF bodyOf(r) THEN accessRead(access, reqs[r].revision, reqs[r].answer)
                  ELSE access
  <2>1. reqs[r].revision \in Nat /\ reqs[r].answer \in Answers
    BY DEF Request
  <2>2. a \in Access
    BY <2>1, AccessOperators
  <2>3. Aged([reqs EXCEPT ![r] = Idle], a) \in [HttpRequests -> Request]
    BY <2>2, IdleIsRequest, AgedIsTyped
  <2>4. access' = a /\ reqs' = Aged([reqs EXCEPT ![r] = Idle], a) /\ evidence' \in BOOLEAN
    BY <1>14 DEF ReceiveRead, SettleAccess, bodyOf, isSessionActive, Request
  <2> HIDE DEF a
  <2> QED
    BY <1>14, <2>2, <2>3, <2>4 DEF ReceiveRead, sessionVars, serverVars, pageVars
<1>15. ASSUME NEW r \in HttpRequests, ReceiveMe(r)
       PROVE  BSTypeOK'
  BY <1>15, IdleIsRequest DEF ReceiveMe, sessionVars, accessVars, serverVars, pageVars
<1>16. ASSUME NEW r \in HttpRequests, ReceiveWrite(r)
       PROVE  BSTypeOK'
  <2> DEFINE a == IF bodyOf(r) /\ reqs[r].answer = "403" /\ reqs[r].kind = "write"
                  THEN recordAccessDenial(access) ELSE access
             q == IF bodyOf(r) /\ reqs[r].answer = "ok" /\ reqs[r].kind = "write"
                  THEN [reqs[r] EXCEPT !.phase = "callback"] ELSE Idle
  <2>1. a \in Access
    BY AccessOperators, "ok" \in Answers, 0 \in Nat DEF Answers
  <2>2. q \in Request
    BY IdleIsRequest DEF Request, Phases
  <2>3. Aged([reqs EXCEPT ![r] = q], a) \in [HttpRequests -> Request]
    BY <2>1, <2>2, AgedIsTyped
  <2>4. access' = a /\ reqs' = Aged([reqs EXCEPT ![r] = q], a) /\ evidence' \in BOOLEAN
    BY <1>16 DEF ReceiveWrite, SettleAccess
  <2> HIDE DEF a, q
  <2> QED
    BY <1>16, <2>1, <2>3, <2>4 DEF ReceiveWrite, sessionVars, appVars, serverVars, pageVars
<1>17. ASSUME NEW r \in HttpRequests, FinishWrite(r)
       PROVE  BSTypeOK'
  BY <1>17, IdleIsRequest DEF FinishWrite, sessionVars, accessVars, serverVars, pageVars
<1>18. CASE UNCHANGED bsVars
  BY <1>18 DEF bsVars, sessionVars, appVars, accessVars, serverVars, pageVars
<1> QED
  BY <1>1, <1>2, <1>3, <1>4, <1>5, <1>6, <1>7, <1>8, <1>9, <1>10, <1>11, <1>12, <1>13,
     <1>14, <1>15, <1>16, <1>17, <1>18, <1>19, <1>20 DEF BSNext, ReceiveAny

(* Types: every request keeps the shape of its phase.                      *)
THEOREM SessionTypes == BSSpec => []BSTypeOK
<1>1. BSInit => BSTypeOK
  <2> SUFFICES ASSUME BSInit PROVE BSTypeOK
    OBVIOUS
  <2>1. {terminated, expired, cleared, me, cache, signedIn, saved, evidence} \subseteq BOOLEAN
    BY Zenon DEF BSInit
  <2>2. access \in Access
    BY DEF BSInit, resetAccessState, Access
  <2>3. reqs \in [HttpRequests -> Request]
    BY IdleIsRequest DEF BSInit
  <2> QED
    BY <2>1, <2>2, <2>3 DEF BSInit, BSTypeOK
<1> QED
  BY <1>1, TypeStep, PTL DEF BSSpec

-------------------------------------------------------------------------------
(* What an action does to a request: it begins it, takes it further under  *)
(* the same generation, or ends it.                                        *)
Further(p, q) ==
  /\ p.gen = q.gen /\ p.began = q.began /\ p.client = q.client
  /\ p.revision = q.revision /\ p.kind = q.kind

(* One request, or all of them, are taken further or end.                  *)
RequestsGoOn ==
  \A r \in HttpRequests :
    reqs'[r].phase # "idle" => InFlight(r) /\ Further(reqs'[r], reqs[r])

LEMMA AgedGoesOn ==
  ASSUME BSTypeOK, NEW a \in Access, NEW r \in HttpRequests, NEW q \in Request,
         q.phase # "idle" => InFlight(r) /\ Further(q, reqs[r]),
         reqs' = Aged([reqs EXCEPT ![r] = q], a)
  PROVE  RequestsGoOn
<1> USE DEF BSTypeOK, RequestsGoOn, Further, InFlight, Request
<1>1. CASE a.version = access.version
  BY <1>1 DEF Aged
<1>2. CASE a.version # access.version
  <2> SUFFICES ASSUME NEW o \in HttpRequests, reqs'[o].phase # "idle"
               PROVE  InFlight(o) /\ Further(reqs'[o], reqs[o])
    OBVIOUS
  <2>1. reqs'[o] = [(IF o = r THEN q ELSE reqs[o]) EXCEPT !.fresh = FALSE]
    BY <1>2 DEF Aged
  <2>2. CASE o = r
    BY <2>1, <2>2
  <2>3. CASE o # r
    BY <2>1, <2>3
  <2> QED
    BY <2>2, <2>3
<1> QED
  BY <1>1, <1>2

LEMMA PipelineGoesOn ==
  ASSUME BSTypeOK, NEW r \in HttpRequests, ServeToken(r) \/ Serve(r) \/ Lose(r) \/ ReceiveAny(r)
  PROVE  RequestsGoOn
<1> USE BSTypeOK DEF RequestsGoOn, Further, InFlight
<1>1. CASE Serve(r)
  BY <1>1 DEF Serve, BSTypeOK, Request
<1>9. CASE ServeToken(r)
  BY <1>9 DEF ServeToken, BSTypeOK, Request
<1>2. CASE Lose(r)
  BY <1>2 DEF Lose, BSTypeOK, Idle
<1>3. CASE ReceiveToken(r)
  BY <1>3 DEF ReceiveToken, BSTypeOK, Idle, Request
<1>4. CASE ReceiveHeaders(r)
  BY <1>4 DEF ReceiveHeaders, BSTypeOK, Idle, Request
<1>5. CASE ReceiveRead(r)
  <2>1. reqs[r].revision \in Nat /\ reqs[r].answer \in Answers
    BY DEF BSTypeOK, Request
  <2>2. PICK a \in Access : reqs' = Aged([reqs EXCEPT ![r] = Idle], a)
    BY <1>5, <2>1, AccessOperators DEF ReceiveRead, BSTypeOK
  <2> QED
    BY <2>2, IdleIsRequest, AgedGoesOn DEF Idle
<1>6. CASE ReceiveMe(r)
  BY <1>6 DEF ReceiveMe, BSTypeOK, Idle
<1>7. CASE ReceiveWrite(r)
  <2> DEFINE q == IF bodyOf(r) /\ reqs[r].answer = "ok" /\ reqs[r].kind = "write"
                  THEN [reqs[r] EXCEPT !.phase = "callback"] ELSE Idle
  <2>1. q \in Request
    BY IdleIsRequest DEF BSTypeOK, Request, Phases
  <2>2. q.phase # "idle" => InFlight(r) /\ Further(q, reqs[r])
    BY <1>7 DEF ReceiveWrite, BSTypeOK, Request, Idle
  <2>3. recordAccessDenial(access) \in Access /\ access \in Access
    BY AccessOperators, "ok" \in Answers, 0 \in Nat DEF Answers, BSTypeOK
  <2>4. PICK a \in Access : reqs' = Aged([reqs EXCEPT ![r] = q], a)
    BY <1>7, <2>3 DEF ReceiveWrite
  <2> HIDE DEF q
  <2> QED
    BY <2>1, <2>2, <2>4, AgedGoesOn
<1>8. CASE FinishWrite(r)
  BY <1>8 DEF FinishWrite, BSTypeOK, Idle
<1> QED
  BY <1>1, <1>2, <1>3, <1>4, <1>5, <1>6, <1>7, <1>8, <1>9 DEF ReceiveAny

LEMMA EndGoesOn ==
  ASSUME BSTypeOK, clearProtectedQueryData
  PROVE  RequestsGoOn
BY DEF clearProtectedQueryData, RequestsGoOn, Further, InFlight, BSTypeOK, Request

(* No step but a mount moves the session, or the App that shows it, other  *)
(* than by ending it; the server opens no session besides.                 *)
SessionGoesOn ==
  /\ opened' = opened /\ elsewhere' = elsewhere /\ client' = client
  /\ cleared' = cleared \/ (expired /\ cleared')
  /\ \/ UNCHANGED sessionVars
     \/ ~terminated /\ terminated' = TRUE /\ generation' = generation + 1 /\ expired' = TRUE

LEMMA PipelineKeepsSession ==
  ASSUME NEW r \in HttpRequests, ServeToken(r) \/ Serve(r) \/ Lose(r) \/ ReceiveAny(r)
  PROVE  SessionGoesOn
<1>1. CASE ReceiveToken(r) \/ ReceiveHeaders(r)
  <2>1. \/ UNCHANGED sessionVars
        \/ ~terminated /\ terminated' = TRUE /\ generation' = generation + 1 /\ expired' = TRUE
    BY <1>1 DEF ReceiveToken, ReceiveHeaders, ParseHeaders, terminateSession
  <2>2. cleared' = cleared /\ client' = client /\ opened' = opened /\ elsewhere' = elsewhere
    BY <1>1 DEF ReceiveToken, ReceiveHeaders, appVars, serverVars
  <2> QED
    BY <2>1, <2>2, Zenon DEF SessionGoesOn
<1>2. CASE ~(ReceiveToken(r) \/ ReceiveHeaders(r))
  <2>1. /\ UNCHANGED sessionVars /\ cleared' = cleared /\ client' = client
        /\ opened' = opened /\ elsewhere' = elsewhere
    BY <1>2 DEF ServeToken, Serve, Lose, ReceiveAny, ReceiveRead, ReceiveMe, ReceiveWrite, FinishWrite,
                appVars, serverVars
  <2> QED
    BY <2>1, Zenon DEF SessionGoesOn
<1> QED
  BY <1>1, <1>2

(* Sessions: requests of the current generation act in the current session.*)
LEMMA SessionStep == BSTypeOK /\ SessionInv /\ [BSNext]_bsVars => SessionInv'
<1> SUFFICES ASSUME BSTypeOK, SessionInv, [BSNext]_bsVars
             PROVE  SessionInv'
  OBVIOUS
<1> USE DEF SessionInv, EndIsShown, OnlyEndedIsCleared, ClientIsMounted, RequestsOfSessions,
            InFlight
<1>1. CASE MountApp /\ UNCHANGED reqs
  <2>1. EndIsShown' /\ OnlyEndedIsCleared'
    BY <1>1, Zenon DEF MountApp
  <2>2. generation \in Nat /\ \A r \in HttpRequests : reqs[r].gen \in Nat
    BY DEF BSTypeOK, Request
  <2>3. ClientIsMounted' /\ RequestsOfSessions'
    BY <1>1, <2>2 DEF MountApp
  <2> QED
    BY <2>1, <2>3
<1>2. CASE RequestsGoOn /\ SessionGoesOn
  <2> USE <1>2 DEF SessionGoesOn, sessionVars
  <2>1. EndIsShown' /\ OnlyEndedIsCleared'
    <3>1. CASE UNCHANGED sessionVars
      <4>1. expired' = expired /\ terminated' = terminated
        BY <3>1
      <4>2. EndIsShown'
        BY <4>1
      <4>3. CASE cleared' = cleared
        BY <4>1, <4>2, <4>3
      <4>4. CASE expired /\ cleared'
        BY <4>1, <4>2, <4>4
      <4> QED
        BY <4>3, <4>4
    <3>2. CASE expired' = TRUE /\ terminated' = TRUE
      BY <3>2, Zenon
    <3> QED
      BY <3>1, <3>2
  <2>2. ClientIsMounted'
    BY DEF BSTypeOK
  <2>3. RequestsOfSessions'
    <3> SUFFICES ASSUME NEW r \in HttpRequests, reqs'[r].phase # "idle"
                 PROVE  /\ reqs'[r].gen <= generation'
                        /\ reqs'[r].gen = generation' =>
                             ~terminated' /\ OnlyElsewhere(reqs'[r].began, opened)
      BY DEF OnlyElsewhere
    <3>1. /\ reqs[r].phase # "idle"
          /\ reqs'[r].gen = reqs[r].gen /\ reqs'[r].began = reqs[r].began
      BY DEF RequestsGoOn, Further
    <3>2. reqs[r].gen \in Nat /\ generation \in Nat
      BY DEF BSTypeOK, Request
    <3> QED
      BY <3>1, <3>2
  <2> QED
    BY <2>1, <2>2, <2>3
<1>3. ASSUME NEW r \in HttpRequests, BeginRequest(r)
      PROVE  SessionInv'
  <2>1. UNCHANGED <<sessionVars, appVars, serverVars>> /\ ~expired
    BY <1>3 DEF BeginRequest, ReadMe, read, mutate
  <2>2. \E kind \in Kinds, phase \in Phases : Send(r, kind, phase)
    BY <1>3 DEF BeginRequest, ReadMe, read, mutate, Kinds, Phases
  <2>3. \A o \in HttpRequests : IF o = r THEN reqs'[o].gen = generation /\ reqs'[o].began = opened
                                         ELSE reqs'[o] = reqs[o]
    BY <2>2 DEF Send, BSTypeOK
  <2>5. opened \in Nat => OnlyElsewhere(opened, opened)
    BY DEF OnlyElsewhere
  <2>4. RequestsOfSessions'
    BY <2>1, <2>3, <2>5 DEF sessionVars, serverVars, BSTypeOK, OnlyElsewhere
  <2> QED
    BY <2>1, <2>4 DEF sessionVars, appVars
<1>4. CASE UNCHANGED <<sessionVars, cleared, client, reqs, opened, elsewhere>>
  BY <1>4 DEF sessionVars, OnlyElsewhere
<1>5. CASE SignInElsewhere
  <2>1. /\ UNCHANGED <<generation, terminated, expired, cleared, client, reqs>>
        /\ opened' = opened + 1 /\ opened \in Nat /\ elsewhere' = elsewhere \cup {opened + 1}
    BY <1>5 DEF SignInElsewhere, sessionVars, appVars, BSTypeOK
  <2>2. ASSUME NEW from, OnlyElsewhere(from, opened)
        PROVE  \A s \in Nat : from < s /\ s <= opened' => s \in elsewhere'
    BY <2>1, <2>2 DEF OnlyElsewhere
  <2>3. RequestsOfSessions'
    <3> SUFFICES ASSUME NEW r \in HttpRequests, reqs[r].phase # "idle"
                 PROVE  /\ reqs[r].gen <= generation
                        /\ reqs[r].gen = generation =>
                             ~terminated /\ \A s \in Nat : reqs[r].began < s /\ s <= opened'
                                                            => s \in elsewhere'
      BY <2>1 DEF OnlyElsewhere
    <3> QED
      BY <2>2
  <2> QED
    BY <2>1, <2>3
<1> QED
  BY <1>1, <1>2, <1>3, <1>4, <1>5, PipelineGoesOn, PipelineKeepsSession, EndGoesOn
     DEF BSNext, Remount, SignIn, clearProtectedQueryData, ContinueInvitation, Navigate,
         ClearDenial, ServerForgets, ChangeRights, bsVars, sessionVars, appVars, serverVars,
         SessionGoesOn

LEMMA SessionInit == BSInit => SessionInv
<1> SUFFICES ASSUME BSInit PROVE SessionInv
  OBVIOUS
<1>1. EndIsShown /\ OnlyEndedIsCleared
  BY Zenon DEF BSInit, EndIsShown, OnlyEndedIsCleared
<1>2. ClientIsMounted
  BY DEF BSInit, ClientIsMounted
<1>3. RequestsOfSessions
  BY DEF BSInit, RequestsOfSessions, InFlight, Idle
<1> QED
  BY <1>1, <1>2, <1>3 DEF SessionInv

-------------------------------------------------------------------------------
(* The pipeline keeps to it: the token is of the session the write began   *)
(* in, the write is sent while its generation lasts, and it is answered    *)
(* well only with a token of the session of its cookie.                    *)
LEMMA WriteMoves ==
  ASSUME BSTypeOK, SessionInv, WritesOfSessions, NEW r \in HttpRequests,
         InFlight(r), reqs[r].kind \in {"write", "logout"},
         ServeToken(r) \/ Serve(r) \/ Lose(r) \/ ReceiveToken(r) \/ ReceiveHeaders(r),
         reqs'[r] # Idle
  PROVE  LET q == reqs'[r]
         IN  /\ q.kind = reqs[r].kind /\ q.began = reqs[r].began
             /\ q.cookie <= opened
             /\ q.phase # "csrf"
             /\ q.phase \in {"token", "sent"} => q.token \in {0, q.began}
             /\ q.phase \in {"sent", "answer", "body", "callback"} =>
                  /\ OnlyElsewhere(q.began, q.cookie)
                  /\ q.answer = "ok" => q.cookie = q.began
<1> DEFINE p == reqs[r]
<1>1. /\ p \in Request /\ reqs \in [HttpRequests -> Request] /\ opened \in Nat
      /\ p.cookie <= opened /\ p.kind \in {"write", "logout"}
      /\ p.phase = "csrf" => p.cookie = p.began
      /\ p.phase \in {"token", "sent"} => p.token \in {0, p.began}
      /\ p.phase \in {"sent", "answer", "body", "callback"} =>
           OnlyElsewhere(p.began, p.cookie) /\ (p.answer = "ok" => p.cookie = p.began)
  BY DEF BSTypeOK, WritesOfSessions
<1>2. CASE ServeToken(r)
  <2>1. PICK n \in {0, p.began} :
          reqs'[r] = [p EXCEPT !.phase = "token", !.answer = "ok", !.token = n]
    BY <1>1, <1>2 DEF ServeToken, alive
  <2> HIDE DEF p
  <2>2. QED
    BY <1>1, <2>1 DEF p, Request
<1>3. CASE Serve(r)
  <2>1. /\ p.phase = "sent"
        /\ reqs'[r] = [p EXCEPT !.phase = "answer", !.answer = answerOf(p), !.token = 0]
    BY <1>1, <1>3 DEF Serve
  <2>2. answerOf(p) = "ok" => p.cookie = p.began
    BY <1>1, <2>1 DEF answerOf, tokenIsGood, alive, WritesOfSessions
  <2> HIDE DEF p
  <2>3. QED
    BY <1>1, <2>1, <2>2 DEF p, Request
<1>4. CASE ReceiveToken(r)
  <2>1. /\ ~HeadersStop(r)
        /\ reqs'[r] = [p EXCEPT !.phase = "sent", !.answer = "none", !.cookie = opened]
    BY <1>1, <1>4 DEF ReceiveToken
  <2>2. p.phase = "token" /\ p.gen = generation
    BY <1>4, <2>1 DEF ReceiveToken, HeadersStop, isSessionActive
  <2>3. OnlyElsewhere(p.began, opened)
    BY <2>2 DEF SessionInv, RequestsOfSessions
  <2> HIDE DEF p
  <2>4. QED
    BY <1>1, <2>1, <2>2, <2>3 DEF p, Request
<1>5. CASE ReceiveHeaders(r)
  <2>1. p.phase = "answer" /\ reqs'[r] = [p EXCEPT !.phase = "body"]
    BY <1>1, <1>5 DEF ReceiveHeaders
  <2> HIDE DEF p
  <2>2. QED
    BY <1>1, <2>1 DEF p, Request
<1>6. CASE Lose(r)
  BY <1>1, <1>6 DEF Lose
<1> QED
  BY <1>2, <1>3, <1>4, <1>5, <1>6

LEMMA WritesStep ==
  BSTypeOK /\ SessionInv /\ WritesOfSessions /\ [BSNext]_bsVars => WritesOfSessions'
<1> SUFFICES ASSUME BSTypeOK, SessionInv, WritesOfSessions, [BSNext]_bsVars
             PROVE  WritesOfSessions'
  OBVIOUS
<1> DEFINE Write(q) == q.phase # "idle" /\ q.kind \in {"write", "logout"}
           Kept(q) ==
             /\ q.cookie <= opened
             /\ q.phase = "csrf" => q.cookie = q.began
             /\ q.phase \in {"token", "sent"} => q.token \in {0, q.began}
             /\ q.phase \in {"sent", "answer", "body", "callback"} =>
                  /\ OnlyElsewhere(q.began, q.cookie)
                  /\ q.answer = "ok" => q.cookie = q.began
<1>1. \A r \in HttpRequests : Write(reqs[r]) => Kept(reqs[r])
  BY DEF WritesOfSessions, InFlight
<1>2. /\ opened \in Nat /\ opened # 0
      /\ \A r \in HttpRequests : reqs[r] \in Request
      /\ reqs \in [HttpRequests -> Request]
  BY DEF BSTypeOK, WritesOfSessions
<1>3. ASSUME opened' \in {opened, opened + 1}, elsewhere \subseteq elsewhere',
             \A r \in HttpRequests : Write(reqs'[r]) => Kept(reqs'[r])
      PROVE  WritesOfSessions'
  <2>1. opened' # 0
    BY <1>2, <1>3
  <2>2. ASSUME NEW r \in HttpRequests, Write(reqs'[r])
        PROVE  /\ reqs'[r].cookie <= opened'
               /\ reqs'[r].phase = "csrf" => reqs'[r].cookie = reqs'[r].began
               /\ reqs'[r].phase \in {"token", "sent"} => reqs'[r].token \in {0, reqs'[r].began}
               /\ reqs'[r].phase \in {"sent", "answer", "body", "callback"} =>
                    /\ \A s \in Nat : reqs'[r].began < s /\ s <= reqs'[r].cookie => s \in elsewhere'
                    /\ reqs'[r].answer = "ok" => reqs'[r].cookie = reqs'[r].began
    <3>1. Kept(reqs'[r]) /\ reqs'[r].cookie \in Nat
      BY <1>3, <2>2, TypeStep DEF BSTypeOK, Request
    <3>2. reqs'[r].cookie <= opened'
      BY <1>2, <1>3, <3>1
    <3>3. OnlyElsewhere(reqs'[r].began, reqs'[r].cookie) =>
            \A s \in Nat : reqs'[r].began < s /\ s <= reqs'[r].cookie => s \in elsewhere'
      BY <1>3 DEF OnlyElsewhere
    <3> QED
      BY <3>1, <3>2, <3>3
  <2> QED
    BY <2>1, <2>2 DEF WritesOfSessions, InFlight, OnlyElsewhere
<1>4. CASE UNCHANGED reqs /\ opened' \in {opened, opened + 1} /\ elsewhere \subseteq elsewhere'
  BY <1>1, <1>3, <1>4
<1>5. ASSUME NEW r \in HttpRequests, BeginRequest(r)
      PROVE  WritesOfSessions'
  <2>1. PICK kind \in Kinds, phase \in Phases :
          Send(r, kind, phase) /\ (kind \in {"write", "logout"} => phase = "csrf")
    BY <1>5 DEF BeginRequest, ReadMe, read, mutate, Kinds, Phases
  <2>2. /\ \A o \in HttpRequests \ {r} : reqs'[o] = reqs[o]
        /\ reqs'[r].kind = kind /\ reqs'[r].phase = phase
        /\ reqs'[r].cookie = opened /\ reqs'[r].began = opened
    BY <1>2, <2>1 DEF Send
  <2>3. Write(reqs'[r]) => Kept(reqs'[r])
    BY <1>2, <2>1, <2>2
  <2>4. \A o \in HttpRequests : Write(reqs'[o]) => Kept(reqs'[o])
    BY <1>1, <2>2, <2>3
  <2>5. UNCHANGED serverVars
    BY <1>5 DEF BeginRequest, ReadMe, read, mutate
  <2> QED
    BY <1>3, <2>4, <2>5 DEF serverVars
<1>6. ASSUME NEW r \in HttpRequests,
             ServeToken(r) \/ Serve(r) \/ Lose(r) \/ ReceiveToken(r) \/ ReceiveHeaders(r)
      PROVE  WritesOfSessions'
  <2>1. \A o \in HttpRequests \ {r} : reqs'[o] = reqs[o]
    BY <1>2, <1>6 DEF ServeToken, Serve, Lose, ReceiveToken, ReceiveHeaders
  <2>2. RequestsGoOn /\ SessionGoesOn
    BY <1>6, PipelineGoesOn, PipelineKeepsSession DEF ReceiveAny
  <2>3. Write(reqs'[r]) => Kept(reqs'[r])
    <3> SUFFICES ASSUME Write(reqs'[r]) PROVE Kept(reqs'[r])
      OBVIOUS
    <3>1. InFlight(r) /\ reqs[r].kind \in {"write", "logout"} /\ reqs'[r] # Idle
      BY <2>2 DEF RequestsGoOn, Further, Idle
    <3> QED
      BY <1>6, <3>1, WriteMoves
  <2>4. \A o \in HttpRequests : Write(reqs'[o]) => Kept(reqs'[o])
    BY <1>1, <2>1, <2>3
  <2> QED
    BY <1>3, <2>2, <2>4 DEF SessionGoesOn
<1>7. ASSUME UNCHANGED <<opened, elsewhere>>,
             \A o \in HttpRequests :
               \/ reqs'[o].phase = "idle"
               \/ /\ reqs'[o].kind = reqs[o].kind /\ reqs'[o].cookie = reqs[o].cookie
                  /\ reqs'[o].began = reqs[o].began /\ reqs'[o].token = reqs[o].token
                  /\ reqs'[o].answer = reqs[o].answer
                  /\ \/ reqs'[o].phase = reqs[o].phase
                     \/ reqs[o].phase = "body" /\ reqs'[o].phase = "callback"
      PROVE  WritesOfSessions'
  <2>1. \A o \in HttpRequests : Write(reqs'[o]) => Kept(reqs'[o])
    BY <1>1, <1>7
  <2> QED
    BY <1>3, <1>7, <2>1
<1>8. ASSUME NEW r \in HttpRequests, ReceiveMe(r) \/ FinishWrite(r)
      PROVE  WritesOfSessions'
  BY <1>2, <1>7, <1>8 DEF ReceiveMe, FinishWrite, Idle, serverVars
<1>9. ASSUME NEW r \in HttpRequests, ReceiveRead(r) \/ ReceiveWrite(r)
      PROVE  WritesOfSessions'
  <2>1. PICK q \in {Idle, [reqs[r] EXCEPT !.phase = "callback"]} :
          reqs' = Aged([reqs EXCEPT ![r] = q], access') /\ reqs[r].phase = "body"
    BY <1>9 DEF ReceiveRead, ReceiveWrite, SettleAccess
  <2>2. q \in Request
    BY <1>2, IdleIsRequest DEF Request, Phases
  <2>3. ASSUME NEW o \in HttpRequests
        PROVE  LET p == IF o = r THEN q ELSE reqs[o]
               IN  /\ reqs'[o].kind = p.kind /\ reqs'[o].cookie = p.cookie
                   /\ reqs'[o].began = p.began /\ reqs'[o].token = p.token
                   /\ reqs'[o].answer = p.answer /\ reqs'[o].phase = p.phase
    BY <1>2, <2>1, <2>2 DEF Aged, Request
  <2>4. \/ q.phase = "idle"
        \/ /\ q.kind = reqs[r].kind /\ q.cookie = reqs[r].cookie /\ q.began = reqs[r].began
           /\ q.token = reqs[r].token /\ q.answer = reqs[r].answer /\ q.phase = "callback"
    BY <1>2 DEF Idle, Request
  <2> QED
    BY <1>7, <1>9, <2>1, <2>3, <2>4 DEF ReceiveRead, ReceiveWrite, serverVars
<1>10. CASE clearProtectedQueryData
  BY <1>2, <1>7, <1>10 DEF clearProtectedQueryData, serverVars, Request
<1> QED
  BY <1>4, <1>5, <1>6, <1>8, <1>9, <1>10
     DEF BSNext, ReceiveAny, Remount, SignIn, SignInElsewhere, ContinueInvitation, Navigate,
         ClearDenial, ServerForgets, ChangeRights, bsVars, serverVars

(* A write, signing out included, is never sent over a sign-in of its own  *)
(* page (mutate checks the generation after the CSRF lookup), and one that *)
(* is sent over a sign-in of another tab is not accepted, whatever page    *)
(* and server did between: its token is of the session before.             *)
THEOREM WritesKeepTheirSession == BSSpec => []WriteKeepsItsSession
<1>1. BSInit => WritesOfSessions
  BY DEF BSInit, WritesOfSessions, InFlight, Idle
<1>2. WritesOfSessions => WriteKeepsItsSession
  BY DEF WritesOfSessions, WriteKeepsItsSession, InFlight, OnlyElsewhere
<1> QED
  BY <1>1, <1>2, SessionTypes, SessionInit, SessionStep, WritesStep, PTL DEF BSSpec

(* Once the data of an ended session is removed nothing brings it back.    *)
THEOREM EndedSessionsStayEmpty == BSSpec => []EndedSessionStaysEmpty
<1>1. BSInit => EndedSessionStaysEmpty
  BY DEF BSInit, EndedSessionStaysEmpty
<1>2. SessionInv /\ EndedSessionStaysEmpty /\ [BSNext]_bsVars => EndedSessionStaysEmpty'
  <2> SUFFICES ASSUME SessionInv, EndedSessionStaysEmpty, [BSNext]_bsVars
               PROVE  EndedSessionStaysEmpty'
    OBVIOUS
  <2> USE DEF EndedSessionStaysEmpty
  <2>1. cleared => terminated
    BY DEF SessionInv, EndIsShown, OnlyEndedIsCleared
  <2>2. CASE Remount \/ SignIn
    BY <2>2 DEF Remount, SignIn, SignInElsewhere, MountApp
  <2>3. CASE clearProtectedQueryData
    BY <2>3 DEF clearProtectedQueryData
  <2>4. ASSUME NEW r \in HttpRequests, ReceiveRead(r) \/ ReceiveMe(r) \/ FinishWrite(r)
        PROVE  EndedSessionStaysEmpty'
    BY <2>1, <2>4 DEF ReceiveRead, ReceiveMe, FinishWrite, bodyOf, mayStore, isSessionActive
  <2>5. CASE UNCHANGED appVars
    BY <2>5 DEF appVars
  <2> QED
    BY <2>2, <2>3, <2>4, <2>5
       DEF BSNext, BeginRequest, ReadMe, read, mutate, ServeToken, Serve, Lose, ReceiveAny, ReceiveToken,
           ReceiveHeaders, ReceiveWrite, ContinueInvitation, Navigate, ClearDenial,
           ServerForgets, ChangeRights, Remount, SignIn, SignInElsewhere, bsVars
<1> QED
  BY <1>1, <1>2, SessionTypes, SessionInit, SessionStep, PTL DEF BSSpec

(* A session ends by the answer to one of its own requests.                *)
THEOREM SessionsEndByTheirOwn == BSSpec => OnlyItsOwnAnswerEndsASession
<1> DEFINE Own == ~terminated /\ terminated' =>
                    \E r \in HttpRequests :
                      reqs[r].gen = generation /\ reqs[r].phase # "idle" /\ reqs'[r] = Idle
<1>1. BSTypeOK /\ [BSNext]_bsVars => [Own]_bsVars
  <2> SUFFICES ASSUME BSTypeOK, [BSNext]_bsVars, ~terminated, terminated'
               PROVE  \E r \in HttpRequests :
                        reqs[r].gen = generation /\ reqs[r].phase # "idle" /\ reqs'[r] = Idle
    OBVIOUS
  <2>1. ASSUME NEW r \in HttpRequests, ReceiveToken(r) \/ ReceiveHeaders(r)
        PROVE  reqs[r].gen = generation /\ reqs[r].phase # "idle" /\ reqs'[r] = Idle
    <3>1. ~UNCHANGED sessionVars
      BY DEF sessionVars
    <3>2. terminateSession(reqs[r].gen) /\ reqs'[r] = Idle
      BY <2>1, <3>1 DEF ReceiveToken, ReceiveHeaders, ParseHeaders, HeadersStop, BSTypeOK
    <3>3. reqs[r].gen = generation
      BY <3>1, <3>2 DEF terminateSession
    <3> QED
      BY <2>1, <3>2, <3>3 DEF ReceiveToken, ReceiveHeaders
  <2>2. ~MountApp /\ ~UNCHANGED sessionVars
    BY DEF MountApp, sessionVars
  <2> QED
    BY <2>1, <2>2
       DEF BSNext, BeginRequest, ReadMe, read, mutate, ServeToken, Serve, Lose, ReceiveAny, ReceiveRead,
           ReceiveMe, ReceiveWrite, FinishWrite, Remount, SignIn, SignInElsewhere, clearProtectedQueryData,
           ContinueInvitation, Navigate, ClearDenial, ServerForgets, ChangeRights, bsVars
<1> QED
  BY <1>1, SessionTypes, PTL DEF BSSpec, OnlyItsOwnAnswerEndsASession

-------------------------------------------------------------------------------
(* What the end of a request may do to the denial record.                  *)
LEMMA AccessReadEffect ==
  ASSUME NEW a \in Access, NEW revision \in Nat, NEW answer \in Answers
  PROVE  LET b == accessRead(a, revision, answer)
         IN \/ b = a
            \/ /\ answer = "ok" /\ revision = a.version
               /\ b.version = a.version /\ b.denied = a.denied /\ b.read = revision
            \/ b.version = a.version + 1 /\ b.read = a.read
<1>1. a.version \in Nat
  BY DEF Access
<1>2. /\ recordAccessDenial(a).version = a.version + 1
      /\ recordAccessDenial(a).read = a.read
  BY <1>1 DEF recordAccessDenial, Access
<1>3. /\ [a EXCEPT !.read = revision].version = a.version
      /\ [a EXCEPT !.read = revision].denied = a.denied
      /\ [a EXCEPT !.read = revision].read = revision
  BY DEF Access
<1>4. CASE answer = "ok"
  <2>1. accessRead(a, revision, answer) = completeAccessRead(a, revision)
    BY <1>4 DEF accessRead, isAccessError
  <2>2. CASE a.version = revision
    BY <1>3, <1>4, <2>1, <2>2 DEF completeAccessRead
  <2>3. CASE a.version # revision
    BY <2>1, <2>3 DEF completeAccessRead
  <2> QED
    BY <2>2, <2>3
<1>5. CASE isAccessError(answer)
  BY <1>2, <1>5 DEF accessRead, isAccessError
<1>6. CASE answer # "ok" /\ ~isAccessError(answer)
  BY <1>6 DEF accessRead
<1> QED
  BY <1>4, <1>5, <1>6

(* A denial is recorded for an answer of the session that shows it.        *)
THEOREM DenialsAreOfTheirSession == BSSpec => DenialIsOfThisSession
<1> DEFINE Own == access'.version > access.version =>
                    \E r \in HttpRequests :
                      reqs[r].gen = generation /\ reqs[r].phase = "body" /\ reqs'[r] = Idle
<1>1. BSTypeOK /\ [BSNext]_bsVars => [Own]_bsVars
  <2> SUFFICES ASSUME BSTypeOK, [BSNext]_bsVars, access'.version > access.version
               PROVE  \E r \in HttpRequests :
                        reqs[r].gen = generation /\ reqs[r].phase = "body" /\ reqs'[r] = Idle
    OBVIOUS
  <2>1. access.version \in Nat
    BY DEF BSTypeOK, Access
  <2>5. MountApp => access'.version = 0
    BY DEF MountApp, resetAccessState
  <2>6. clearAccessDenial(access).version = access.version
    BY DEF clearAccessDenial, BSTypeOK, Access
  <2>2. ~UNCHANGED access /\ ~MountApp /\ ~ClearDenial
    BY <2>1, <2>5, <2>6 DEF ClearDenial
  <2>3. ASSUME NEW r \in HttpRequests, ReceiveRead(r)
        PROVE  reqs[r].gen = generation /\ reqs[r].phase = "body" /\ reqs'[r] = Idle
    <3>1. bodyOf(r) /\ access' = accessRead(access, reqs[r].revision, reqs[r].answer)
          /\ reqs' = Aged([reqs EXCEPT ![r] = Idle], access')
      BY <2>2, <2>3 DEF ReceiveRead, SettleAccess
    <3>2. reqs'[r] = Idle
      BY <3>1 DEF Aged, BSTypeOK, Idle
    <3> QED
      BY <2>3, <3>1, <3>2 DEF ReceiveRead, bodyOf, isSessionActive
  <2>4. ASSUME NEW r \in HttpRequests, ReceiveWrite(r)
        PROVE  reqs[r].gen = generation /\ reqs[r].phase = "body" /\ reqs'[r] = Idle
    <3>1. bodyOf(r) /\ reqs[r].answer = "403"
          /\ reqs' = Aged([reqs EXCEPT ![r] = Idle], access')
      BY <2>2, <2>4 DEF ReceiveWrite, SettleAccess
    <3>2. reqs'[r] = Idle
      BY <3>1 DEF Aged, BSTypeOK, Idle
    <3> QED
      BY <2>4, <3>1, <3>2 DEF ReceiveWrite, bodyOf, isSessionActive
  <2> QED
    BY <2>2, <2>3, <2>4
       DEF BSNext, BeginRequest, ReadMe, read, mutate, ServeToken, Serve, Lose, ReceiveAny, ReceiveToken,
           ReceiveHeaders, ReceiveMe, FinishWrite, Remount, SignIn, SignInElsewhere, clearProtectedQueryData,
           ContinueInvitation, Navigate, ServerForgets, ChangeRights, bsVars, accessVars
<1> QED
  BY <1>1, SessionTypes, PTL DEF BSSpec, DenialIsOfThisSession

(* Reads of the current generation and version are younger than the denial.*)
LEMMA DenialStep == BSTypeOK /\ SessionInv /\ DenialInv /\ [BSNext]_bsVars => DenialInv'
<1> SUFFICES ASSUME BSTypeOK, SessionInv, DenialInv, [BSNext]_bsVars
             PROVE  DenialInv'
  OBVIOUS
<1> USE DEF DenialInv, ReadsAreOfVersions, CompletionIsEvidence, InFlight
<1>0. /\ generation \in Nat /\ access.version \in Nat /\ access.read \in Nat \cup {-1}
      /\ \A r \in HttpRequests : reqs[r].gen \in Nat /\ reqs[r].revision \in Nat
  BY DEF BSTypeOK, Access, Request, NoRevision
<1>1. CASE MountApp /\ UNCHANGED reqs
  <2>1. generation' # generation /\ generation' > generation
    BY <1>0, <1>1 DEF MountApp
  <2>2. \A r \in HttpRequests : InFlight(r) => reqs[r].gen <= generation
    BY DEF SessionInv, RequestsOfSessions
  <2>3. ReadsAreOfVersions'
    BY <1>0, <1>1, <2>1, <2>2
  <2>4. CompletionIsEvidence'
    BY <1>1 DEF MountApp, resetAccessState, NoRevision
  <2> QED
    BY <2>3, <2>4
<1>2. ASSUME RequestsGoOn, SessionGoesOn, UNCHANGED <<access, evidence>>,
             \A r \in HttpRequests : reqs'[r].phase # "idle" => reqs'[r].fresh = reqs[r].fresh
      PROVE  DenialInv'
  <2>1. CompletionIsEvidence'
    BY <1>2
  <2>2. ReadsAreOfVersions'
    <3> SUFFICES ASSUME NEW r \in HttpRequests,
                        reqs'[r].phase # "idle", reqs'[r].kind = "read",
                        reqs'[r].gen = generation'
                 PROVE  /\ reqs'[r].revision <= access'.version
                        /\ reqs'[r].revision = access'.version => reqs'[r].fresh
      OBVIOUS
    <3>1. InFlight(r) /\ Further(reqs'[r], reqs[r])
      BY <1>2 DEF RequestsGoOn
    <3>2. reqs[r].gen <= generation
      BY <3>1 DEF SessionInv, RequestsOfSessions
    <3>3. generation' = generation
      BY <1>0, <1>2, <3>1, <3>2 DEF SessionGoesOn, sessionVars, Further
    <3> QED
      BY <1>2, <3>1, <3>3 DEF Further
  <2> QED
    BY <2>1, <2>2
<1>3. ASSUME NEW r \in HttpRequests, ServeToken(r) \/ Serve(r) \/ Lose(r) \/ ReceiveToken(r)
             \/ ReceiveHeaders(r) \/ ReceiveMe(r) \/ FinishWrite(r)
      PROVE  DenialInv'
  <2>1. RequestsGoOn /\ SessionGoesOn
    BY <1>3, PipelineGoesOn, PipelineKeepsSession DEF ReceiveAny
  <2>2. UNCHANGED <<access, evidence>>
    BY <1>3 DEF ServeToken, Serve, Lose, ReceiveToken, ReceiveHeaders, ReceiveMe, FinishWrite,
              accessVars
  <2>3. \A o \in HttpRequests : reqs'[o].phase # "idle" => reqs'[o].fresh = reqs[o].fresh
    <3> SUFFICES ASSUME NEW o \in HttpRequests, reqs'[o].phase # "idle"
                 PROVE  reqs'[o].fresh = reqs[o].fresh
      OBVIOUS
    <3>1. CASE o # r
      BY <1>3, <3>1 DEF ServeToken, Serve, Lose, ReceiveToken, ReceiveHeaders, ReceiveMe, FinishWrite,
                        BSTypeOK
    <3>2. CASE Lose(r) \/ ReceiveMe(r) \/ FinishWrite(r)
      BY <3>1, <3>2 DEF Lose, ReceiveMe, FinishWrite, BSTypeOK, Idle
    <3>3. CASE o = r /\ (ReceiveToken(r) \/ ReceiveHeaders(r))
      <4>1. reqs'[r] \in {Idle, [reqs[r] EXCEPT !.phase = "body"],
                          [reqs[r] EXCEPT !.phase = "sent", !.answer = "none", !.cookie = opened]}
        BY <3>3 DEF ReceiveToken, ReceiveHeaders, BSTypeOK
      <4>2. reqs'[r] # Idle
        BY <3>3 DEF Idle
      <4>3. reqs[r] \in Request
        BY DEF BSTypeOK
      <4>4. /\ [reqs[r] EXCEPT !.phase = "body"].fresh = reqs[r].fresh
            /\ [reqs[r] EXCEPT !.phase = "sent", !.answer = "none", !.cookie = opened].fresh
                 = reqs[r].fresh
        BY <4>3 DEF Request
      <4> QED
        BY <3>3, <4>1, <4>2, <4>4
    <3>4. CASE o = r /\ (ServeToken(r) \/ Serve(r))
      BY <3>4 DEF ServeToken, Serve, BSTypeOK, Request
    <3> QED
      BY <1>3, <3>1, <3>2, <3>3, <3>4
  <2> QED
    BY <1>2, <2>1, <2>2, <2>3
<1>4. CASE clearProtectedQueryData
  <2>1. RequestsGoOn /\ SessionGoesOn
    BY <1>4, EndGoesOn DEF clearProtectedQueryData, SessionGoesOn, serverVars
  <2>2. \A o \in HttpRequests : reqs'[o].fresh = reqs[o].fresh
    BY <1>4 DEF clearProtectedQueryData, BSTypeOK, Request
  <2> QED
    BY <1>2, <1>4, <2>1, <2>2 DEF clearProtectedQueryData, accessVars
<1>5. ASSUME NEW r \in HttpRequests, BeginRequest(r)
      PROVE  DenialInv'
  <2>1. UNCHANGED <<generation, access, evidence>>
    BY <1>5 DEF BeginRequest, ReadMe, read, mutate, sessionVars, accessVars
  <2>2. \E kind \in Kinds, phase \in Phases : Send(r, kind, phase)
    BY <1>5 DEF BeginRequest, ReadMe, read, mutate, Kinds, Phases
  <2>3. \A o \in HttpRequests :
          IF o = r THEN reqs'[o].kind = "read" => /\ reqs'[o].fresh
                                                  /\ reqs'[o].revision = access.version
                   ELSE reqs'[o] = reqs[o]
    <3>1. PICK kind \in Kinds, phase \in Phases : Send(r, kind, phase)
      BY <2>2
    <3>2. CASE kind = "read"
      BY <3>1, <3>2 DEF Send, BSTypeOK, beginAccessRead
    <3>3. CASE kind # "read"
      BY <3>1, <3>3 DEF Send, BSTypeOK
    <3> QED
      BY <3>2, <3>3
  <2> QED
    BY <1>0, <2>1, <2>3
<1>6. ASSUME NEW r \in HttpRequests, ReceiveRead(r) \/ ReceiveWrite(r)
      PROVE  DenialInv'
  <2>1. RequestsGoOn /\ SessionGoesOn
    BY <1>6, PipelineGoesOn, PipelineKeepsSession DEF ReceiveAny
  <2>2. PICK q \in {Idle, [reqs[r] EXCEPT !.phase = "callback"]}, told \in BOOLEAN :
          /\ reqs' = Aged([reqs EXCEPT ![r] = q], access')
          /\ SettleAccess(access', told)
          /\ \/ access' = access
             \/ /\ told = reqs[r].fresh /\ reqs[r].gen = generation
                /\ InFlight(r) /\ reqs[r].kind = "read"
                /\ reqs[r].revision = access.version /\ access'.version = access.version
                /\ access'.read = access.version
             \/ access'.version = access.version + 1 /\ access'.read = access.read
    <3>1. CASE ReceiveRead(r)
      <4>1. reqs[r].revision \in Nat /\ reqs[r].answer \in Answers /\ access \in Access
        BY DEF BSTypeOK, Request
      <4> DEFINE told == bodyOf(r) /\ reqs[r].answer = "ok" /\ reqs[r].fresh
      <4>2. told \in BOOLEAN
        BY DEF BSTypeOK, Request
      <4>3. reqs' = Aged([reqs EXCEPT ![r] = Idle], access') /\ SettleAccess(access', told)
        BY <3>1 DEF ReceiveRead, SettleAccess
      <4>4. CASE ~bodyOf(r)
        BY <3>1, <4>2, <4>3, <4>4 DEF ReceiveRead, SettleAccess
      <4>5. CASE bodyOf(r)
        <5>1. access' = accessRead(access, reqs[r].revision, reqs[r].answer)
          BY <3>1, <4>5 DEF ReceiveRead, SettleAccess
        <5>2. reqs[r].gen = generation /\ InFlight(r) /\ reqs[r].kind = "read"
          BY <3>1, <4>5 DEF ReceiveRead, bodyOf, isSessionActive
        <5>3. reqs[r].answer = "ok" => told = reqs[r].fresh
          BY <4>5 DEF BSTypeOK, Request
        <5> HIDE DEF told
        <5> QED
          BY <4>1, <4>2, <4>3, <5>1, <5>2, <5>3, AccessReadEffect
      <4> QED
        BY <4>4, <4>5
    <3>2. CASE ReceiveWrite(r)
      <4>1. recordAccessDenial(access).version = access.version + 1
            /\ recordAccessDenial(access).read = access.read
        BY DEF recordAccessDenial, BSTypeOK, Access
      <4>2. FALSE \in BOOLEAN
        OBVIOUS
      <4> QED
        BY <3>2, <4>1, <4>2 DEF ReceiveWrite, SettleAccess
    <3> QED
      BY <1>6, <3>1, <3>2
  <2>3. CompletionIsEvidence'
    <3>1. CASE access' = access
      <4>1. evidence' = (evidence \/ told)
        BY <2>2, <3>1 DEF SettleAccess
      <4>2. CASE evidence
        BY <3>1, <4>1, <4>2
      <4>3. CASE access.read # access.version
        BY <3>1, <4>3
      <4> QED
        BY <4>2, <4>3
    <3>2. CASE access'.version = access.version /\ access'.read = access.version /\ told
      BY <1>0, <2>2, <3>2 DEF SettleAccess
    <3>3. CASE access'.version = access.version + 1 /\ access'.read = access.read
      BY <1>0, <3>3
    <3>4. reqs[r].gen = generation /\ InFlight(r) /\ reqs[r].kind = "read"
            /\ reqs[r].revision = access.version => reqs[r].fresh
      OBVIOUS
    <3> QED
      BY <2>2, <3>1, <3>2, <3>3, <3>4
  <2>4. ReadsAreOfVersions'
    <3> SUFFICES ASSUME NEW o \in HttpRequests,
                        reqs'[o].phase # "idle", reqs'[o].kind = "read",
                        reqs'[o].gen = generation'
                 PROVE  /\ reqs'[o].revision <= access'.version
                        /\ reqs'[o].revision = access'.version => reqs'[o].fresh
      OBVIOUS
    <3>1. InFlight(o) /\ Further(reqs'[o], reqs[o])
      BY <2>1 DEF RequestsGoOn
    <3>2. reqs[o].gen = generation
      <4>1. reqs[o].gen <= generation
        BY <3>1 DEF SessionInv, RequestsOfSessions
      <4> QED
        BY <1>0, <2>1, <3>1, <4>1 DEF SessionGoesOn, sessionVars, Further
    <3>3. /\ reqs'[o].revision = reqs[o].revision
          /\ reqs[o].revision <= access.version
          /\ reqs[o].revision = access.version => reqs[o].fresh
      BY <3>1, <3>2 DEF Further
    <3>4. CASE access'.version = access.version
      <4>1. reqs'[o] = IF o = r THEN q ELSE reqs[o]
        BY <2>2, <3>4 DEF Aged, BSTypeOK
      <4>2. reqs'[o].fresh = reqs[o].fresh
        BY <2>2, <4>1 DEF Idle, BSTypeOK, Request
      <4> QED
        BY <3>3, <3>4, <4>2
    <3>5. CASE access'.version = access.version + 1
      BY <1>0, <3>3, <3>5
    <3> QED
      BY <2>2, <3>4, <3>5
  <2> QED
    BY <2>3, <2>4
<1>7. CASE ClearDenial
  BY <1>0, <1>7 DEF ClearDenial, clearAccessDenial, accessReadCanClear, sessionVars, BSTypeOK,
                    Access, NoRevision
<1>8. CASE UNCHANGED <<generation, reqs, access, evidence>>
  BY <1>8
<1> QED
  BY <1>1, <1>3, <1>4, <1>5, <1>6, <1>7, <1>8
     DEF BSNext, ReceiveAny, Remount, SignIn, SignInElsewhere, ContinueInvitation, Navigate, ServerForgets,
         ChangeRights, bsVars, sessionVars, accessVars

(* A denied screen is shown again only when a read that began after the    *)
(* denial has succeeded.                                                   *)
THEOREM DenialsOutliveOlderReads == BSSpec => DenialOutlivesOlderReads
<1> DEFINE Shown == access.denied /\ ~access'.denied /\ client' = client => evidence
<1>1. BSInit => DenialInv
  BY DEF BSInit, DenialInv, ReadsAreOfVersions, CompletionIsEvidence, InFlight, Idle,
         resetAccessState, NoRevision
<1>2. BSTypeOK /\ SessionInv /\ DenialInv /\ [BSNext]_bsVars => [Shown]_bsVars
  <2> SUFFICES ASSUME BSTypeOK, SessionInv, DenialInv, [BSNext]_bsVars,
                      access.denied, ~access'.denied, client' = client
               PROVE  evidence
    OBVIOUS
  <2>1. ~MountApp
    BY DEF MountApp, SessionInv, ClientIsMounted, BSTypeOK
  <2>2. CASE ClearDenial
    BY <2>2 DEF ClearDenial, accessReadCanClear, DenialInv, CompletionIsEvidence
  <2>3. ASSUME NEW r \in HttpRequests, ReceiveRead(r) \/ ReceiveWrite(r)
        PROVE  FALSE
    <3>1. reqs[r].revision \in Nat /\ reqs[r].answer \in Answers /\ access \in Access
      BY DEF BSTypeOK, Request
    <3>2. /\ recordAccessDenial(access).denied
          /\ accessRead(access, reqs[r].revision, reqs[r].answer).denied
      BY <3>1 DEF accessRead, completeAccessRead, recordAccessDenial, Access
    <3> QED
      BY <2>3, <3>2 DEF ReceiveRead, ReceiveWrite, SettleAccess
  <2>4. ~UNCHANGED access
    OBVIOUS
  <2> QED
    BY <2>1, <2>2, <2>3, <2>4
       DEF BSNext, BeginRequest, ReadMe, read, mutate, ServeToken, Serve, Lose, ReceiveAny, ReceiveToken,
           ReceiveHeaders, ReceiveMe, FinishWrite, Remount, SignIn, SignInElsewhere, clearProtectedQueryData,
           ContinueInvitation, Navigate, ServerForgets, ChangeRights, bsVars, accessVars
<1> QED
  BY <1>1, <1>2, SessionTypes, SessionInit, SessionStep, DenialStep, PTL
     DEF BSSpec, DenialOutlivesOlderReads

(***************************************************************************)
(* The way back from Google.  What the storage and the page hold was left  *)
(* by an entry from a project.                                             *)
(***************************************************************************)
ReturnInv ==
  /\ now \in Nat
  /\ store # none => store \in entered
  /\ context # none => context \in entered

LEMMA ReturnStepKeepsInv ==
  ASSUME ReturnInv, [ReturnNext]_returnVars
  PROVE  ReturnInv'
<1>1. CASE Tick
  BY <1>1 DEF Tick, ReturnInv
<1>2. CASE EnterFromProject
  BY <1>2 DEF EnterFromProject, MountSettings, KeepWorld, ReturnInv
<1>3. CASE ReturnFromConsent
  BY <1>3 DEF ReturnFromConsent, StoredFor, MountSettings, KeepWorld, ReturnInv
<1>4. CASE OpenConsent
  BY <1>4 DEF OpenConsent, KeepWorld, ReturnInv
<1>5. CASE /\ UNCHANGED <<now, entered>>
           /\ store' \in {store, none} /\ context' \in {context, none}
  BY <1>5 DEF ReturnInv
<1>6. QED
  BY <1>1, <1>2, <1>3, <1>4, <1>5 DEF ReturnNext, returnVars, KeepWorld, KeepPage,
     OtherTabSignsIn, EnterDirect, MountSettings, IdentityChanges, ContextExpires, connect,
     ReceiveAuthorization, disconnect, LeaveSettings, ReturnSessionEnds

(* A way back is taken up by the account that left it, within MaxAge       *)
(* (getGoogleReturnContext compares the account and the time).             *)
THEOREM WayBackIsOfThisReader == ReturnSpec => WayBackIsOwnAndRecent
<1>1. ReturnInit => ReturnInv
  BY DEF ReturnInit, ReturnInv
<1>2. ReturnInv /\ [ReturnNext]_returnVars => ReturnInv'
  BY ReturnStepKeepsInv
<1>3. ASSUME ReturnInv, [ReturnNext]_returnVars, context' # none, context' # context
      PROVE  context'.user = identity' /\ context' \in entered' /\ now' <= context'.at + MaxAge
  <2>1. CASE EnterFromProject
    <3>1. PICK path \in ReturnPaths, user \in {identity, cookieUser} :
            LET c == [user |-> user, path |-> path, at |-> now]
            IN  MountSettings(user, c, c) /\ entered' = entered \cup {c}
      BY <2>1 DEF EnterFromProject
    <3>2. context' = [user |-> user, path |-> path, at |-> now] /\ identity' = user
      BY <3>1 DEF MountSettings
    <3>3. now' = now /\ now \in Nat
      BY <1>3, <2>1 DEF EnterFromProject, KeepWorld, ReturnInv
    <3>4. QED
      BY <3>1, <3>2, <3>3, ReturnConstants
  <2>2. CASE ReturnFromConsent
    <3>1. context' = store /\ Unexpired(store) /\ store.user = cookieUser /\ identity' = cookieUser
      BY <1>3, <2>2 DEF ReturnFromConsent, MountSettings, StoredFor
    <3>2. QED
      BY <1>3, <2>2, <3>1 DEF ReturnFromConsent, KeepWorld, Unexpired, ReturnInv
  <2>3. QED
    BY <1>3, <2>1, <2>2 DEF ReturnNext, returnVars, KeepWorld, KeepPage, Tick, OtherTabSignsIn,
       EnterDirect, MountSettings, IdentityChanges, ContextExpires, connect,
       ReceiveAuthorization, disconnect, OpenConsent, LeaveSettings, ReturnSessionEnds
<1>4. QED
  BY <1>1, <1>2, <1>3, PTL DEF ReturnSpec, WayBackIsOwnAndRecent

(***************************************************************************)
(* Writing a mail.  As long as no answer was overtaken, every id the page  *)
(* holds is that of the last mail, and nothing it holds says of a mail     *)
(* that it was sent before its receipt does.                               *)
(***************************************************************************)
Flight == [at : {"unsent", "sent", "settled", "SENDING", "SENT", "UNKNOWN", "FAILED"},
           mount : Nat]

ComposeTypes ==
  /\ submitted \in 0 .. MaxMails /\ mounts \in Nat
  /\ requestId \in 0 .. MaxMails /\ storedId \in 0 .. MaxMails /\ sending \in 0 .. MaxMails
  /\ flight \in [Mails -> Flight]
  /\ receipts \in [Mails -> {"none", "SENDING"} \cup Settled]
  /\ DOMAIN receiptData = Mails
  /\ overtaken \in BOOLEAN

LaterMailsAreUnsent == \A m \in Mails : m > submitted => flight[m].at = "unsent"

IdsAreOfTheLastMail == ~overtaken => {requestId, storedId, sending} \subseteq {0, submitted}

WhatIsHeldIsTrue ==
  /\ \A m \in Mails : receiptData[m] = "SENT" \/ flight[m].at = "SENT" => receipts[m] = "SENT"
  /\ sendData = "SENT" => sending # 0 /\ receipts[sending] = "SENT"

ComposeInv == ComposeTypes /\ LaterMailsAreUnsent /\ IdsAreOfTheLastMail /\ WhatIsHeldIsTrue

LEMMA ReceiptsKeepInv ==
  ASSUME ComposeInv, TakeMail \/ SettleMail
  PROVE  ComposeInv'
<1>1. PICK m \in Mails, s \in {"SENDING"} \cup Settled :
        receipts[m] \in {"none", "SENDING"} /\ receipts' = [receipts EXCEPT ![m] = s]
  BY DEF TakeMail, SettleMail
<1>2. /\ receipts' \in [Mails -> {"none", "SENDING"} \cup Settled]
      /\ \A n \in Mails : receipts[n] = "SENT" => receipts'[n] = "SENT"
  BY <1>1 DEF ComposeInv, ComposeTypes, Settled
<1>3. UNCHANGED <<submitted, flight, Page>>
  BY DEF TakeMail, SettleMail
<1>4. sending \in {0} \cup Mails
  BY ComposeConstants DEF ComposeInv, ComposeTypes, Mails
<1>5. WhatIsHeldIsTrue'
  BY <1>2, <1>3, <1>4 DEF ComposeInv, WhatIsHeldIsTrue, Page
<1>6. QED
  BY <1>2, <1>3, <1>5 DEF ComposeInv, ComposeTypes, LaterMailsAreUnsent, IdsAreOfTheLastMail, Page

LEMMA SubmitKeepsComposeInv ==
  ASSUME ComposeInv, submitSend
  PROVE  ComposeInv'
<1> DEFINE id == submitted + 1
<1>1. id \in Mails /\ id # 0 /\ submitted \in Nat
  BY ComposeConstants DEF submitSend, ComposeInv, ComposeTypes, Mails
<1>2. /\ submitted' = id /\ requestId' = id /\ storedId' = id /\ sending' = id
      /\ flight' = [flight EXCEPT ![id] = [at |-> "sent", mount |-> mounts]]
      /\ sendData' = "none" /\ UNCHANGED <<receipts, receiptData, mounts, overtaken>>
  BY DEF submitSend
<1> HIDE DEF id
<1>3. [at |-> "sent", mount |-> mounts] \in Flight
  BY DEF ComposeInv, ComposeTypes, Flight
<1>4. /\ flight' \in [Mails -> Flight]
      /\ flight'[id].at = "sent" /\ \A m \in Mails \ {id} : flight'[m] = flight[m]
  BY <1>1, <1>2, <1>3 DEF ComposeInv, ComposeTypes
<1>5. ComposeTypes'
  BY <1>1, <1>2, <1>4 DEF ComposeInv, ComposeTypes, Mails
<1>6. LaterMailsAreUnsent'
  BY <1>1, <1>2, <1>4 DEF id, ComposeInv, LaterMailsAreUnsent, Mails
<1>7. IdsAreOfTheLastMail'
  BY <1>2 DEF IdsAreOfTheLastMail
<1>8. WhatIsHeldIsTrue'
  BY <1>2, <1>4 DEF ComposeInv, WhatIsHeldIsTrue
<1>9. QED
  BY <1>5, <1>6, <1>7, <1>8 DEF ComposeInv

(* A send that changes its state: an answer under way, or settled.         *)
LEMMA FlightMoves ==
  ASSUME ComposeInv, NEW m \in Mails, flight[m].at # "unsent",
         NEW at \in {"settled", "SENDING", "SENT", "UNKNOWN", "FAILED"},
         flight' = [flight EXCEPT ![m].at = at], UNCHANGED <<submitted, receipts, receiptData>>,
         at = "SENT" => receipts[m] = "SENT"
  PROVE  /\ flight' \in [Mails -> Flight] /\ LaterMailsAreUnsent'
         /\ \A n \in Mails : receiptData'[n] = "SENT" \/ flight'[n].at = "SENT"
                             => receipts'[n] = "SENT"
<1>1. flight' = [flight EXCEPT ![m] = [flight[m] EXCEPT !.at = at]]
  OBVIOUS
<1>2. [flight[m] EXCEPT !.at = at] \in Flight /\ [flight[m] EXCEPT !.at = at].at = at
  BY DEF ComposeInv, ComposeTypes, Flight
<1>3. /\ flight' \in [Mails -> Flight]
      /\ flight'[m].at = at /\ \A n \in Mails \ {m} : flight'[n] = flight[n]
  BY <1>1, <1>2 DEF ComposeInv, ComposeTypes
<1>4. QED
  BY <1>3 DEF ComposeInv, LaterMailsAreUnsent, WhatIsHeldIsTrue

LEMMA AnswersKeepComposeInv ==
  ASSUME ComposeInv, AnswerMail \/ SendFails
  PROVE  ComposeInv'
<1>1. PICK m \in Mails, at \in {"settled", "SENDING", "SENT", "UNKNOWN", "FAILED"} :
        /\ flight[m].at # "unsent" /\ flight' = [flight EXCEPT ![m].at = at]
        /\ at = "SENT" => receipts[m] = "SENT"
  <2>1. CASE AnswerMail
    <3>1. PICK m \in Mails : /\ flight[m].at = "sent" /\ receipts[m] # "none"
                             /\ flight' = [flight EXCEPT ![m].at = receipts[m]]
      BY <2>1 DEF AnswerMail
    <3>2. receipts[m] \in {"SENDING", "SENT", "UNKNOWN", "FAILED"}
      BY <3>1 DEF ComposeInv, ComposeTypes, Settled
    <3>3. QED
      BY <3>1, <3>2
  <2>2. CASE SendFails
    BY <2>2 DEF SendFails
  <2>3. QED
    BY <2>1, <2>2
<1>2. UNCHANGED <<submitted, receipts, Page>>
  BY DEF AnswerMail, SendFails
<1>3. /\ flight' \in [Mails -> Flight] /\ LaterMailsAreUnsent'
      /\ \A n \in Mails : receiptData'[n] = "SENT" \/ flight'[n].at = "SENT"
                          => receipts'[n] = "SENT"
  BY <1>1, <1>2, FlightMoves DEF Page
<1>4. QED
  BY <1>2, <1>3 DEF ComposeInv, ComposeTypes, IdsAreOfTheLastMail, WhatIsHeldIsTrue, Page

LEMMA SendSucceedsKeepsInv ==
  ASSUME ComposeInv, SendSucceeds
  PROVE  ComposeInv'
<1>1. PICK m \in Mails :
        /\ flight[m].at \in Settled \cup {"SENDING"}
        /\ flight' = [flight EXCEPT ![m].at = "settled"]
        /\ requestId' = IF flight[m].mount = mounts THEN m ELSE requestId
        /\ storedId' = m /\ overtaken' = (overtaken \/ m < submitted)
        /\ sendData' = IF sending = m THEN flight[m].at ELSE sendData
        /\ UNCHANGED <<mailConnected, composeOpen, submitted, sending, receipts, receiptData, mounts>>
  BY DEF SendSucceeds
<1>2. m \in 1 .. MaxMails /\ m <= submitted /\ flight[m].at # "unsent" /\ submitted \in Nat
  BY <1>1, ComposeConstants
     DEF ComposeInv, ComposeTypes, LaterMailsAreUnsent, Mails, Settled
<1>3. /\ flight' \in [Mails -> Flight] /\ LaterMailsAreUnsent'
      /\ \A n \in Mails : receiptData'[n] = "SENT" \/ flight'[n].at = "SENT"
                          => receipts'[n] = "SENT"
  BY <1>1, <1>2, FlightMoves
<1>4. ComposeTypes'
  BY <1>1, <1>2, <1>3 DEF ComposeInv, ComposeTypes
<1>5. IdsAreOfTheLastMail'
  <2>1. ASSUME ~overtaken' PROVE ~overtaken /\ m = submitted
    <3>1. ~overtaken /\ ~(m < submitted)
      BY <1>1, <2>1
    <3>2. QED
      BY <1>2, <3>1
  <2>2. QED
    BY <1>1, <2>1 DEF ComposeInv, IdsAreOfTheLastMail
<1>6. WhatIsHeldIsTrue'
  BY <1>1, <1>2, <1>3 DEF ComposeInv, WhatIsHeldIsTrue
<1>7. QED
  BY <1>3, <1>4, <1>5, <1>6 DEF ComposeInv

LEMMA ReadReceiptKeepsInv ==
  ASSUME ComposeInv, ReadReceipt
  PROVE  ComposeInv'
<1>1. requestId \in Mails
  BY ComposeConstants DEF ReadReceipt, ComposeInv, ComposeTypes, Mails
<1>2. /\ DOMAIN receiptData' = Mails
      /\ receiptData'[requestId] = receipts[requestId]
      /\ \A m \in Mails \ {requestId} : receiptData'[m] = receiptData[m]
  BY <1>1 DEF ReadReceipt, ComposeInv, ComposeTypes
<1>3. UNCHANGED <<submitted, requestId, storedId, sending, sendData, flight, receipts, mounts,
                  overtaken>>
  BY DEF ReadReceipt
<1>4. WhatIsHeldIsTrue'
  BY <1>2, <1>3 DEF ComposeInv, WhatIsHeldIsTrue
<1>5. QED
  BY <1>2, <1>3, <1>4
     DEF ComposeInv, ComposeTypes, LaterMailsAreUnsent, IdsAreOfTheLastMail

LEMMA ComposeStepKeepsInv ==
  ASSUME ComposeInv, [ComposeNext]_composeVars
  PROVE  ComposeInv'
<1>1. CASE startCompose \/ closeCompose \/ ReadConnection \/ Reopen \/ UNCHANGED composeVars
  <2>1. /\ UNCHANGED <<submitted, flight, receipts, receiptData, overtaken>>
        /\ \/ UNCHANGED <<sending, sendData>>
           \/ sending' = 0 /\ sendData' = "none"
        /\ requestId' \in {0, requestId, storedId} /\ storedId' \in {0, storedId}
        /\ mounts' \in {mounts, mounts + 1}
    BY <1>1 DEF startCompose, closeCompose, ReadConnection, Reopen, composeVars
  <2>2. ComposeTypes'
    BY <2>1, ComposeConstants DEF ComposeInv, ComposeTypes
  <2>3. QED
    BY <2>1, <2>2
       DEF ComposeInv, LaterMailsAreUnsent, IdsAreOfTheLastMail, WhatIsHeldIsTrue
<1>2. QED
  BY <1>1, ReceiptsKeepInv, SubmitKeepsComposeInv, AnswersKeepComposeInv, SendSucceedsKeepsInv,
     ReadReceiptKeepsInv DEF ComposeNext

(* What the page says of the mail sent last is true, whatever was lost or  *)
(* reloaded, as long as no answer came after a later mail (the status line *)
(* of Gmail, and the request id it keeps in the tab's storage).            *)
THEOREM SaidToBeSentWasSent == ComposeSpec => []SentIsOfTheLastMail
<1>1. ASSUME ComposeInit PROVE ComposeInv
  <2>1. ComposeTypes
    <3>1. flight \in [Mails -> Flight] /\ receipts \in [Mails -> {"none", "SENDING"} \cup Settled]
      <4>1. [at |-> "unsent", mount |-> 0] \in Flight
        BY DEF Flight
      <4>2. QED
        BY <1>1, <4>1 DEF ComposeInit
    <3>2. DOMAIN receiptData = Mails /\ overtaken \in BOOLEAN
      BY <1>1 DEF ComposeInit
    <3>3. QED
      BY <1>1, <3>1, <3>2, ComposeConstants DEF ComposeInit, ComposeTypes
  <2>2. QED
    BY <1>1, <2>1
       DEF ComposeInit, ComposeInv, LaterMailsAreUnsent, IdsAreOfTheLastMail, WhatIsHeldIsTrue
<1>2. ComposeInv /\ [ComposeNext]_composeVars => ComposeInv'
  BY ComposeStepKeepsInv
<1>3. ComposeInv => SentIsOfTheLastMail
  BY ComposeConstants DEF ComposeInv, ComposeTypes, IdsAreOfTheLastMail, WhatIsHeldIsTrue,
     SentIsOfTheLastMail, status, Mails
<1>4. QED
  BY <1>1, <1>2, <1>3, PTL DEF ComposeSpec

(***************************************************************************)
(* Changing a time in the calendar.  Every version the page holds is one   *)
(* of its row.                                                             *)
(***************************************************************************)
Rows == log \in [Events -> Seq(Times)] /\ \A e \in Events : Len(log[e]) # 0

WithinRow(f) == f \in [Events -> Nat] /\ \A e \in Events : f[e] <= Len(log[e])
Shown(f) == WithinRow(f) /\ \A e \in Events : f[e] # 0

Views ==
  /\ Shown(list) /\ WithinRow(override)
  /\ listRead # <<>> => Shown(listRead[1])
  /\ dialog # <<>> => dialog[1] \in Events /\ dialog[2] \in 1 .. Len(log[dialog[1]])

Reads == [latest : {"none", "ok", "failed"}, version : Nat, role : {"none", "edit", "view"},
          target : {"none", "ok", "failed", "403"}]

Save == [phase : {"idle", "sent", "answered", "reading", "refresh", "refreshed"},
         event : SUBSET Events, time : Times \cup {NoTime}, base : Nat,
         answer : {"none", "ok", "400", "403", "409", "lost"}, version : Nat, reads : Reads]

Retry == [phase : {"idle", "reading"}, event : SUBSET Events, intent : Times \cup {NoTime},
          reads : Reads]

(* A read of the schedule found a version no older than b.                 *)
ReadSince(r, e, b) == r.latest = "ok" => r.version \in b .. Len(log[e])

(* A write changes the time of the version it names; an answer that the    *)
(* server took it, or a read after its outcome was lost, is of a later one *)
(* or, for the read, of that version itself.                               *)
SaveIsOfRow ==
  LET e == The(save.event)
  IN  /\ save \in Save
      /\ save.phase = "idle" => save.event = {}
      /\ save.phase # "idle" =>
           /\ e \in Events /\ save.event = {e} /\ save.time \in Times
           /\ save.base \in 1 .. Len(log[e]) /\ log[e][save.base] # save.time
           /\ save.answer = "ok" => /\ save.version \in 1 .. Len(log[e])
                                    /\ save.version > save.base
                                    /\ log[e][save.version] = save.time
           /\ ReadSince(save.reads, e, save.base)
           /\ save.phase \in {"refresh", "refreshed"} /\ save.answer # "ok"
                => save.reads.latest = "ok"

RetryIsOfRow ==
  /\ toRecover # <<>> => toRecover[1] \in Events /\ toRecover[2] \in Times \cup {NoTime}
  /\ retry \in Retry
  /\ retry.phase # "idle" => /\ The(retry.event) \in Events
                             /\ retry.event = {The(retry.event)}
                             /\ ReadSince(retry.reads, The(retry.event), 1)

(* A row whose last write has an unknown outcome for this calendar, or for *)
(* one that was taken down, is locked, or that write is still finding out, *)
(* or the whole workspace is blocked. A calendar that is mounted again     *)
(* knows nothing of the rows that were dropped.                            *)
KnownUnsure == unsure \ dropped

UnsureIsLocked ==
  /\ unsure \subseteq Events
  /\ ~blocked => KnownUnsure \subseteq locks \cup save.event
  /\ save.phase # "reading" => save.event \cap KnownUnsure = {}

(* Without a calendar nothing is begun.                                    *)
DownIsQuiet == ~mounted => dialog = <<>> /\ save = NoSave /\ KnownUnsure = {}

SuccessHolds ==
  feedback.kind = "success" => The(feedback.event) \in Events /\ SuccessIsTrue

DEInv ==
  /\ Rows /\ Views /\ SaveIsOfRow /\ RetryIsOfRow
  /\ UnsureIsLocked /\ DownIsQuiet /\ SuccessHolds

LEMMA TheOne == \A e : The({e}) = e
BY DEF The

(* The server's rows only grow.                                            *)
Grown ==
  /\ Rows'
  /\ \A e \in Events : /\ Len(log[e]) \in Nat /\ Len(log'[e]) \in Nat
                       /\ Len(log[e]) <= Len(log'[e])
                       /\ \A v \in 1 .. Len(log[e]) : log'[e][v] = log[e][v]

LEMMA StoreGrows ==
  ASSUME Rows, NEW e \in Events, NEW t \in Times, Store(e, t)
  PROVE  Grown /\ Len(log'[e]) = Len(log[e]) + 1 /\ log'[e][Len(log[e]) + 1] = t
<1>1. log[e] \in Seq(Times)
  BY DEF Rows
<1>2. /\ Append(log[e], t) \in Seq(Times) /\ Len(Append(log[e], t)) = Len(log[e]) + 1
      /\ Append(log[e], t)[Len(log[e]) + 1] = t
      /\ \A v \in 1 .. Len(log[e]) : Append(log[e], t)[v] = log[e][v]
      /\ Len(log[e]) \in Nat
  BY <1>1
<1>3. log' = [log EXCEPT ![e] = Append(log[e], t)]
  BY DEF Store
<1>4. /\ log'[e] = Append(log[e], t) /\ log' \in [Events -> Seq(Times)]
      /\ \A x \in Events \ {e} : log'[x] = log[x]
  BY <1>2, <1>3 DEF Rows
<1>5. \A x \in Events : Len(log[x]) \in Nat /\ Len(log[x]) # 0
  BY DEF Rows
<1>6. \A x \in Events : Len(log'[x]) \in Nat /\ Len(log'[x]) # 0
  BY <1>2, <1>4, <1>5
<1>7. Rows'
  BY <1>4, <1>6 DEF Rows
<1>8. ASSUME NEW x \in Events
      PROVE  /\ Len(log[x]) <= Len(log'[x])
             /\ \A v \in 1 .. Len(log[x]) : log'[x][v] = log[x][v]
  <2>1. CASE x = e
    BY <1>2, <1>4, <2>1
  <2>2. CASE x # e
    BY <1>4, <1>5, <2>2
  <2>3. QED
    BY <2>1, <2>2
<1>9. QED
  BY <1>2, <1>4, <1>5, <1>6, <1>7, <1>8 DEF Grown

LEMMA RowsOnlyGrow ==
  ASSUME DEInv, [DENext]_deVars
  PROVE  Grown
<1>1. CASE UNCHANGED log
  BY <1>1 DEF DEInv, Rows, Grown
<1>2. CASE \E e \in Events, t \in Times : OtherEdit(e, t)
  BY <1>2, StoreGrows DEF OtherEdit, DEInv
<1>3. CASE ServeSave
  <2>1. The(save.event) \in Events /\ save.time \in Times
    BY <1>3 DEF ServeSave, DEInv, SaveIsOfRow
  <2>2. UNCHANGED log \/ Store(The(save.event), save.time)
    BY <1>3 DEF ServeSave
  <2>3. QED
    BY <1>1, <2>1, <2>2, StoreGrows DEF DEInv
<1>4. QED
  BY <1>1, <1>2, <1>3 DEF DENext, deVars, serverRows, ChangeRole, RefetchProject,
     TakeDown, Mount, onWorkspaceDenied, BeginListRead, FinishListRead, begin, clear, finish,
     openEdit, closeDialog, submitDialog, ChangeContext, LoseSave, Saved, Rejected,
     OutcomeUnknown, ReadAfterSave, Locked, Recovered, refreshSchedule, AfterSaved,
     AfterRecovered, retryRecovery, ReadForRetry, recover, recheckAccess

-------------------------------------------------------------------------------
(* The list, the overrides and the dialog.                                 *)
LEMMA VersionsStay ==
  ASSUME Grown, NEW f
  PROVE  /\ WithinRow(f) => f \in [Events -> Nat] /\ \A e \in Events : f[e] <= Len(log'[e])
         /\ Shown(f) => /\ f \in [Events -> Nat]
                        /\ \A e \in Events : f[e] <= Len(log'[e]) /\ f[e] # 0
<1>1. ASSUME WithinRow(f), NEW e \in Events PROVE f[e] <= Len(log'[e])
  BY <1>1 DEF Grown, WithinRow
<1>2. QED
  BY <1>1 DEF WithinRow, Shown

LEMMA CurrentIsShown == Rows => Shown(current)
BY DEF Rows, Shown, WithinRow, current

LEMMA ListAnswered ==
  ASSUME Rows, Views, UNCHANGED log,
         NEW found, Shown(found), ListAnswer(found) \/ CatchUp(found)
  PROVE  Shown(list)' /\ WithinRow(override)'
<1>1. CASE list' = found /\ override' = override
  BY <1>1 DEF Views, Shown, WithinRow
<1>2. CASE UNCHANGED <<list, override>>
  BY <1>2 DEF Views, Shown, WithinRow
<1>3. CASE /\ list' = found
           /\ override' = [e \in Events |-> IF found[e] >= override[e] THEN 0 ELSE override[e]]
  <2>1. override' \in [Events -> Nat] /\ \A e \in Events : override'[e] \in {0, override[e]}
    BY <1>3 DEF Views, WithinRow
  <2>2. \A e \in Events : override'[e] <= Len(log[e])
    <3>1. \A e \in Events : override[e] <= Len(log[e]) /\ Len(log[e]) \in Nat
      BY DEF Rows, Views, WithinRow
    <3>2. QED
      BY <2>1, <3>1
  <2>3. QED
    BY <1>3, <2>1, <2>2 DEF Views, WithinRow, Shown
<1>4. QED
  BY <1>1, <1>2, <1>3 DEF ListAnswer, CatchUp

LEMMA ReadsAnswered ==
  ASSUME Views, Rows, UNCHANGED log, NEW r, NEW n, Reading(r, n)
  PROVE  Shown(list)' /\ WithinRow(override)'
<1>1. CASE CatchUp(current)
  BY <1>1, CurrentIsShown, ListAnswered
<1>2. CASE UNCHANGED <<list, override>>
  BY <1>2 DEF Views, Shown, WithinRow
<1>3. QED
  BY <1>1, <1>2 DEF Reading

LEMMA Overridden ==
  ASSUME Views, UNCHANGED log, NEW e \in Events, NEW v \in Nat, v <= Len(log[e]),
         override' = [override EXCEPT ![e] = v]
  PROVE  WithinRow(override)'
<1>1. override' \in [Events -> Nat] /\ override'[e] = v
  BY DEF Views, WithinRow
<1>2. \A x \in Events \ {e} : override'[x] = override[x]
  BY DEF Views, WithinRow
<1>3. \A x \in Events : override'[x] <= Len(log[x])
  BY <1>1, <1>2 DEF Views, WithinRow
<1>4. QED
  BY <1>1, <1>3 DEF WithinRow

LEMMA ViewsFollow ==
  ASSUME DEInv, [DENext]_deVars
  PROVE  Views'
<1>1. Rows /\ Views /\ SaveIsOfRow /\ RetryIsOfRow /\ Grown
  BY RowsOnlyGrow DEF DEInv
<1>2. CASE /\ UNCHANGED <<list, override, listRead>>
           /\ UNCHANGED dialog \/ dialog' = <<>>
  <2>1. Shown(list)' /\ WithinRow(override)' /\ (listRead # <<>> => Shown(listRead[1])')
    BY <1>1, <1>2, VersionsStay DEF Views, Shown, WithinRow
  <2>2. dialog' # <<>> => dialog'[1] \in Events /\ dialog'[2] \in 1 .. Len(log'[dialog'[1]])
    BY <1>1, <1>2 DEF Views, Grown
  <2>3. QED
    BY <1>2, <2>1, <2>2 DEF Views, Shown, WithinRow
<1>3. ASSUME UNCHANGED <<log, dialog>>, Shown(list)', WithinRow(override)',
             UNCHANGED listRead \/ listRead' = <<>> \/ listRead' = <<current>>
      PROVE  Views'
  <2>1. listRead' # <<>> => Shown(listRead'[1])
    BY <1>1, <1>3, CurrentIsShown DEF Views
  <2>2. QED
    BY <1>1, <1>3, <2>1 DEF Views, Shown, WithinRow
<1>4. CASE TakeDown
  <2>1. WithinRow(override)'
    BY <1>1, <1>4 DEF TakeDown, serverRows, WithinRow, Rows
  <2>2. QED
    BY <1>1, <1>4, <2>1 DEF TakeDown, serverRows, listVars, Views, Shown, WithinRow
<1>5. CASE BeginListRead
  BY <1>1, <1>3, <1>5
     DEF BeginListRead, serverRows, rowState, pageState, Views, Shown, WithinRow
<1>6. CASE FinishListRead
  <2>1. Shown(listRead[1]) /\ UNCHANGED log
    BY <1>1, <1>6 DEF FinishListRead, serverRows, Views
  <2>2. QED
    BY <1>1, <1>3, <1>6, <2>1, ListAnswered DEF FinishListRead, pageState
<1>7. CASE \E e \in Events : openEdit(e)
  <2>1. PICK e \in Events : openEdit(e)
    BY <1>7
  <2>2. rowVersion(e) \in 1 .. Len(log[e])
    BY <1>1 DEF Rows, Views, Shown, WithinRow, rowVersion
  <2>3. dialog' = <<e, rowVersion(e)>> /\ UNCHANGED <<log, list, listRead, override>>
    BY <2>1 DEF openEdit, serverRows, listVars, rowState
  <2>4. QED
    BY <1>1, <2>2, <2>3 DEF Views, Shown, WithinRow
<1>8. CASE Saved \/ Recovered \/ AfterSaved
  <2>1. PICK v \in Nat : /\ v <= Len(log[The(save.event)])
                         /\ override' = [override EXCEPT ![The(save.event)] = v]
    <3>1. /\ save \in Save /\ save.phase # "idle"
          /\ The(save.event) \in Events /\ Len(log[The(save.event)]) \in Nat
      BY <1>1, <1>8 DEF Saved, Recovered, AfterSaved, SaveIsOfRow, Rows
    <3>2. CASE Saved
      <4>1. save.version \in Nat /\ save.version <= Len(log[The(save.event)])
        BY <1>1, <3>1, <3>2 DEF Saved, SaveIsOfRow, Save
      <4>2. QED
        BY <3>2, <4>1 DEF Saved
    <3>3. CASE Recovered
      <4>1. save.reads.version \in save.base .. Len(log[The(save.event)]) /\ save.base \in Nat
        BY <1>1, <3>1, <3>3 DEF Recovered, Known, SaveIsOfRow, ReadSince, Save
      <4>2. save.reads.version \in Nat /\ save.reads.version <= Len(log[The(save.event)])
        BY <3>1, <4>1
      <4>3. QED
        BY <3>3, <4>2 DEF Recovered
    <3>4. CASE AfterSaved
      <4>1. 0 \in Nat /\ 0 <= Len(log[The(save.event)])
        BY <3>1
      <4>2. QED
        BY <3>4, <4>1 DEF AfterSaved
    <3>5. QED
      BY <1>8, <3>2, <3>3, <3>4
  <2>2. The(save.event) \in Events /\ UNCHANGED <<log, list, listRead, dialog>>
    BY <1>1, <1>8
       DEF Saved, Recovered, AfterSaved, SaveIsOfRow, serverRows, listVars, pageState
  <2>3. WithinRow(override)'
    BY <1>1, <2>1, <2>2, Overridden
  <2>4. QED
    BY <1>1, <1>3, <2>2, <2>3 DEF Views, Shown, WithinRow
<1>9. CASE ReadAfterSave \/ ReadForRetry
  BY <1>1, <1>3, <1>9, ReadsAnswered
     DEF ReadAfterSave, ReadForRetry, serverRows, pageState
<1>10. CASE refreshSchedule
  BY <1>1, <1>3, <1>10, CurrentIsShown, ListAnswered
     DEF refreshSchedule, serverRows, listVars, pageState, Views, Shown, WithinRow
<1>11. CASE recover
  <2>1. /\ UNCHANGED <<log, list, listRead, dialog>>
        /\ \/ UNCHANGED override
           \/ /\ Known(retry.reads) /\ retry.phase # "idle"
              /\ override' = [override EXCEPT ![The(retry.event)] = retry.reads.version]
    BY <1>11 DEF recover, serverRows, listVars
  <2>2. WithinRow(override)'
    <3>1. CASE UNCHANGED override
      BY <1>1, <2>1, <3>1 DEF Views, WithinRow
    <3>2. CASE /\ Known(retry.reads) /\ retry.phase # "idle"
               /\ override' = [override EXCEPT ![The(retry.event)] = retry.reads.version]
      <4>1. /\ The(retry.event) \in Events /\ Len(log[The(retry.event)]) \in Nat
            /\ retry.reads.version \in 1 .. Len(log[The(retry.event)])
        BY <1>1, <3>2 DEF Known, RetryIsOfRow, ReadSince, Rows
      <4>2. retry.reads.version \in Nat /\ retry.reads.version <= Len(log[The(retry.event)])
        BY <4>1
      <4>3. QED
        BY <1>1, <2>1, <3>2, <4>1, <4>2, Overridden
    <3>3. QED
      BY <2>1, <3>1, <3>2
  <2>3. QED
    BY <1>1, <1>3, <2>1, <2>2 DEF Views, Shown, WithinRow
<1>12. CASE recheckAccess
  <2>1. CatchUp(current) \/ UNCHANGED <<list, override>>
    BY <1>12 DEF recheckAccess
  <2>2. Shown(list)' /\ WithinRow(override)'
    BY <1>1, <1>12, <2>1, CurrentIsShown, ListAnswered
       DEF recheckAccess, serverRows, Views, Shown, WithinRow
  <2>3. QED
    BY <1>3, <1>12, <2>2 DEF recheckAccess, serverRows, pageState
<1>13. QED
  BY <1>2, <1>4, <1>5, <1>6, <1>7, <1>8, <1>9, <1>10, <1>11, <1>12
     DEF DENext, deVars, listVars, rowState, pageState, OtherEdit, ChangeRole, RefetchProject,
     Mount, onWorkspaceDenied, begin, clear, finish, closeDialog, submitDialog, ChangeContext,
     ServeSave, LoseSave, Rejected, OutcomeUnknown, Locked, AfterRecovered, retryRecovery

-------------------------------------------------------------------------------
(* The write, from its start to its end.                                   *)
Sent(e, b, t) == [NoSave EXCEPT !.phase = "sent", !.event = {e}, !.time = t, !.base = b]

(* A drop or the dialog starts one for a row it shows, or none.            *)
LEMMA SavesBegin ==
  ASSUME Views, Rows, NEW t \in Times,
         submitDialog(t) \/ (\E e \in Events : finish(e, t))
  PROVE  /\ UNCHANGED <<log, locks, unsure, dropped, blocked>>
         /\ \/ UNCHANGED <<save, feedback>>
            \/ \E e \in Events : \E b \in 1 .. Len(log[e]) :
                 /\ ~blocked /\ ~pendingId /\ e \notin locks /\ log[e][b] # t
                 /\ save' = Sent(e, b, t) /\ feedback' = Say("status", e, t, b)
<1>1. UNCHANGED <<log, locks, unsure, dropped, blocked>>
  BY DEF submitDialog, finish, serverRows, rowState
<1>2. ASSUME NEW e \in Events, NEW b \in 1 .. Len(log[e]), NEW owner,
             Accepted(e, owner), saveChange(e, b, t)
      PROVE  \/ UNCHANGED <<save, feedback>>
             \/ /\ ~blocked /\ ~pendingId /\ e \notin locks /\ log[e][b] # t
                /\ save' = Sent(e, b, t) /\ feedback' = Say("status", e, t, b)
  BY <1>2 DEF Accepted, saveChange, Sent
<1>3. CASE submitDialog(t)
  <2>1. UNCHANGED <<save, feedback>> \/ /\ Accepted(dialog[1], token)
                                        /\ saveChange(dialog[1], dialog[2], t)
    BY <1>3 DEF submitDialog
  <2>2. dialog[1] \in Events /\ dialog[2] \in 1 .. Len(log[dialog[1]])
    BY <1>3 DEF submitDialog, Views
  <2>3. QED
    BY <1>1, <1>2, <2>1, <2>2
<1>4. ASSUME NEW e \in Events, finish(e, t)
      PROVE  \/ UNCHANGED <<save, feedback>>
             \/ \E b \in 1 .. Len(log[e]) :
                  /\ ~blocked /\ ~pendingId /\ e \notin locks /\ log[e][b] # t
                  /\ save' = Sent(e, b, t) /\ feedback' = Say("status", e, t, b)
  <2>1. UNCHANGED <<save, feedback>> \/ (Accepted(e, token) /\ saveChange(e, rowVersion(e), t))
    BY <1>4 DEF finish
  <2>2. rowVersion(e) \in 1 .. Len(log[e])
    BY DEF Rows, Views, Shown, WithinRow, rowVersion
  <2>3. QED
    BY <1>2, <2>1, <2>2
<1>5. QED
  BY <1>1, <1>3, <1>4

LEMMA SaveStays ==
  ASSUME Grown, SaveIsOfRow, UNCHANGED save
  PROVE  SaveIsOfRow'
<1> DEFINE e == The(save.event)
<1>1. CASE save.phase = "idle"
  BY <1>1 DEF SaveIsOfRow
<1>2. CASE save.phase # "idle"
  <2>1. /\ e \in Events /\ save.base \in 1 .. Len(log[e])
        /\ save.answer = "ok" => /\ save.version \in 1 .. Len(log[e])
                                 /\ log[e][save.version] = save.time
        /\ save.reads.latest = "ok" => save.reads.version \in save.base .. Len(log[e])
    BY <1>2 DEF SaveIsOfRow, ReadSince
  <2>2. /\ Len(log[e]) \in Nat /\ Len(log'[e]) \in Nat /\ Len(log[e]) <= Len(log'[e])
        /\ \A v \in 1 .. Len(log[e]) : log'[e][v] = log[e][v]
    BY <2>1 DEF Grown
  <2>3. /\ save.base \in 1 .. Len(log'[e]) /\ log'[e][save.base] = log[e][save.base]
        /\ save.answer = "ok" => /\ save.version \in 1 .. Len(log'[e])
                                 /\ log'[e][save.version] = save.time
        /\ save.reads.latest = "ok" => save.reads.version \in save.base .. Len(log'[e])
    BY <2>1, <2>2
  <2>4. The(save'.event) = e
    OBVIOUS
  <2>5. /\ save \in Save /\ save.event = {e} /\ save.time \in Times
        /\ log[e][save.base] # save.time
        /\ save.answer = "ok" => save.version > save.base
        /\ save.phase \in {"refresh", "refreshed"} /\ save.answer # "ok"
             => save.reads.latest = "ok"
    BY <1>2 DEF SaveIsOfRow
  <2> HIDE DEF e
  <2>6. QED
    BY <1>2, <2>1, <2>3, <2>4, <2>5 DEF SaveIsOfRow, ReadSince
<1>3. QED
  BY <1>1, <1>2

LEMMA NoSaveIsOfRow == ASSUME save' = NoSave PROVE SaveIsOfRow'
<1>1. NoSave \in Save
  BY DEF NoSave, Save, Unread, Reads
<1>2. QED
  BY <1>1 DEF SaveIsOfRow, NoSave

(* The three reads add to what is known.                                   *)
LEMMA ReadsMove ==
  ASSUME Rows, NEW e \in Events, NEW b \in 1 .. Len(log[e]), NEW r \in Reads,
         ReadSince(r, e, b), NEW n \in NextReads(e, r)
  PROVE  n \in Reads /\ ReadSince(n, e, b)
<1>1. Len(log[e]) \in Nat
  BY DEF Rows
<1>2. ASSUME NEW v \in Nat PROVE /\ [r EXCEPT !.latest = "ok", !.version = v] \in Reads
                                 /\ [r EXCEPT !.latest = "ok", !.version = v].version = v
  BY DEF Reads
<1>3. CASE n \in readLatest(e, r)
  <2>1. CASE n = [r EXCEPT !.latest = "ok", !.version = Len(log[e])]
    <3>1. n \in Reads /\ n.version = Len(log[e])
      BY <1>1, <1>2, <2>1
    <3>2. Len(log[e]) \in b .. Len(log[e])
      BY <1>1
    <3>3. QED
      BY <3>1, <3>2 DEF ReadSince
  <2>2. CASE n = [r EXCEPT !.latest = "failed"]
    BY <2>2 DEF Reads, ReadSince
  <2>3. QED
    BY <1>3, <2>1, <2>2 DEF readLatest
<1>4. CASE n \in readFreshRole(r)
  BY <1>4 DEF readFreshRole, Reads, ReadSince
<1>5. CASE n \in refreshActiveTarget(r)
  BY <1>5 DEF refreshActiveTarget, Reads, ReadSince
<1>6. QED
  BY <1>3, <1>4, <1>5 DEF NextReads

(* The phases in which the write only moves on.                            *)
LEMMA SaveMoves ==
  ASSUME DEInv, [DENext]_deVars, save.phase # "idle",
         NEW phase \in {"sent", "answered", "reading", "refresh", "refreshed"},
         NEW answer \in {"none", "400", "403", "409", "lost", save.answer},
         NEW reads \in Reads, ReadSince(reads, The(save.event), save.base),
         phase \in {"refresh", "refreshed"} /\ answer # "ok" => reads.latest = "ok",
         save' = [save EXCEPT !.phase = phase, !.answer = answer, !.reads = reads]
  PROVE  SaveIsOfRow'
<1> DEFINE e == The(save.event)
<1>1. /\ save \in Save /\ e \in Events /\ save.event = {e} /\ save.time \in Times
      /\ save.base \in 1 .. Len(log[e]) /\ log[e][save.base] # save.time
      /\ save.answer = "ok" => /\ save.version \in 1 .. Len(log[e]) /\ save.version > save.base
                               /\ log[e][save.version] = save.time
  BY DEF DEInv, SaveIsOfRow
<1>2. /\ Len(log[e]) \in Nat /\ Len(log'[e]) \in Nat /\ Len(log[e]) <= Len(log'[e])
      /\ \A v \in 1 .. Len(log[e]) : log'[e][v] = log[e][v]
  BY <1>1, RowsOnlyGrow DEF Grown
<1>3. /\ save' \in Save /\ save'.phase = phase /\ save'.answer = answer /\ save'.reads = reads
      /\ save'.event = save.event /\ save'.time = save.time /\ save'.base = save.base
      /\ save'.version = save.version
  BY <1>1 DEF Save
<1>4. /\ save.base \in 1 .. Len(log'[e]) /\ log'[e][save.base] = log[e][save.base]
      /\ answer = "ok" => /\ save.version \in 1 .. Len(log'[e]) /\ save.version > save.base
                          /\ log'[e][save.version] = save.time
      /\ reads.latest = "ok" => reads.version \in save.base .. Len(log'[e])
  BY <1>1, <1>2 DEF ReadSince
<1>5. The(save'.event) = e
  BY <1>3
<1> HIDE DEF e
<1>6. QED
  BY <1>1, <1>3, <1>4, <1>5 DEF SaveIsOfRow, ReadSince

LEMMA ServedSaveIsOfRow ==
  ASSUME DEInv, [DENext]_deVars, ServeSave
  PROVE  SaveIsOfRow'
<1> DEFINE e == The(save.event)
<1>1. /\ save.phase = "sent" /\ save \in Save /\ save.reads \in Reads
      /\ ReadSince(save.reads, e, save.base)
  BY DEF ServeSave, DEInv, SaveIsOfRow, Save
<1>2. ASSUME NEW code \in {"400", "403", "409"},
             save' = [save EXCEPT !.phase = "answered", !.answer = code]
      PROVE  SaveIsOfRow'
  <2>1. save' = [save EXCEPT !.phase = "answered", !.answer = code, !.reads = save.reads]
    BY <1>1, <1>2 DEF Save
  <2>2. QED
    BY <1>1, <1>2, <2>1, SaveMoves
<1>3. ASSUME save.base = Len(log[e]), Store(e, save.time),
             save' = [save EXCEPT !.phase = "answered", !.answer = "ok", !.version = Len(log[e]) + 1]
      PROVE  SaveIsOfRow'
  <2>1. /\ e \in Events /\ save.event = {e} /\ save.time \in Times
        /\ save.base \in 1 .. Len(log[e]) /\ log[e][save.base] # save.time
    BY <1>1 DEF DEInv, SaveIsOfRow
  <2>2. /\ Len(log[e]) \in Nat /\ Len(log'[e]) = Len(log[e]) + 1
        /\ log'[e][Len(log[e]) + 1] = save.time
        /\ log'[e][save.base] = log[e][save.base]
    BY <1>3, <2>1, StoreGrows DEF DEInv, Grown
  <2>3. ASSUME NEW v \in Nat
        PROVE  LET s == [save EXCEPT !.phase = "answered", !.answer = "ok", !.version = v]
               IN  /\ s \in Save /\ s.phase = "answered" /\ s.answer = "ok" /\ s.version = v
                   /\ s.event = save.event /\ s.time = save.time /\ s.base = save.base
                   /\ s.reads = save.reads
    BY <1>1 DEF Save
  <2>4. Len(log[e]) + 1 \in Nat
    BY <2>2
  <2>5. /\ save' \in Save /\ save'.phase = "answered" /\ save'.version = Len(log[e]) + 1
        /\ save'.event = save.event /\ save'.time = save.time /\ save'.base = save.base
        /\ save'.reads = save.reads
    BY <1>3, <2>3, <2>4
  <2>6. /\ save.base \in 1 .. Len(log'[e]) /\ Len(log[e]) + 1 \in 1 .. Len(log'[e])
        /\ Len(log[e]) + 1 > save.base
        /\ save.reads.latest = "ok" => save.reads.version \in save.base .. Len(log'[e])
    BY <1>1, <1>3, <2>1, <2>2 DEF ReadSince
  <2>7. The(save'.event) = e
    BY <2>5
  <2> HIDE DEF e
  <2>8. QED
    BY <2>1, <2>2, <2>5, <2>6, <2>7 DEF SaveIsOfRow, ReadSince
<1>4. QED
  BY <1>2, <1>3 DEF ServeSave

LEMMA SavesFollow ==
  ASSUME DEInv, [DENext]_deVars
  PROVE  SaveIsOfRow'
<1>1. Rows /\ Views /\ SaveIsOfRow /\ Grown
  BY RowsOnlyGrow DEF DEInv
<1>2. CASE UNCHANGED save
  BY <1>1, <1>2, SaveStays
<1>3. CASE save' = NoSave
  BY <1>3, NoSaveIsOfRow
<1>4. ASSUME NEW t \in Times, submitDialog(t) \/ (\E e \in Events : finish(e, t))
      PROVE  SaveIsOfRow'
  <2>1. ASSUME NEW e \in Events, NEW b \in 1 .. Len(log[e]),
               log[e][b] # t, save' = Sent(e, b, t), UNCHANGED log
        PROVE  SaveIsOfRow'
    <3>1. NoSave \in Save /\ b \in Nat
      BY <1>1 DEF NoSave, Save, Reads, Unread, Rows
    <3>2. /\ save' \in Save /\ save'.phase = "sent" /\ save'.event = {e} /\ save'.time = t
          /\ save'.base = b /\ save'.answer = "none" /\ save'.reads.latest = "none"
      BY <2>1, <3>1 DEF Sent, Save, NoSave, Unread
    <3>3. The(save'.event) = e
      BY <3>2, TheOne
    <3>4. QED
      BY <2>1, <3>2, <3>3 DEF SaveIsOfRow, ReadSince
  <2>2. QED
    BY <1>1, <1>2, <1>4, <2>1, SavesBegin
<1>5. ASSUME save.phase # "idle",
             NEW phase \in {"sent", "answered", "reading", "refresh", "refreshed"},
             phase \in {"refresh", "refreshed"} /\ save.answer # "ok" => save.reads.latest = "ok",
             save' = [save EXCEPT !.phase = phase]
      PROVE  SaveIsOfRow'
  <2>1. /\ save.reads \in Reads /\ ReadSince(save.reads, The(save.event), save.base)
        /\ save' = [save EXCEPT !.phase = phase, !.answer = save.answer, !.reads = save.reads]
    BY <1>1, <1>5 DEF SaveIsOfRow, Save
  <2>2. QED
    BY <1>5, <2>1, SaveMoves
<1>6. CASE Saved \/ OutcomeUnknown \/ Recovered \/ refreshSchedule
  <2>1. save.phase \in {"refresh", "refreshed"} /\ save.answer # "ok" => save.reads.latest = "ok"
    BY <1>1 DEF SaveIsOfRow
  <2>2. QED
    BY <1>5, <1>6, <2>1 DEF Saved, OutcomeUnknown, Recovered, Known, refreshSchedule
<1>7. CASE LoseSave
  <2>1. /\ save.phase # "idle" /\ save \in Save
        /\ save.reads \in Reads /\ ReadSince(save.reads, The(save.event), save.base)
    BY <1>1, <1>7 DEF LoseSave, SaveIsOfRow, Save
  <2>2. save' = [save EXCEPT !.phase = "answered", !.answer = "lost", !.reads = save.reads]
    BY <1>7, <2>1 DEF LoseSave, Save
  <2>3. QED
    BY <2>1, <2>2, SaveMoves
<1>8. CASE ReadAfterSave
  <2>1. PICK n \in NextReads(The(save.event), save.reads) : save' = [save EXCEPT !.reads = n]
    BY <1>8 DEF ReadAfterSave
  <2>2. /\ save.phase = "reading" /\ save \in Save /\ save.reads \in Reads
        /\ The(save.event) \in Events /\ save.base \in 1 .. Len(log[The(save.event)])
        /\ ReadSince(save.reads, The(save.event), save.base)
    BY <1>1, <1>8 DEF ReadAfterSave, SaveIsOfRow, Save
  <2>3. n \in Reads /\ ReadSince(n, The(save.event), save.base)
    BY <1>1, <2>1, <2>2, ReadsMove
  <2>4. save' = [save EXCEPT !.phase = save.phase, !.answer = save.answer, !.reads = n]
    BY <2>1, <2>2 DEF Save
  <2>5. QED
    BY <2>2, <2>3, <2>4, SaveMoves
<1>9. CASE ServeSave
  BY <1>9, ServedSaveIsOfRow
<1>10. QED
  BY <1>2, <1>3, <1>4, <1>6, <1>7, <1>8, <1>9
     DEF DENext, deVars, OtherEdit, ChangeRole, RefetchProject, TakeDown, Mount, onWorkspaceDenied,
     BeginListRead, FinishListRead, begin, clear, openEdit, closeDialog, ChangeContext, Rejected,
     Locked, AfterSaved, AfterRecovered, EndSave, retryRecovery, ReadForRetry, recover, recheckAccess

-------------------------------------------------------------------------------
(* The retry of the reads.                                                 *)
LEMMA RetriesFollow ==
  ASSUME DEInv, [DENext]_deVars
  PROVE  RetryIsOfRow'
<1>1. Rows /\ SaveIsOfRow /\ RetryIsOfRow /\ Grown
  BY RowsOnlyGrow DEF DEInv
<1>2. NoRetry \in Retry /\ NoRetry.phase = "idle"
  BY DEF NoRetry, Retry, Reads, Unread
<1>3. ASSUME toRecover' \in {toRecover, <<>>}
             \/ (\E e \in Events, t \in Times \cup {NoTime} : toRecover' = <<e, t>>),
             retry' \in {retry, NoRetry}
      PROVE  RetryIsOfRow'
  <2>1. toRecover' # <<>> => toRecover'[1] \in Events /\ toRecover'[2] \in Times \cup {NoTime}
    BY <1>1, <1>3 DEF RetryIsOfRow
  <2>2. CASE retry' = NoRetry
    BY <1>2, <2>1, <2>2 DEF RetryIsOfRow
  <2>3. CASE retry' = retry /\ retry.phase # "idle"
    <3>1. /\ The(retry.event) \in Events /\ retry.event = {The(retry.event)} /\ retry \in Retry
          /\ retry.reads.latest = "ok"
               => retry.reads.version \in 1 .. Len(log[The(retry.event)])
      BY <1>1, <2>3 DEF RetryIsOfRow, ReadSince
    <3>2. retry.reads.latest = "ok" => retry.reads.version \in 1 .. Len(log'[The(retry.event)])
      BY <1>1, <3>1 DEF Grown
    <3>3. QED
      BY <2>1, <2>3, <3>1, <3>2 DEF RetryIsOfRow, ReadSince
  <2>4. CASE retry' = retry /\ retry.phase = "idle"
    BY <1>1, <2>1, <2>4 DEF RetryIsOfRow
  <2>5. QED
    BY <1>3, <2>2, <2>3, <2>4
<1>4. CASE Rejected \/ Locked \/ AfterRecovered
  <2>1. save.phase # "idle" /\ UNCHANGED retry
    BY <1>4 DEF Rejected, Locked, AfterRecovered
  <2>2. The(save.event) \in Events /\ save.time \in Times \cup {NoTime}
    BY <1>1, <2>1 DEF SaveIsOfRow
  <2>3. toRecover' \in {toRecover, <<>>, <<The(save.event), NoTime>>, <<The(save.event), save.time>>}
    BY <1>4 DEF Rejected, Locked, AfterRecovered
  <2>4. QED
    BY <1>3, <2>1, <2>2, <2>3
<1>5. CASE retryRecovery
  <2>1. /\ toRecover[1] \in Events /\ toRecover[2] \in Times \cup {NoTime}
        /\ UNCHANGED <<log, toRecover>>
    BY <1>1, <1>5 DEF retryRecovery, CanRetry, RetryIsOfRow, serverRows, pageState
  <2>2. /\ retry' \in Retry /\ retry'.event = {toRecover[1]} /\ retry'.reads.latest = "none"
    BY <1>2, <1>5, <2>1 DEF retryRecovery, Retry, NoRetry, Unread
  <2>3. The(retry'.event) = toRecover[1]
    BY <2>2, TheOne
  <2>4. QED
    BY <1>1, <2>1, <2>2, <2>3 DEF RetryIsOfRow, ReadSince
<1>6. CASE ReadForRetry
  <2>1. PICK n \in NextReads(The(retry.event), retry.reads) : retry' = [retry EXCEPT !.reads = n]
    BY <1>6 DEF ReadForRetry
  <2>2. /\ The(retry.event) \in Events /\ retry.event = {The(retry.event)} /\ retry \in Retry
        /\ ReadSince(retry.reads, The(retry.event), 1) /\ retry.reads \in Reads
        /\ UNCHANGED <<log, toRecover>>
    BY <1>1, <1>6 DEF ReadForRetry, RetryIsOfRow, Retry, serverRows, pageState
  <2>3. 1 \in 1 .. Len(log[The(retry.event)])
    BY <1>1, <2>2 DEF Rows
  <2>4. n \in Reads /\ ReadSince(n, The(retry.event), 1)
    BY <1>1, <2>1, <2>2, <2>3, ReadsMove
  <2>5. retry' \in Retry /\ retry'.event = retry.event /\ retry'.reads = n
    BY <2>1, <2>2, <2>4 DEF Retry
  <2>6. QED
    BY <1>1, <2>2, <2>4, <2>5 DEF RetryIsOfRow, ReadSince
<1>7. CASE recover \/ TakeDown \/ Mount
  BY <1>3, <1>7 DEF recover, TakeDown, Mount, pageState
<1>8. QED
  BY <1>3, <1>4, <1>5, <1>6, <1>7
     DEF DENext, deVars, pageState, OtherEdit, ChangeRole, RefetchProject, onWorkspaceDenied,
     BeginListRead, FinishListRead, begin, clear, finish, openEdit, closeDialog, submitDialog,
     ChangeContext, ServeSave, LoseSave, Saved, OutcomeUnknown, ReadAfterSave, Recovered,
     refreshSchedule, AfterSaved, recheckAccess

-------------------------------------------------------------------------------
(* The rows whose last write has an unknown outcome.                       *)
LEMMA UnsureFollows ==
  ASSUME DEInv, [DENext]_deVars
  PROVE  UnsureIsLocked'
<1>1. Rows /\ Views /\ SaveIsOfRow /\ RetryIsOfRow /\ UnsureIsLocked
  BY DEF DEInv
<1>2. ASSUME ~blocked' => ~blocked, locks \subseteq locks', unsure' \subseteq unsure,
             KnownUnsure' \subseteq KnownUnsure,
             \/ save' = NoSave /\ save.phase # "reading"
             \/ /\ save'.event = save.event
                /\ save'.phase # "reading" => save.phase # "reading" \/ KnownUnsure' \cap save.event = {}
      PROVE  UnsureIsLocked'
  <2>1. CASE save' = NoSave /\ save.phase # "reading"
    BY <1>1, <1>2, <2>1 DEF UnsureIsLocked, NoSave
  <2>2. CASE /\ save'.event = save.event
             /\ save'.phase # "reading" => save.phase # "reading" \/ KnownUnsure' \cap save.event = {}
    BY <1>1, <1>2, <2>2 DEF UnsureIsLocked
  <2>3. QED
    BY <1>2, <2>1, <2>2
<1>3. ASSUME NEW t \in Times, submitDialog(t) \/ (\E e \in Events : finish(e, t))
      PROVE  UnsureIsLocked'
  <2>1. UNCHANGED <<locks, unsure, blocked, KnownUnsure>>
    BY <1>1, <1>3, SavesBegin DEF KnownUnsure
  <2>2. CASE UNCHANGED save
    BY <1>1, <2>1, <2>2 DEF UnsureIsLocked
  <2>3. ASSUME NEW e \in Events, NEW b, ~blocked, ~pendingId, e \notin locks, save' = Sent(e, b, t)
        PROVE  UnsureIsLocked'
    <3>1. save.event = {} /\ KnownUnsure \subseteq locks
      BY <1>1, <2>3 DEF pendingId, SaveIsOfRow, UnsureIsLocked
    <3>2. save'.event = {e}
      BY <2>3 DEF Sent, NoSave
    <3>3. QED
      BY <1>1, <2>1, <2>3, <3>1, <3>2 DEF UnsureIsLocked
  <2>4. QED
    BY <1>1, <1>3, <2>2, <2>3, SavesBegin
<1>4. CASE TakeDown \/ Mount
  <2>1. CASE TakeDown
    <3>1. /\ KnownUnsure' = {} /\ (save.phase # "idle" => save.event \subseteq Events)
          /\ unsure' \in {unsure, unsure \cup save.event} /\ save' = NoSave
      BY <1>1, <2>1 DEF TakeDown, unanswered, KnownUnsure, SaveIsOfRow
    <3>2. unsure' \subseteq Events
      BY <1>1, <3>1 DEF SaveIsOfRow, UnsureIsLocked
    <3>3. QED
      BY <3>1, <3>2 DEF UnsureIsLocked, NoSave
  <2>2. CASE Mount
    <3>1. save = NoSave /\ KnownUnsure = {} /\ KnownUnsure' = KnownUnsure
      BY <2>2 DEF DEInv, DownIsQuiet, Mount, KnownUnsure
    <3>2. QED
      BY <1>1, <2>2, <3>1 DEF Mount, UnsureIsLocked, NoSave
  <2>3. QED
    BY <1>4, <2>1, <2>2
<1>5. CASE ServeSave \/ LoseSave \/ Saved \/ ReadAfterSave \/ refreshSchedule
  <2>1. /\ save'.event = save.event /\ (save'.phase # "reading" => save.phase # "reading")
        /\ UNCHANGED <<locks, unsure, KnownUnsure>> /\ (~blocked' => ~blocked)
    BY <1>1, <1>5 DEF KnownUnsure, ServeSave, LoseSave, Saved, ReadAfterSave, refreshSchedule,
       ListAnswer, SaveIsOfRow, Save, rowState
  <2>2. QED
    BY <1>2, <2>1
<1>6. CASE OutcomeUnknown
  <2>1. /\ save'.event = save.event /\ save'.phase = "reading"
        /\ unsure' = unsure \cup save.event /\ UNCHANGED <<locks, blocked>>
        /\ KnownUnsure' = KnownUnsure \cup save.event /\ save.event \subseteq Events
    BY <1>1, <1>6 DEF KnownUnsure, OutcomeUnknown, SaveIsOfRow, Save
  <2>2. QED
    BY <1>1, <2>1 DEF UnsureIsLocked
<1>7. CASE Recovered
  <2>1. /\ save'.event = save.event /\ unsure' = unsure \ save.event
        /\ KnownUnsure' = KnownUnsure \ save.event /\ UNCHANGED <<locks, blocked>>
    BY <1>1, <1>7 DEF KnownUnsure, Recovered, Known, Ascertain, Read, SaveIsOfRow, Save
  <2>2. QED
    BY <1>2, <2>1
<1>8. CASE Rejected \/ AfterSaved
  <2>1. UNCHANGED KnownUnsure
    BY <1>8 DEF Rejected, AfterSaved, KnownUnsure
  <2>2. QED
    BY <1>2, <1>8, <2>1 DEF Rejected, AfterSaved, EndSave
<1>9. CASE Locked
  <2>1. /\ save' = NoSave /\ UNCHANGED <<unsure, KnownUnsure>>
        /\ \/ blocked' = TRUE
           \/ locks' = locks \cup save.event /\ UNCHANGED blocked
    BY <1>9 DEF KnownUnsure, Locked, EndSave
  <2>2. QED
    BY <1>1, <2>1 DEF UnsureIsLocked, NoSave
<1>10. CASE AfterRecovered
  <2>1. /\ save.phase = "refreshed" /\ save' = NoSave /\ UNCHANGED <<unsure, KnownUnsure, blocked>>
        /\ locks \ {The(save.event)} \subseteq locks'
    BY <1>10 DEF KnownUnsure, AfterRecovered, EndSave
  <2>2. save.event = {The(save.event)} /\ save.event \cap KnownUnsure = {}
    BY <1>1, <2>1 DEF SaveIsOfRow, UnsureIsLocked
  <2>3. QED
    BY <1>1, <2>1, <2>2 DEF UnsureIsLocked, NoSave
<1>11. CASE recover
  <2>1. UNCHANGED save
    BY <1>11 DEF recover
  <2>2. CASE blocked' = TRUE /\ UNCHANGED <<unsure, KnownUnsure>>
    BY <1>1, <2>1, <2>2 DEF UnsureIsLocked
  <2>3. CASE /\ unsure' \subseteq unsure /\ KnownUnsure' = KnownUnsure \ retry.event
             /\ locks \ retry.event \subseteq locks'
             /\ UNCHANGED blocked
    BY <1>1, <2>1, <2>3 DEF UnsureIsLocked
  <2>4. CASE UNCHANGED <<unsure, KnownUnsure, locks, blocked>>
    BY <1>1, <2>1, <2>4 DEF UnsureIsLocked
  <2>5. QED
    BY <1>11, <2>2, <2>3, <2>4 DEF KnownUnsure, recover, Known, Ascertain, Read
<1>12. CASE recheckAccess
  <2>1. /\ UNCHANGED <<save, locks>>
        /\ (unsure' = unsure \ Events \/ UNCHANGED <<unsure, dropped, blocked>>)
    BY <1>12 DEF recheckAccess, Read
  <2>2. QED
    BY <1>1, <2>1 DEF UnsureIsLocked, KnownUnsure
<1>13. CASE retryRecovery \/ onWorkspaceDenied \/ FinishListRead
  <2>1. /\ UNCHANGED <<save, unsure, dropped>> /\ locks \subseteq locks' /\ (~blocked' => ~blocked)
    <3>1. CASE retryRecovery
      BY <3>1 DEF retryRecovery
    <3>2. CASE onWorkspaceDenied
      BY <3>2 DEF onWorkspaceDenied
    <3>3. CASE FinishListRead
      <4>1. blocked' = blocked \/ blocked' = TRUE
        BY <3>3 DEF FinishListRead, ListAnswer
      <4>2. UNCHANGED <<save, unsure, dropped, locks>>
        BY <3>3 DEF FinishListRead
      <4>3. QED
        BY <4>1, <4>2
    <3>4. QED
      BY <1>13, <3>1, <3>2, <3>3
  <2>2. QED
    BY <1>1, <2>1 DEF UnsureIsLocked, KnownUnsure
<1>14. CASE UNCHANGED <<save, unsure, dropped, locks, blocked>>
  BY <1>1, <1>14 DEF UnsureIsLocked, KnownUnsure
<1>15. QED
  BY <1>3, <1>4, <1>5, <1>6, <1>7, <1>8, <1>9, <1>10, <1>11, <1>12, <1>13, <1>14
     DEF DENext, deVars, rowState, OtherEdit, ChangeRole, RefetchProject, BeginListRead, begin,
     clear, openEdit, closeDialog, ChangeContext, ReadForRetry

-------------------------------------------------------------------------------
(* No calendar, no write, dialog or unknown outcome of its own.            *)
LEMMA DownFollows ==
  ASSUME DEInv, [DENext]_deVars
  PROVE  DownIsQuiet'
<1>1. CASE TakeDown
  BY <1>1 DEF TakeDown, DownIsQuiet, KnownUnsure
<1>2. CASE Mount
  BY <1>2 DEF Mount, DownIsQuiet
<1>3. ASSUME ~mounted, UNCHANGED <<dialog, save>>,
             UNCHANGED <<unsure, dropped>> \/ (\E S : Read(S))
      PROVE  DownIsQuiet'
  BY <1>3 DEF DEInv, DownIsQuiet, KnownUnsure, Read
<1>4. CASE UNCHANGED mounted
  <2>1. CASE mounted
    BY <1>4, <2>1 DEF DownIsQuiet
  <2>2. CASE ~mounted
    <3>1. ~visible /\ dialog = <<>> /\ save.phase = "idle"
      BY <2>2 DEF visible, DEInv, DownIsQuiet, NoSave
    <3>2. UNCHANGED <<dialog, save>>
      BY <1>1, <2>2, <3>1
         DEF DENext, deVars, pageState, OtherEdit, ChangeRole, RefetchProject, TakeDown, Mount,
         onWorkspaceDenied, BeginListRead, FinishListRead, begin, clear, finish, openEdit,
         closeDialog, submitDialog, ChangeContext, ServeSave, LoseSave, Saved, Rejected,
         OutcomeUnknown, ReadAfterSave, Locked, Recovered, refreshSchedule, AfterSaved,
         AfterRecovered, retryRecovery, CanRetry, ReadForRetry, recover, recheckAccess
    <3>3. UNCHANGED <<unsure, dropped>> \/ (\E S : Read(S))
      BY <1>4, <2>2, <3>1
         DEF DENext, deVars, rowState, OtherEdit, ChangeRole, RefetchProject, TakeDown, Mount,
         onWorkspaceDenied, BeginListRead, FinishListRead, begin, clear, finish, openEdit,
         closeDialog, submitDialog, ChangeContext, ServeSave, LoseSave, Saved, Rejected,
         OutcomeUnknown, ReadAfterSave, Locked, Recovered, refreshSchedule, AfterSaved,
         AfterRecovered, retryRecovery, ReadForRetry, recover, Ascertain, recheckAccess
    <3>4. QED
      BY <1>3, <2>2, <3>2, <3>3
  <2>3. QED
    BY <2>1, <2>2
<1>5. QED
  <2>1. UNCHANGED mounted \/ TakeDown \/ Mount
    BY DEF DENext, deVars, knowledge, Learn, Reading, OtherEdit, ChangeRole, RefetchProject,
       onWorkspaceDenied, BeginListRead, FinishListRead, begin, clear, finish, openEdit,
       closeDialog, submitDialog, ChangeContext, ServeSave, LoseSave, Saved, Rejected,
       OutcomeUnknown, ReadAfterSave, Locked, Recovered, refreshSchedule, AfterSaved,
       AfterRecovered, retryRecovery, ReadForRetry, recover, recheckAccess
  <2>2. QED
    BY <1>1, <1>2, <1>4, <2>1

-------------------------------------------------------------------------------
(* What the page says of the last write.                                   *)
LEMMA SuccessFollows ==
  ASSUME DEInv, [DENext]_deVars
  PROVE  SuccessHolds'
<1>1. Rows /\ Views /\ SaveIsOfRow /\ SuccessHolds /\ Grown
  BY RowsOnlyGrow DEF DEInv
<1>2. CASE feedback'.kind # "success"
  BY <1>2 DEF SuccessHolds
<1>3. CASE UNCHANGED feedback
  <2>1. ASSUME feedback.kind = "success"
        PROVE  \E v \in 1 .. Len(log'[The(feedback.event)]) :
                 v > feedback.base /\ log'[The(feedback.event)][v] = feedback.time
    BY <1>1, <2>1 DEF SuccessHolds, SuccessIsTrue, Grown
  <2>2. The(feedback'.event) = The(feedback.event)
    BY <1>3
  <2>3. QED
    BY <1>1, <1>3, <2>1, <2>2 DEF SuccessHolds, SuccessIsTrue
<1>4. ASSUME save.phase # "idle", UNCHANGED log,
             NEW v \in 1 .. Len(log[The(save.event)]), v > save.base,
             log[The(save.event)][v] = save.time,
             feedback' = Say("success", The(save.event), save.time, save.base)
      PROVE  SuccessHolds'
  <2>1. /\ feedback'.event = {The(save.event)} /\ feedback'.time = save.time
        /\ feedback'.base = save.base /\ The(save.event) \in Events
    BY <1>1, <1>4 DEF Say, SaveIsOfRow
  <2>2. The(feedback'.event) = The(save.event)
    BY <2>1, TheOne
  <2>3. QED
    BY <1>4, <2>1, <2>2 DEF SuccessHolds, SuccessIsTrue
<1>5. CASE AfterSaved
  BY <1>1, <1>4, <1>5 DEF AfterSaved, SaveIsOfRow, serverRows
<1>6. CASE AfterRecovered
  <2>1. /\ save.phase = "refreshed" /\ save.answer # "ok" /\ UNCHANGED log
        /\ \/ feedback' = Say("error", The(save.event), save.time, save.base)
           \/ /\ committed
              /\ feedback' = Say("success", The(save.event), save.time, save.base)
    BY <1>6 DEF AfterRecovered, serverRows
  <2>2. CASE feedback' = Say("error", The(save.event), save.time, save.base)
    BY <1>2, <2>2 DEF Say
  <2>3. CASE /\ committed
             /\ feedback' = Say("success", The(save.event), save.time, save.base)
    <3>1. /\ The(save.event) \in Events /\ log[The(save.event)][save.base] # save.time
          /\ save.base \in 1 .. Len(log[The(save.event)])
          /\ save.reads.version \in save.base .. Len(log[The(save.event)])
      BY <1>1, <2>1 DEF SaveIsOfRow, ReadSince
    <3>2. log[The(save.event)][save.reads.version] = save.time
      BY <2>3 DEF committed
    <3>3. Len(log[The(save.event)]) \in Nat
      BY <1>1, <3>1 DEF Rows
    <3>4. /\ save.reads.version \in 1 .. Len(log[The(save.event)])
          /\ save.reads.version > save.base
      BY <3>1, <3>2, <3>3
    <3>5. QED
      BY <1>4, <2>1, <2>3, <3>2, <3>4
  <2>4. QED
    BY <2>1, <2>2, <2>3
<1>7. CASE Rejected \/ Locked \/ recover \/ TakeDown \/ (\E e \in Events : openEdit(e))
  <2>1. feedback'.kind \in {"none", "error"}
    BY <1>7 DEF Rejected, Locked, recover, TakeDown, openEdit, Say, Silent
  <2>2. QED
    BY <1>2, <2>1
<1>8. ASSUME NEW t \in Times, submitDialog(t) \/ (\E e \in Events : finish(e, t))
      PROVE  SuccessHolds'
  <2>1. UNCHANGED feedback \/ feedback'.kind = "status"
    BY <1>1, <1>8, SavesBegin DEF Say
  <2>2. QED
    BY <1>2, <1>3, <2>1
<1>9. QED
  BY <1>3, <1>5, <1>6, <1>7, <1>8
     DEF DENext, deVars, pageState, OtherEdit, ChangeRole, RefetchProject, Mount, onWorkspaceDenied,
     BeginListRead, FinishListRead, begin, clear, closeDialog, ChangeContext, ServeSave, LoseSave,
     Saved, OutcomeUnknown, ReadAfterSave, Recovered, refreshSchedule, retryRecovery, ReadForRetry,
     recheckAccess

LEMMA DirectEditInvariance == DESpec => []DEInv
<1>1. ASSUME DEInit PROVE DEInv
  <2>1. Rows
    BY <1>1, DirectEditConstants DEF DEInit, Rows
  <2>2. Views
    BY <1>1, <2>1 DEF DEInit, Views, Shown, WithinRow
  <2>3. SaveIsOfRow
    <3>1. NoSave \in Save
      BY DEF NoSave, Save, Unread, Reads
    <3>2. QED
      BY <1>1, <3>1 DEF DEInit, SaveIsOfRow, NoSave
  <2>4. RetryIsOfRow
    <3>1. NoRetry \in Retry
      BY DEF NoRetry, Retry, Unread, Reads
    <3>2. QED
      BY <1>1, <3>1 DEF DEInit, RetryIsOfRow, NoRetry
  <2>5. UnsureIsLocked /\ DownIsQuiet /\ SuccessHolds
    BY <1>1 DEF DEInit, UnsureIsLocked, DownIsQuiet, KnownUnsure, SuccessHolds, Silent
  <2>6. QED
    BY <2>1, <2>2, <2>3, <2>4, <2>5 DEF DEInv
<1>2. ASSUME DEInv, [DENext]_deVars PROVE DEInv'
  BY <1>2, RowsOnlyGrow, ViewsFollow, SavesFollow, RetriesFollow, UnsureFollows, DownFollows,
     SuccessFollows
     DEF DEInv, Grown
<1>3. QED
  BY <1>1, <1>2, PTL DEF DESpec

(* "Saved" is said of a time that the server stored over the version the   *)
(* change was made from, even when the answer was lost and a read decided  *)
(* (executeScheduleTimeMutation).                                          *)
THEOREM SuccessWasStored == DESpec => []SuccessIsTrue
<1>1. DEInv => SuccessIsTrue
  BY DEF DEInv, SuccessHolds, SuccessIsTrue
<1>2. QED
  BY <1>1, DirectEditInvariance, PTL

(* A row whose last write has an unknown outcome takes no other write from *)
(* the same calendar: its lock, the write itself or the block of the       *)
(* workspace is in the way until both reads succeeded (lockedIds and       *)
(* workspaceBlocked). Only what a calendar that was taken down left behind *)
(* is without a lock, since lockedIds went with it.                        *)
THEOREM UnknownOutcomesAreReadFirst == DESpec => NoWriteOnAnUnknownOutcome
<1>1. ASSUME DEInv, [DENext]_deVars, ~pendingId, pendingId'
      PROVE  save'.event \cap unsure \subseteq dropped
  <2>1. save.phase = "idle" /\ save'.phase # "idle"
    BY <1>1 DEF pendingId
  <2>2. PICK t \in Times : submitDialog(t) \/ (\E e \in Events : finish(e, t))
    BY <1>1, <2>1 DEF DENext, deVars, NoSave, OtherEdit, ChangeRole, RefetchProject, TakeDown, Mount,
       onWorkspaceDenied, BeginListRead, FinishListRead, begin, clear, openEdit, closeDialog,
       ChangeContext, ServeSave, LoseSave, Saved, Rejected, OutcomeUnknown, ReadAfterSave, Locked,
       Recovered, refreshSchedule, AfterSaved, AfterRecovered, retryRecovery, ReadForRetry, recover,
       recheckAccess
  <2>3. PICK e \in Events :
          ~blocked /\ e \notin locks /\ (\E b \in 1 .. Len(log[e]) : save' = Sent(e, b, t))
    BY <1>1, <2>1, <2>2, SavesBegin DEF DEInv
  <2>4. save'.event = {e} /\ KnownUnsure \subseteq locks
    BY <1>1, <2>1, <2>3 DEF Sent, NoSave, DEInv, SaveIsOfRow, UnsureIsLocked
  <2>5. QED
    BY <2>3, <2>4 DEF KnownUnsure
<1>2. QED
  BY <1>1, DirectEditInvariance, PTL DEF DESpec, NoWriteOnAnUnknownOutcome
===============================================================================
