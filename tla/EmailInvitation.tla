---------------------------- MODULE EmailInvitation ----------------------------
(***************************************************************************)
(* The page of an e-mail invitation (Invite of screens/Account.tsx): the   *)
(* invitation read under one access key, answered under another, and the   *)
(* recovery that follows a refusal of either. The answers are those of     *)
(* InvitationService; another page of the caller may answer first, the     *)
(* invitation may run out, and a refusal may come at any time.             *)
(* A read that was cancelled is still answered: its denial counts, its     *)
(* value does not.                                                         *)
(* The model is of one visit: what becomes of the query and of a read of   *)
(* it once the page is left, and for how long the query is then taken to   *)
(* be fresh (15 seconds), is outside.                                      *)
(***************************************************************************)
EXTENDS AccessRecovery, FiniteSets

CONSTANTS
  Looks,        \* identities of reads
  MaxRefusals   \* bound on the denials of one key

ASSUME EmailInvitationConstants == IsFiniteSet(Looks) /\ MaxRefusals \in Nat

VARIABLES
  inviteLive,   \* the session is active
  invitation,   \* server: its status
  invited,      \* the query: [status, value]
  looks,        \* Looks -> read
  resolution,   \* the mutation: what it waits for
  refusal,      \* the mutation has failed with an access error
  readKey, writeKey,   \* denial records
  resolved      \* history: the page was told that its answer was taken

inviteVars == <<inviteLive, invitation, invited, looks, resolution, refusal,
                readKey, writeKey, resolved>>

NoInviteRead == [phase |-> "idle", wanted |-> FALSE, recovers |-> FALSE, revision |-> 0,
                 answer |-> "none", value |-> "none"]
idleLooks == {f \in Looks : looks[f].phase = "idle"}
inviteFetching == \E f \in Looks : looks[f].wanted
inviteDenied == readKey.denied \/ writeKey.denied
inviteBlocked == inviteDenied \/ refusal
resolvePending == resolution # "idle"
answerOffered ==
  /\ inviteLive /\ ~inviteBlocked /\ ~resolvePending
  /\ invited.value = "PENDING"

InviteInit ==
  /\ inviteLive = TRUE /\ invitation = "PENDING"
  /\ invited = [status |-> "pending", value |-> "none"]
  /\ looks = [f \in Looks |-> NoInviteRead]
  /\ resolution = "idle" /\ refusal = FALSE
  /\ readKey = resetAccessState /\ writeKey = resetAccessState
  /\ resolved = FALSE

-------------------------------------------------------------------------------
(* Mutant: the answer does not cancel the read under way.                  *)
NotDropped == looks

(* A read under way that is wanted no more.                                *)
Dropped == [f \in Looks |-> IF looks[f].wanted
                            THEN [looks[f] EXCEPT !.wanted = FALSE, !.recovers = FALSE]
                            ELSE looks[f]]

LookUp(all, recovers) ==
  \E f \in idleLooks :
    looks' = [all EXCEPT ![f] = [NoInviteRead EXCEPT
      !.phase = "sent", !.wanted = TRUE, !.recovers = recovers, !.revision = beginAccessRead(readKey)]]

(* The first read, the window regaining the focus, and QueryState's retry. *)
ReadInvitation ==
  /\ inviteLive /\ ~inviteFetching /\ LookUp(looks, FALSE)
  /\ UNCHANGED <<inviteLive, invitation, invited, resolution, refusal, readKey, writeKey, resolved>>

ServeInvitation(f) ==
  /\ looks[f].phase = "sent"
  /\ \E answer \in {"ok", "403", "lost"} :
       looks' = [looks EXCEPT ![f].phase = "answered", ![f].answer = answer, ![f].value = invitation]
  /\ UNCHANGED <<inviteLive, invitation, invited, resolution, refusal, readKey, writeKey, resolved>>

(* accessRead, the query, and recover when it is its read: success clears  *)
(* both keys and the failed answer. An answer that waits for the read of   *)
(* its invalidation goes on.                                               *)
ReceiveInvitation(f) ==
  /\ inviteLive /\ looks[f].phase = "answered"
  /\ looks[f].answer = "403" => readKey.version < MaxRefusals
  /\ LET ok == looks[f].answer = "ok"
         recovered == looks[f].recovers /\ ok
         a == accessRead(readKey, looks[f].revision, looks[f].answer)
     IN /\ readKey' = IF recovered THEN clearAccessDenial(a) ELSE a
        /\ writeKey' = IF recovered THEN clearAccessDenial(writeKey) ELSE writeKey
        /\ refusal' = (refusal /\ ~recovered)
        /\ invited' = CASE ~looks[f].wanted -> invited
                        [] looks[f].wanted /\ ok -> [status |-> "success", value |-> looks[f].value]
                        [] OTHER -> [invited EXCEPT !.status = "error"]
        /\ resolution' = IF resolution = "settling" /\ looks[f].wanted THEN "idle" ELSE resolution
  /\ looks' = [looks EXCEPT ![f] = NoInviteRead]
  /\ UNCHANGED <<inviteLive, invitation, resolved>>

(* The effect of the page: a denied read ends with a newer one.            *)
ClearReadDenial ==
  /\ inviteLive /\ invited.status = "success" /\ ~inviteFetching /\ accessReadCanClear(readKey)
  /\ readKey' = clearAccessDenial(readKey)
  /\ UNCHANGED <<inviteLive, invitation, invited, looks, resolution, refusal, writeKey, resolved>>

(* recover, once the page is blocked.                                      *)
RecoverInvitation ==
  /\ inviteLive /\ inviteBlocked /\ ~inviteFetching /\ LookUp(looks, TRUE)
  /\ UNCHANGED <<inviteLive, invitation, invited, resolution, refusal, readKey, writeKey, resolved>>

-------------------------------------------------------------------------------
BeginResolve ==
  /\ answerOffered
  /\ resolution' = "sent" /\ refusal' = FALSE
  /\ UNCHANGED <<inviteLive, invitation, invited, looks, readKey, writeKey, resolved>>

ServeResolve ==
  /\ resolution = "sent"
  /\ \/ /\ invitation = "PENDING" /\ invitation' \in {"ACCEPTED", "REJECTED"}
        /\ resolution' \in {"ok", "lost"}
     \/ /\ resolution' \in {"403", "lost"} \cup (IF invitation = "PENDING" THEN {} ELSE {"409"})
        /\ UNCHANGED invitation
  /\ UNCHANGED <<inviteLive, invited, looks, refusal, readKey, writeKey, resolved>>

ResolveFails ==
  /\ inviteLive /\ resolution \in {"403", "409", "lost"}
  /\ resolution = "403" => writeKey.version < MaxRefusals
  /\ resolution' = "idle"
  /\ refusal' = isAccessError(resolution)
  /\ writeKey' = IF isAccessError(resolution) THEN recordAccessDenial(writeKey) ELSE writeKey
  /\ UNCHANGED <<inviteLive, invitation, invited, looks, readKey, resolved>>

(* onSuccess puts the answer into the query and reads it again, in one go: *)
(* a read that was under way is cancelled with that.                       *)
ResolveSucceeds ==
  /\ inviteLive /\ resolution = "ok"
  /\ resolution' = "settling" /\ resolved' = TRUE
  /\ invited' = [status |-> "success", value |-> invitation]
  /\ LookUp(Dropped, FALSE)
  /\ UNCHANGED <<inviteLive, invitation, refusal, readKey, writeKey>>

-------------------------------------------------------------------------------
(* Another page of the caller answers, or the time is over.                *)
InvitationChanges ==
  /\ invitation = "PENDING" /\ invitation' \in {"ACCEPTED", "REJECTED", "EXPIRED"}
  /\ UNCHANGED <<inviteLive, invited, looks, resolution, refusal, readKey, writeKey, resolved>>

EndInviteSession ==
  /\ inviteLive /\ inviteLive' = FALSE
  /\ invited' = [status |-> "pending", value |-> "none"]
  /\ looks' = [f \in Looks |-> NoInviteRead]
  /\ UNCHANGED <<invitation, resolution, refusal, readKey, writeKey, resolved>>

InviteNext ==
  \/ ReadInvitation \/ ClearReadDenial \/ RecoverInvitation
  \/ BeginResolve \/ ServeResolve \/ ResolveFails \/ ResolveSucceeds
  \/ InvitationChanges \/ EndInviteSession
  \/ \E f \in Looks : ServeInvitation(f) \/ ReceiveInvitation(f)

InviteSpec == InviteInit /\ [][InviteNext]_inviteVars
-------------------------------------------------------------------------------
(* An invitation the page has answered is never offered for an answer      *)
(* again: a read that was under way may still find it pending, and a       *)
(* recovery may follow, but neither brings the two buttons back.           *)
AnsweredInvitationIsNotOffered == resolved => ~answerOffered
===============================================================================
