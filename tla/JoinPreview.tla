------------------------------ MODULE JoinPreview ------------------------------
(***************************************************************************)
(* The page of a share link (JoinPreview of screens/Account.tsx): what it  *)
(* shows of the invitation, the join, and the look at the invitation after *)
(* a join met a 409. Meanwhile the link is revoked, replaced or runs out,  *)
(* the window regains the focus and reads fail.                            *)
(* The server's preview and join are those of ProjectShareInvitationService.*)
(* The query of TanStack is external: its status, its value and the read   *)
(* it waits for; reading again cancels a read that is under way.           *)
(* The model is of one visit: the conflict is the page's own, and a caller *)
(* who leaves and comes back is first shown the preview the query kept.    *)
(***************************************************************************)
EXTENDS Naturals

VARIABLES
  joinLive,            \* the session is active
  link,                \* server: what became of the code
  over,                \* the time of the invitation is over
  member,              \* server: the caller is a member of the project
  noticed,             \* now: the page has seen that the time is over
  preview,             \* the query: [status, state, member]
  look,                \* the read it waits for
  joinCall,            \* the mutation: idle, sent, an answer, or what it awaits
  joinConflict, conflictReadFailed,
  looked               \* history: a read begun after the last 409 succeeded

joinVars == <<joinLive, link, over, member, noticed, preview, look, joinCall,
              joinConflict, conflictReadFailed, looked>>
linkVars == <<link, over, member>>
conflictVars == <<joinConflict, conflictReadFailed>>

NoLook == [phase |-> "idle", since |-> FALSE, state |-> "none", member |-> FALSE]
NewLook == [NoLook EXCEPT !.phase = "sent", !.since = TRUE]
looking == look.phase # "idle"

active == ~joinConflict /\ preview.state = "ACTIVE" /\ ~noticed
joinPending == joinCall # "idle"
joinOffered ==
  joinLive /\ preview.status = "success" /\ active /\ ~preview.member /\ ~joinPending

JoinInit ==
  /\ joinLive = TRUE /\ link = "usable" /\ over \in BOOLEAN /\ member \in BOOLEAN
  /\ noticed = over
  /\ preview = [status |-> "pending", state |-> "none", member |-> FALSE]
  /\ look = NewLook
  /\ joinCall = "idle" /\ joinConflict = FALSE /\ conflictReadFailed = FALSE
  /\ looked = TRUE

-------------------------------------------------------------------------------
(* The link and its project change; nothing makes a code usable again.     *)
LinkChanges ==
  /\ \/ link = "usable" /\ link' \in {"revoked", "replaced"} /\ UNCHANGED <<over, member>>
     \/ ~over /\ over' = TRUE /\ UNCHANGED <<link, member>>
     \/ member' = ~member /\ UNCHANGED <<link, over>>
  /\ UNCHANGED <<joinLive, noticed, preview, look, joinCall, conflictVars, looked>>

Refused == link # "usable" \/ over

(* The timer of the page, which a long wait never gets.                    *)
ExpiryTimer ==
  /\ preview.state = "ACTIVE" /\ over /\ ~noticed
  /\ noticed' = TRUE
  /\ UNCHANGED <<joinLive, linkVars, preview, look, joinCall, conflictVars, looked>>

-------------------------------------------------------------------------------
(* The window is looked at again, or the reader retries a failed read.     *)
LookAgain ==
  /\ joinLive /\ ~looking
  /\ look' = NewLook
  /\ UNCHANGED <<joinLive, linkVars, noticed, preview, joinCall, conflictVars, looked>>

ServeLook ==
  /\ look.phase = "sent"
  /\ \E lost \in BOOLEAN :
       look' = [look EXCEPT
         !.phase = IF lost \/ link = "replaced" THEN "failed" ELSE "found",
         !.state = IF Refused THEN "GONE" ELSE "ACTIVE",
         !.member = member /\ ~Refused]
  /\ UNCHANGED <<joinLive, linkVars, noticed, preview, joinCall, conflictVars, looked>>

(* The query takes the answer; a join that waits for it to settle its      *)
(* conflict goes on.                                                       *)
ReceiveLook ==
  /\ joinLive /\ look.phase \in {"found", "failed"}
  /\ look' = NoLook
  /\ LET found == look.phase = "found"
     IN /\ preview' = IF found THEN [status |-> "success", state |-> look.state, member |-> look.member]
                               ELSE [preview EXCEPT !.status = "error"]
        /\ looked' = (looked \/ (found /\ look.since))
        /\ joinConflict' = (joinConflict /\ ~(joinCall = "conflict" /\ found))
  /\ joinCall' = IF joinCall = "conflict" THEN "idle" ELSE joinCall
  /\ UNCHANGED <<joinLive, linkVars, noticed, conflictReadFailed>>

(* The effect on a conflict: a look that failed, then one that succeeded.  *)
ConflictEffect ==
  /\ joinLive /\ joinConflict
  /\ \/ /\ preview.status = "error" /\ ~conflictReadFailed
        /\ conflictReadFailed' = TRUE /\ UNCHANGED joinConflict
     \/ /\ preview.status = "success" /\ conflictReadFailed
        /\ joinConflict' = FALSE /\ UNCHANGED conflictReadFailed
  /\ UNCHANGED <<joinLive, linkVars, noticed, preview, look, joinCall, looked>>

-------------------------------------------------------------------------------
(* runJoin reads the clock once more before it sends the join.             *)
runJoin ==
  /\ joinOffered
  /\ noticed' = over
  /\ joinCall' = IF over THEN "idle" ELSE "sent"
  /\ UNCHANGED <<joinLive, linkVars, preview, look, conflictVars, looked>>

ServeJoin ==
  /\ joinCall = "sent"
  /\ \/ /\ ~Refused /\ member' = TRUE
        /\ joinCall' \in {"ok", "lost"}
     \/ /\ joinCall' = IF link # "replaced" /\ Refused THEN "409" ELSE "lost"
        /\ UNCHANGED member
  /\ UNCHANGED <<joinLive, link, over, noticed, preview, look, conflictVars, looked>>

(* Mutant: a look that is under way is good enough.                        *)
LookUnderWay == IF looking THEN [look EXCEPT !.since = FALSE] ELSE NewLook

LookAfterConflict == NewLook

(* onError: after a 409 the page waits for a look of its own.              *)
JoinFails ==
  /\ joinLive /\ joinCall \in {"409", "lost"}
  /\ IF joinCall = "409"
       THEN /\ joinConflict' = TRUE /\ conflictReadFailed' = FALSE
            /\ joinCall' = "conflict"
            /\ look' = LookAfterConflict
            /\ looked' = FALSE
       ELSE joinCall' = "idle" /\ UNCHANGED <<conflictVars, look, looked>>
  /\ UNCHANGED <<joinLive, linkVars, noticed, preview>>

(* onSuccess waits for the list of projects, then leaves for the project.  *)
JoinSucceeds ==
  /\ joinLive /\ joinCall = "ok" /\ joinCall' = "leaving"
  /\ UNCHANGED <<joinLive, linkVars, noticed, preview, look, conflictVars, looked>>

(* The page is left for the project, or the session ends.                  *)
LeaveJoin ==
  /\ joinLive /\ joinLive' = FALSE
  /\ preview' = [status |-> "pending", state |-> "none", member |-> FALSE] /\ look' = NoLook
  /\ UNCHANGED <<linkVars, noticed, joinCall, conflictVars, looked>>

JoinNext ==
  \/ LinkChanges \/ ExpiryTimer \/ LookAgain \/ ServeLook \/ ReceiveLook
  \/ ConflictEffect \/ runJoin \/ ServeJoin \/ JoinFails \/ JoinSucceeds \/ LeaveJoin

JoinSpec == JoinInit /\ [][JoinNext]_joinVars
-------------------------------------------------------------------------------
(* A join that met a conflict is not offered again on what the page knew:  *)
(* only a look that began after the conflict, and succeeded, offers it     *)
(* again, whether the first look after it failed or another one was under  *)
(* way when the conflict was told.                                         *)
AnotherJoinNeedsAnotherLook == joinOffered => looked
===============================================================================
