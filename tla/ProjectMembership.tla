--------------------------- MODULE ProjectMembership ---------------------------
(***************************************************************************)
(* The members of one project and the two ways in: an invitation to an     *)
(* address, answered once, and a share code that managers rotate and       *)
(* revoke.  Every command holds the lock of the project row from its first *)
(* statement to its commit, so it is one step; only an answer and a join   *)
(* read something before they wait for that lock: the project their token  *)
(* or code belongs to.                                                     *)
(***************************************************************************)
EXTENDS Naturals, FiniteSets

CONSTANTS
  Users,     \* an address belongs to one user: user_account.email is unique
  Verified,  \* those whose address Google has verified
  Creator,   \* the user who created the project
  Tokens,    \* invitations that may ever be made: the bound on Invite
  Codes,     \* share codes that may ever be drawn: the bound on Rotate
  NoCode,
  Requests   \* requests that may wait for the lock at the same time

ASSUME MembershipAssumption ==
  /\ IsFiniteSet(Users) /\ Creator \in Users /\ Verified \subseteq Users
  /\ NoCode \notin Codes

VARIABLES
  members,   \* the role of each user, or NONE
  invites,   \* the project_invitation rows by token
  share,     \* the project_share_invitation row
  drawn,     \* codes ever drawn; 80 random bits do not come up twice
  waiting,   \* what each request is waiting for the lock with
  answers    \* INVITATION_ACCEPTED and INVITATION_REJECTED events of each token

vars == <<members, invites, share, drawn, waiting, answers>>

Roles == {"MANAGER", "MEMBER", "VIEWER"}

Invitation == [status : {"NONE", "PENDING", "ACCEPTED", "REJECTED", "EXPIRED"},
               email  : Users,
               lapsed : BOOLEAN]   \* expires_at has passed

Share == [code : Codes \cup {NoCode}, revoked : BOOLEAN, lapsed : BOOLEAN]

Waiting == [kind : {"NONE"}]
           \cup [kind : {"JOIN"}, user : Users, code : Codes]
           \cup [kind : {"ACCEPT", "REJECT"}, user : Users, token : Tokens]

Nobody == [kind |-> "NONE"]

MembershipTypeOK ==
  /\ members \in [Users -> Roles \cup {"NONE"}]
  /\ invites \in [Tokens -> Invitation]
  /\ share \in Share
  /\ drawn \in SUBSET Codes
  /\ waiting \in [Requests -> Waiting]
  /\ answers \in [Tokens -> Nat]

MembershipInit ==
  /\ members = [u \in Users |-> IF u = Creator THEN "MANAGER" ELSE "NONE"]
  /\ invites = [k \in Tokens |-> [status |-> "NONE", email |-> Creator, lapsed |-> FALSE]]
  /\ share = [code |-> NoCode, revoked |-> FALSE, lapsed |-> FALSE]
  /\ drawn = {}
  /\ waiting = [r \in Requests |-> Nobody]
  /\ answers = [k \in Tokens |-> 0]

Managers == {u \in Users : members[u] = "MANAGER"}

----------------------------------------------------------------------------
(* Nobody who is a member already loses his role.                          *)
Admitted(u) == [members EXCEPT ![u] = IF @ = "NONE" THEN "MEMBER" ELSE @]

(* A demotion must leave a manager.                                        *)
(* Mutant: an off-by-one in the count.                                     *)
NoManagerAtAll(u, role) ==
  members[u] = "MANAGER" /\ role # "MANAGER" /\ Cardinality(Managers) < 1

LastManager(u, role) ==
  members[u] = "MANAGER" /\ role # "MANAGER" /\ Cardinality(Managers) <= 1

ChangeRole(m, u, role) ==
  /\ m \in Managers
  /\ members[u] # "NONE"
  /\ ~LastManager(u, role)
  /\ members' = [members EXCEPT ![u] = role]
  /\ UNCHANGED <<invites, share, drawn, waiting, answers>>

Pending(email) == {k \in Tokens : invites[k].status = "PENDING" /\ invites[k].email = email}

(* Lapsed invitations of the address become EXPIRED.                       *)
Expired(email) ==
  [k \in Tokens |->
     IF k \in Pending(email) THEN [invites[k] EXCEPT !.status = "EXPIRED"] ELSE invites[k]]

Invite(m, email, k) ==
  /\ m \in Managers
  /\ \A p \in Pending(email) : invites[p].lapsed
  /\ invites[k].status = "NONE"
  /\ invites' = [Expired(email) EXCEPT ![k] =
                   [status |-> "PENDING", email |-> email, lapsed |-> FALSE]]
  /\ UNCHANGED <<members, share, drawn, waiting, answers>>

Rotate(m, c) ==
  /\ m \in Managers
  /\ c \notin drawn
  /\ share' = [code |-> c, revoked |-> FALSE, lapsed |-> FALSE]
  /\ drawn' = drawn \cup {c}
  /\ UNCHANGED <<members, invites, waiting, answers>>

Revoke(m) ==
  /\ m \in Managers
  /\ share.code # NoCode /\ ~share.revoked
  /\ share' = [share EXCEPT !.revoked = TRUE]
  /\ UNCHANGED <<members, invites, drawn, waiting, answers>>

(* Seven days pass.                                                        *)
Lapse(k) ==
  /\ invites[k].status = "PENDING"
  /\ invites' = [invites EXCEPT ![k] = [@ EXCEPT !.lapsed = TRUE]]
  /\ UNCHANGED <<members, share, drawn, waiting, answers>>

LapseCode ==
  /\ share.code # NoCode
  /\ share' = [share EXCEPT !.lapsed = TRUE]
  /\ UNCHANGED <<members, invites, drawn, waiting, answers>>

----------------------------------------------------------------------------
(* The code is found before the lock, the row it was found in is not kept. *)
FindCode(r, u, c) ==
  /\ waiting[r] = Nobody /\ u \in Verified
  /\ share.code = c
  /\ waiting' = [waiting EXCEPT ![r] = [kind |-> "JOIN", user |-> u, code |-> c]]
  /\ UNCHANGED <<members, invites, share, drawn, answers>>

(* Mutant: the code was found before the lock and is not looked at again.  *)
WasFound(c) == TRUE

Active(c) == share.code = c /\ ~share.revoked /\ ~share.lapsed

Join(r) ==
  /\ waiting[r].kind = "JOIN"
  /\ Active(waiting[r].code)
  /\ members' = Admitted(waiting[r].user)
  /\ waiting' = [waiting EXCEPT ![r] = Nobody]
  /\ UNCHANGED <<invites, share, drawn, answers>>

JoinConflicts(r) ==
  /\ waiting[r].kind = "JOIN"
  /\ ~Active(waiting[r].code)
  /\ waiting' = [waiting EXCEPT ![r] = Nobody]
  /\ UNCHANGED <<members, invites, share, drawn, answers>>

FindToken(r, u, k, kind) ==
  /\ waiting[r] = Nobody
  /\ invites[k].status # "NONE"
  /\ waiting' = [waiting EXCEPT ![r] = [kind |-> kind, user |-> u, token |-> k]]
  /\ UNCHANGED <<members, invites, share, drawn, answers>>

Open(k) == invites[k].status = "PENDING" /\ ~invites[k].lapsed

EmailMatches(u, k) == u \in Verified /\ invites[k].email = u

Resolve(r) ==
  /\ waiting[r].kind \in {"ACCEPT", "REJECT"}
  /\ LET k == waiting[r].token
         u == waiting[r].user
         accept == waiting[r].kind = "ACCEPT"
     IN  /\ EmailMatches(u, k) /\ Open(k)
         /\ members' = IF accept THEN Admitted(u) ELSE members
         /\ invites' = [invites EXCEPT ![k] = [@ EXCEPT !.status =
                          IF accept THEN "ACCEPTED" ELSE "REJECTED"]]
         /\ answers' = [answers EXCEPT ![k] = @ + 1]
  /\ waiting' = [waiting EXCEPT ![r] = Nobody]
  /\ UNCHANGED <<share, drawn>>

ResolveConflicts(r) ==
  /\ waiting[r].kind \in {"ACCEPT", "REJECT"}
  /\ ~(EmailMatches(waiting[r].user, waiting[r].token) /\ Open(waiting[r].token))
  /\ waiting' = [waiting EXCEPT ![r] = Nobody]
  /\ UNCHANGED <<members, invites, share, drawn, answers>>

----------------------------------------------------------------------------
ManagerStep(m) ==
  \/ \E u \in Users, role \in Roles : ChangeRole(m, u, role)
  \/ \E u \in Users, k \in Tokens : Invite(m, u, k)
  \/ \E c \in Codes : Rotate(m, c)
  \/ Revoke(m)

RequestStep(r) ==
  \/ \E u \in Users :
       \/ \E c \in Codes : FindCode(r, u, c)
       \/ \E k \in Tokens, kind \in {"ACCEPT", "REJECT"} : FindToken(r, u, k, kind)
  \/ Join(r) \/ JoinConflicts(r) \/ Resolve(r) \/ ResolveConflicts(r)

MembershipNext ==
  \/ \E m \in Users : ManagerStep(m)
  \/ \E k \in Tokens : Lapse(k)
  \/ LapseCode
  \/ \E r \in Requests : RequestStep(r)

MembershipSpec == MembershipInit /\ [][MembershipNext]_vars

----------------------------------------------------------------------------
(* A project always has someone who can invite and give roles, even when   *)
(* managers demote each other and themselves at the same time.             *)
ManagerRemains == Managers # {}

(* Whoever enters does so by an invitation or a code that is valid while   *)
(* the request holds the lock: an answer, a rotation or a revocation that  *)
(* committed while it waited wins.                                         *)
EveryAdmissionIsCovered ==
  [][\A u \in Users : members[u] = "NONE" /\ members'[u] # "NONE" =>
       /\ members'[u] = "MEMBER"
       /\ \/ \E r \in Requests : waiting[r].kind = "JOIN" /\ waiting[r].user = u
               /\ waiting'[r] = Nobody
               /\ share.code = waiting[r].code /\ ~share.revoked /\ ~share.lapsed
          \/ \E k \in Tokens : invites[k].email = u /\ ~invites[k].lapsed
               /\ invites[k].status = "PENDING" /\ invites'[k].status = "ACCEPTED"]_vars

(* Coming in a second time never changes the role one has: only a          *)
(* manager's change of role does, and that answers no waiting request.     *)
JoiningKeepsTheRole ==
  [][\A u \in Users : members[u] # "NONE" /\ members'[u] # members[u] =>
       waiting' = waiting /\ invites' = invites]_vars

(* An invitation is answered once: two requests that found it open do not  *)
(* both get an answer recorded, and there is one exactly when it says so.  *)
AnsweredOnce ==
  \A k \in Tokens :
    answers[k] = IF invites[k].status \in {"ACCEPTED", "REJECTED"} THEN 1 ELSE 0

(* The partial unique index of V4 never has to refuse an invitation: an    *)
(* address has at most one PENDING row, a lapsed one included.             *)
OnePending ==
  \A k, l \in Tokens :
    /\ invites[k].status = "PENDING" /\ invites[l].status = "PENDING"
    /\ invites[k].email = invites[l].email
    => k = l
=============================================================================
