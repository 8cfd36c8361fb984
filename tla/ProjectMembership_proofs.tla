------------------------ MODULE ProjectMembership_proofs ------------------------
(***************************************************************************)
(* Proofs about the membership of a project, for any number of users,      *)
(* invitations, codes and waiting requests, and about the three pages that *)
(* lead into one: the share dialog, the join preview and the invitation,   *)
(* for any number of requests and reads under way.                         *)
(***************************************************************************)
EXTENDS ProjectMembership, ShareInvitation, JoinPreview, EmailInvitation,
        FiniteSetTheorems, TLAPS

(* The four state properties are inductive together.                       *)
MembershipInv == MembershipTypeOK /\ ManagerRemains /\ AnsweredOnce /\ OnePending

----------------------------------------------------------------------------
(* What the count in changeRole is worth: the last manager is the one that *)
(* is being demoted, or another manager is left.                           *)
LEMMA AnotherManager ==
  ASSUME MembershipTypeOK, NEW u \in Users, NEW role, role # "MANAGER",
         Managers # {}, ~LastManager(u, role)
  PROVE  \E m \in Managers : m # u
<1>1. CASE members[u] # "MANAGER"
  BY <1>1 DEF Managers
<1>2. CASE members[u] = "MANAGER"
  <2>1. IsFiniteSet(Managers)
    BY MembershipAssumption, FS_Subset DEF Managers
  <2>2. ~(Cardinality(Managers) <= 1)
    BY <1>2 DEF LastManager
  <2>3. Managers # {u}
    <3>1. Cardinality({u}) = 1
      BY FS_Singleton
    <3>. QED
      BY <2>2, <3>1
  <2>. QED
    BY <2>3
<1>. QED
  BY <1>1, <1>2

LEMMA AdmittedType ==
  ASSUME MembershipTypeOK, NEW u \in Users
  PROVE  /\ Admitted(u) \in [Users -> Roles \cup {"NONE"}]
         /\ \A m \in Managers : Admitted(u)[m] = "MANAGER"
  BY DEF MembershipTypeOK, Admitted, Managers, Roles

LEMMA MembershipInitInv == MembershipInit => MembershipInv
  BY MembershipAssumption DEF MembershipInit, MembershipInv, MembershipTypeOK, ManagerRemains,
     Managers, AnsweredOnce, OnePending, Roles, Invitation, Share, Waiting, Nobody

----------------------------------------------------------------------------
(* The commands of managers.                                               *)
LEMMA ManagerStepInv ==
  ASSUME MembershipInv, NEW m \in Users, ManagerStep(m)
  PROVE  MembershipInv'
<1>1. ASSUME NEW u \in Users, NEW role \in Roles, ChangeRole(m, u, role)
      PROVE  MembershipInv'
  <2>1. MembershipTypeOK'
    BY <1>1 DEF MembershipInv, MembershipTypeOK, ChangeRole
  <2>2. ManagerRemains'
    <3>1. CASE role = "MANAGER"
      BY <1>1, <3>1 DEF MembershipInv, MembershipTypeOK, ManagerRemains, Managers, ChangeRole
    <3>2. CASE role # "MANAGER"
      <4>1. PICK other \in Managers : other # u
        BY <1>1, <3>2, AnotherManager DEF MembershipInv, ManagerRemains, ChangeRole
      <4>2. other \in Users /\ members'[other] = "MANAGER"
        BY <1>1, <4>1 DEF MembershipInv, MembershipTypeOK, Managers, ChangeRole
      <4>. QED
        BY <4>2 DEF ManagerRemains, Managers
    <3>. QED
      BY <3>1, <3>2
  <2>3. AnsweredOnce' /\ OnePending'
    BY <1>1 DEF MembershipInv, AnsweredOnce, OnePending, ChangeRole
  <2>. QED
    BY <2>1, <2>2, <2>3 DEF MembershipInv
<1>2. ASSUME NEW u \in Users, NEW k \in Tokens, Invite(m, u, k)
      PROVE  MembershipInv'
  <2>1. invites'[k] = [status |-> "PENDING", email |-> u, lapsed |-> FALSE]
    BY <1>2 DEF Invite, Expired
  <2>2. ASSUME NEW l \in Pending(u), l # k
        PROVE  invites'[l] = [invites[l] EXCEPT !.status = "EXPIRED"]
    BY <1>2, <2>2 DEF Invite, Expired, Pending
  <2>3. ASSUME NEW l \in Tokens \ Pending(u), l # k
        PROVE  invites'[l] = invites[l]
    BY <1>2, <2>3 DEF Invite, Expired
  <2>t. \A l \in Tokens : invites[l] \in Invitation
    BY DEF MembershipInv, MembershipTypeOK
  <2>k. invites[k].status = "NONE"
    BY <1>2 DEF Invite
  <2>4. MembershipTypeOK'
    <3>1. ASSUME NEW l \in Tokens
          PROVE  invites'[l] \in Invitation
      <4>1. CASE l = k
        <5>1. [status |-> "PENDING", email |-> u, lapsed |-> FALSE] \in Invitation
          BY DEF Invitation
        <5>. QED
          BY <2>1, <4>1, <5>1
      <4>2. CASE l # k /\ l \in Pending(u)
        BY <2>2, <2>t, <3>1, <4>2 DEF Invitation
      <4>3. CASE l # k /\ l \notin Pending(u)
        BY <2>3, <2>t, <3>1, <4>3
      <4>. QED
        BY <4>1, <4>2, <4>3
    <3>2. invites' = [l \in Tokens |-> invites'[l]]
      BY <1>2 DEF Invite, Expired
    <3>3. invites' \in [Tokens -> Invitation]
      BY <3>1, <3>2
    <3>. QED
      BY <1>2, <3>3 DEF MembershipInv, MembershipTypeOK, Invite
  <2>5. ManagerRemains'
    BY <1>2 DEF MembershipInv, ManagerRemains, Managers, Invite
  <2>6. AnsweredOnce'
    <3>1. ASSUME NEW l \in Tokens
          PROVE  invites'[l].status \in {"ACCEPTED", "REJECTED"}
                 <=> invites[l].status \in {"ACCEPTED", "REJECTED"}
      <4>1. CASE l = k
        BY <2>1, <2>k, <4>1
      <4>2. CASE l # k /\ l \in Pending(u)
        BY <2>2, <2>t, <3>1, <4>2 DEF Invitation, Pending
      <4>3. CASE l # k /\ l \notin Pending(u)
        BY <2>3, <3>1, <4>3
      <4>. QED
        BY <4>1, <4>2, <4>3
    <3>2. answers' = answers
      BY <1>2 DEF Invite
    <3>. QED
      BY <3>1, <3>2 DEF MembershipInv, AnsweredOnce
  <2>7. OnePending'
    <3>1. ASSUME NEW l \in Tokens, l # k, invites'[l].status = "PENDING"
          PROVE  /\ invites[l].status = "PENDING" /\ invites'[l].email = invites[l].email
                 /\ invites[l].email # u
      <4>1. CASE l \in Pending(u)
        BY <2>2, <2>t, <3>1, <4>1 DEF Invitation
      <4>2. CASE l \notin Pending(u)
        BY <2>3, <3>1, <4>2 DEF Pending
      <4>. QED
        BY <4>1, <4>2
    <3>2. invites'[k].email = u
      BY <2>1
    <3>. QED
      BY <3>1, <3>2 DEF MembershipInv, OnePending
  <2>. QED
    BY <2>4, <2>5, <2>6, <2>7 DEF MembershipInv
<1>3. ASSUME NEW c \in Codes, Rotate(m, c)
      PROVE  MembershipInv'
  <2>1. MembershipTypeOK'
    BY <1>3 DEF MembershipInv, MembershipTypeOK, Rotate, Share
  <2>. QED
    BY <1>3, <2>1 DEF MembershipInv, ManagerRemains, Managers, AnsweredOnce, OnePending, Rotate
<1>4. ASSUME Revoke(m)
      PROVE  MembershipInv'
  <2>1. MembershipTypeOK'
    BY <1>4 DEF MembershipInv, MembershipTypeOK, Revoke, Share
  <2>. QED
    BY <1>4, <2>1 DEF MembershipInv, ManagerRemains, Managers, AnsweredOnce, OnePending, Revoke
<1>. QED
  BY <1>1, <1>2, <1>3, <1>4 DEF ManagerStep

(* Time passes.                                                            *)
LEMMA LapseInv ==
  ASSUME MembershipInv, LapseCode \/ \E k \in Tokens : Lapse(k)
  PROVE  MembershipInv'
<1>1. ASSUME LapseCode
      PROVE  MembershipInv'
  <2>1. MembershipTypeOK'
    BY <1>1 DEF MembershipInv, MembershipTypeOK, LapseCode, Share
  <2>. QED
    BY <1>1, <2>1 DEF MembershipInv, ManagerRemains, Managers, AnsweredOnce, OnePending, LapseCode
<1>2. ASSUME NEW k \in Tokens, Lapse(k)
      PROVE  MembershipInv'
  <2>1. MembershipTypeOK'
    BY <1>2 DEF MembershipInv, MembershipTypeOK, Lapse, Invitation
  <2>2. \A l \in Tokens : invites'[l].status = invites[l].status /\ invites'[l].email = invites[l].email
    BY <1>2 DEF MembershipInv, MembershipTypeOK, Lapse, Invitation
  <2>. QED
    BY <1>2, <2>1, <2>2 DEF MembershipInv, ManagerRemains, Managers, AnsweredOnce, OnePending, Lapse
<1>. QED
  BY <1>1, <1>2

----------------------------------------------------------------------------
(* Requests that wait for the lock.                                        *)
LEMMA RequestStepInv ==
  ASSUME MembershipInv, NEW r \in Requests, RequestStep(r)
  PROVE  MembershipInv'
<1>1. ASSUME NEW u \in Users, NEW c \in Codes, FindCode(r, u, c)
      PROVE  MembershipInv'
  <2>1. MembershipTypeOK'
    BY <1>1 DEF MembershipInv, MembershipTypeOK, FindCode, Waiting
  <2>. QED
    BY <1>1, <2>1 DEF MembershipInv, ManagerRemains, Managers, AnsweredOnce, OnePending, FindCode
<1>2. ASSUME NEW u \in Users, NEW k \in Tokens, NEW kind \in {"ACCEPT", "REJECT"},
             FindToken(r, u, k, kind)
      PROVE  MembershipInv'
  <2>1. MembershipTypeOK'
    BY <1>2 DEF MembershipInv, MembershipTypeOK, FindToken, Waiting
  <2>. QED
    BY <1>2, <2>1 DEF MembershipInv, ManagerRemains, Managers, AnsweredOnce, OnePending, FindToken
<1>3. ASSUME Join(r)
      PROVE  MembershipInv'
  <2>0. waiting[r].user \in Users
    BY <1>3 DEF MembershipInv, MembershipTypeOK, Join, Waiting
  <2>1. MembershipTypeOK'
    BY <1>3, <2>0, AdmittedType DEF MembershipInv, MembershipTypeOK, Join, Waiting, Nobody
  <2>2. ManagerRemains'
    BY <1>3, <2>0, AdmittedType DEF MembershipInv, ManagerRemains, Managers, Join
  <2>. QED
    BY <1>3, <2>1, <2>2 DEF MembershipInv, AnsweredOnce, OnePending, Join
<1>4. ASSUME JoinConflicts(r) \/ ResolveConflicts(r)
      PROVE  MembershipInv'
  <2>1. MembershipTypeOK'
    BY <1>4 DEF MembershipInv, MembershipTypeOK, JoinConflicts, ResolveConflicts, Waiting, Nobody
  <2>. QED
    BY <1>4, <2>1 DEF MembershipInv, ManagerRemains, Managers, AnsweredOnce, OnePending,
       JoinConflicts, ResolveConflicts
<1>5. ASSUME Resolve(r)
      PROVE  MembershipInv'
  <2>. DEFINE k == waiting[r].token
              u == waiting[r].user
              answer == IF waiting[r].kind = "ACCEPT" THEN "ACCEPTED" ELSE "REJECTED"
  <2>0. k \in Tokens /\ u \in Users
    BY <1>5 DEF MembershipInv, MembershipTypeOK, Resolve, Waiting
  <2>1. /\ invites' = [invites EXCEPT ![k] = [@ EXCEPT !.status = answer]]
        /\ answers' = [answers EXCEPT ![k] = @ + 1]
        /\ invites[k].status = "PENDING"
        /\ members' = members \/ members' = Admitted(u)
        /\ waiting' = [waiting EXCEPT ![r] = Nobody]
        /\ UNCHANGED <<share, drawn>>
    BY <1>5 DEF Resolve, Open
  <2>2. answer \in {"ACCEPTED", "REJECTED"}
    OBVIOUS
  <2>t. invites \in [Tokens -> Invitation] /\ answers \in [Tokens -> Nat]
    BY DEF MembershipInv, MembershipTypeOK
  <2>. HIDE DEF k, u, answer
  <2>3. MembershipTypeOK'
    <3>1. invites' \in [Tokens -> Invitation] /\ answers' \in [Tokens -> Nat]
      BY <2>0, <2>1, <2>2, <2>t DEF Invitation
    <3>2. members' \in [Users -> Roles \cup {"NONE"}]
      BY <2>0, <2>1, AdmittedType DEF MembershipInv, MembershipTypeOK
    <3>3. waiting' \in [Requests -> Waiting]
      BY <2>1 DEF MembershipInv, MembershipTypeOK, Waiting, Nobody
    <3>. QED
      BY <2>1, <3>1, <3>2, <3>3 DEF MembershipInv, MembershipTypeOK
  <2>4. ManagerRemains'
    BY <2>0, <2>1, AdmittedType DEF MembershipInv, ManagerRemains, Managers
  <2>5. AnsweredOnce'
    <3>1. invites'[k].status = answer /\ answers[k] = 0 /\ answers'[k] = 1
      BY <2>0, <2>1, <2>t DEF MembershipInv, AnsweredOnce, Invitation
    <3>2. \A l \in Tokens : l # k => invites'[l] = invites[l] /\ answers'[l] = answers[l]
      BY <2>0, <2>1, <2>t
    <3>. QED
      BY <3>1, <3>2, <2>2 DEF MembershipInv, AnsweredOnce
  <2>6. OnePending'
    <3>1. invites'[k].status # "PENDING"
      BY <2>0, <2>1, <2>2, <2>t DEF Invitation
    <3>2. \A l \in Tokens : l # k => invites'[l] = invites[l]
      BY <2>0, <2>1, <2>t
    <3>. QED
      BY <3>1, <3>2 DEF MembershipInv, OnePending
  <2>. QED
    BY <2>3, <2>4, <2>5, <2>6 DEF MembershipInv
<1>. QED
  BY <1>1, <1>2, <1>3, <1>4, <1>5 DEF RequestStep

LEMMA MembershipStepInv == MembershipInv /\ [MembershipNext]_vars => MembershipInv'
<1>. SUFFICES ASSUME MembershipInv, [MembershipNext]_vars
              PROVE  MembershipInv'
  OBVIOUS
<1>1. CASE UNCHANGED vars
  BY <1>1 DEF MembershipInv, MembershipTypeOK, ManagerRemains, Managers, AnsweredOnce, OnePending, vars
<1>2. CASE MembershipNext
  BY <1>2, ManagerStepInv, LapseInv, RequestStepInv DEF MembershipNext
<1>. QED
  BY <1>1, <1>2

LEMMA MembershipInvariant == MembershipSpec => []MembershipInv
  BY MembershipInitInv, MembershipStepInv, PTL DEF MembershipSpec

----------------------------------------------------------------------------
(* Roles, invitations, the code and the waiting requests keep their types. *)
THEOREM MembershipTypeCorrect == MembershipSpec => []MembershipTypeOK
  BY MembershipInvariant, PTL DEF MembershipInv

(* Every project keeps a manager, whoever demotes whom.                    *)
THEOREM AManagerRemains == MembershipSpec => []ManagerRemains
  BY MembershipInvariant, PTL DEF MembershipInv

(* Every invitation is answered once, whoever races to answer it.          *)
THEOREM InvitationsAnsweredOnce == MembershipSpec => []AnsweredOnce
  BY MembershipInvariant, PTL DEF MembershipInv

(* No invitation ever meets the partial unique index.                      *)
THEOREM AddressesHaveOnePending == MembershipSpec => []OnePending
  BY MembershipInvariant, PTL DEF MembershipInv

(* Nobody enters by an invitation or a code that is no longer valid.       *)
THEOREM AdmissionsAreCovered == MembershipSpec => EveryAdmissionIsCovered
<1>. DEFINE Covered(u) ==
       members[u] = "NONE" /\ members'[u] # "NONE" =>
       /\ members'[u] = "MEMBER"
       /\ \/ \E r \in Requests : waiting[r].kind = "JOIN" /\ waiting[r].user = u
               /\ waiting'[r] = Nobody
               /\ share.code = waiting[r].code /\ ~share.revoked /\ ~share.lapsed
          \/ \E k \in Tokens : invites[k].email = u /\ ~invites[k].lapsed
               /\ invites[k].status = "PENDING" /\ invites'[k].status = "ACCEPTED"
<1>1. ASSUME MembershipTypeOK, [MembershipNext]_vars, NEW u \in Users,
             members[u] = "NONE", members'[u] # "NONE"
      PROVE  Covered(u)
  <2>1. ASSUME NEW r \in Requests, Join(r)
        PROVE  Covered(u)
    <3>1. waiting[r].user = u /\ members'[u] = "MEMBER"
      BY <1>1, <2>1 DEF MembershipTypeOK, Join, Admitted
    <3>2. waiting'[r] = Nobody
      BY <1>1, <2>1 DEF MembershipTypeOK, Join
    <3>. QED
      BY <2>1, <3>1, <3>2 DEF Join, Active
  <2>2. ASSUME NEW r \in Requests, Resolve(r)
        PROVE  Covered(u)
    <3>1. waiting[r].kind = "ACCEPT" /\ waiting[r].user = u /\ members'[u] = "MEMBER"
      BY <1>1, <2>2 DEF MembershipTypeOK, Resolve, Admitted
    <3>2. waiting[r].token \in Tokens
      BY <1>1, <2>2, <3>1 DEF MembershipTypeOK, Waiting
    <3>3. invites'[waiting[r].token].status = "ACCEPTED"
      BY <1>1, <2>2, <3>1, <3>2 DEF MembershipTypeOK, Resolve, Invitation
    <3>. QED
      BY <2>2, <3>1, <3>2, <3>3 DEF Resolve, Open, EmailMatches
  <2>3. ASSUME NEW m \in Users, NEW v \in Users, NEW role \in Roles, ChangeRole(m, v, role)
        PROVE  FALSE
    BY <1>1, <2>3 DEF MembershipTypeOK, ChangeRole
  <2>4. \/ \E r \in Requests : Join(r) \/ Resolve(r)
        \/ \E m \in Users, v \in Users, role \in Roles : ChangeRole(m, v, role)
    BY <1>1 DEF MembershipNext, ManagerStep, RequestStep, Invite, Rotate, Revoke, Lapse, LapseCode,
       FindCode, FindToken, JoinConflicts, ResolveConflicts, vars
  <2>. QED
    BY <2>1, <2>2, <2>3, <2>4
<1>2. MembershipTypeOK /\ [MembershipNext]_vars => [\A u \in Users : Covered(u)]_vars
  BY <1>1
<1>. QED
  BY <1>2, MembershipInvariant, PTL DEF MembershipSpec, MembershipInv, EveryAdmissionIsCovered

(* An answer or a join by someone who is a member changes nothing about    *)
(* his role.                                                               *)
THEOREM RolesKept == MembershipSpec => JoiningKeepsTheRole
<1>. DEFINE Kept(u) == members[u] # "NONE" /\ members'[u] # members[u]
                       => waiting' = waiting /\ invites' = invites
<1>1. ASSUME MembershipTypeOK, [MembershipNext]_vars, NEW u \in Users,
             members[u] # "NONE", members'[u] # members[u]
      PROVE  waiting' = waiting /\ invites' = invites
  <2>1. ASSUME NEW r \in Requests, Join(r) \/ Resolve(r)
        PROVE  FALSE
    BY <1>1, <2>1 DEF MembershipTypeOK, Join, Resolve, Admitted
  <2>. QED
    BY <1>1, <2>1 DEF MembershipNext, ManagerStep, RequestStep, ChangeRole, Invite, Rotate, Revoke,
       Lapse, LapseCode, FindCode, FindToken, JoinConflicts, ResolveConflicts, vars
<1>2. MembershipTypeOK /\ [MembershipNext]_vars => [\A u \in Users : Kept(u)]_vars
  BY <1>1
<1>. QED
  BY <1>2, MembershipInvariant, PTL DEF MembershipSpec, MembershipInv, JoiningKeepsTheRole

-------------------------------------------------------------------------------
(* The page of an e-mail invitation.  Once its answer was taken, neither   *)
(* what it shows nor a read it still wants can say that the invitation is  *)
(* pending: the server's answer is final, and the reads that may have seen *)
(* it before were cancelled.                                               *)
Statuses == {"PENDING", "ACCEPTED", "REJECTED", "EXPIRED"}

InvitationTypes ==
  /\ invitation \in Statuses
  /\ looks \in [Looks -> [phase : {"idle", "sent", "answered"}, wanted : BOOLEAN,
                          recovers : BOOLEAN, revision : Nat,
                          answer : {"none", "ok", "403", "lost"},
                          value : Statuses \cup {"none"}]]
  /\ invited \in [status : {"pending", "success", "error"}, value : Statuses \cup {"none"}]
  /\ readKey \in Access /\ writeKey \in Access

AnswerIsFinal ==
  /\ resolution \in {"ok", "settling"} => invitation # "PENDING"
  /\ resolved =>
       /\ invitation # "PENDING" /\ invited.value # "PENDING"
       /\ \A f \in Looks : looks[f].wanted /\ looks[f].phase = "answered"
                             => looks[f].value # "PENDING"

InvitationInv == InvitationTypes /\ AnswerIsFinal

LEMMA InvitationInitInv == InviteInit => InvitationInv
BY DEF InviteInit, InvitationInv, InvitationTypes, AnswerIsFinal, Statuses, NoInviteRead,
       resetAccessState, Access, NoRevision

LEMMA AccessIsKept ==
  ASSUME NEW a \in Access, NEW revision, NEW answer
  PROVE  /\ clearAccessDenial(a) \in Access /\ recordAccessDenial(a) \in Access
         /\ accessRead(a, revision, answer) \in Access
         /\ beginAccessRead(a) \in Nat
<1>1. beginAccessRead(a) \in Nat
  BY DEF Access, beginAccessRead
<1>2. clearAccessDenial(a) \in Access
  BY DEF Access, NoRevision, clearAccessDenial
<1>3. recordAccessDenial(a) \in Access
  <2>1. a.version + 1 \in Nat
    BY DEF Access
  <2>2. \A n \in Nat : [a EXCEPT !.denied = TRUE, !.version = n] \in Access
    BY DEF Access
  <2>3. QED
    BY <2>1, <2>2 DEF recordAccessDenial
<1>4. completeAccessRead(a, revision) \in Access
  BY DEF Access, completeAccessRead
<1>5. QED
  BY <1>1, <1>2, <1>3, <1>4 DEF accessRead

(* A new read is wanted and was not answered yet; what is left of the      *)
(* others is what was there before, or wanted no more.                     *)
LEMMA LookUpKeeps ==
  ASSUME InvitationTypes, NEW recovers \in BOOLEAN, NEW all, all \in {looks, Dropped},
         LookUp(all, recovers)
  PROVE  /\ looks' \in [Looks -> [phase : {"idle", "sent", "answered"}, wanted : BOOLEAN,
                                 recovers : BOOLEAN, revision : Nat,
                                 answer : {"none", "ok", "403", "lost"},
                                 value : Statuses \cup {"none"}]]
         /\ \A f \in Looks : looks'[f].wanted /\ looks'[f].phase = "answered"
                              => all = looks /\ looks'[f] = looks[f]
<1>1. PICK f \in idleLooks :
        looks' = [all EXCEPT ![f] = [NoInviteRead EXCEPT !.phase = "sent", !.wanted = TRUE,
                    !.recovers = recovers, !.revision = beginAccessRead(readKey)]]
  BY DEF LookUp
<1>2. beginAccessRead(readKey) \in Nat
  BY AccessIsKept DEF InvitationTypes
<1> DEFINE Look == [phase : {"idle", "sent", "answered"}, wanted : BOOLEAN, recovers : BOOLEAN,
                    revision : Nat, answer : {"none", "ok", "403", "lost"},
                    value : Statuses \cup {"none"}]
<1>3. Dropped \in [Looks -> Look] /\ looks \in [Looks -> Look]
  BY DEF InvitationTypes, Dropped
<1> DEFINE new == [NoInviteRead EXCEPT !.phase = "sent", !.wanted = TRUE,
                     !.recovers = recovers, !.revision = beginAccessRead(readKey)]
<1>4. new \in Look /\ new.phase = "sent"
  BY <1>2 DEF NoInviteRead, Statuses
<1>5. looks' \in [Looks -> Look]
  <2>1. looks' = [all EXCEPT ![f] = new]
    BY <1>1
  <2> HIDE DEF new
  <2>2. QED
    BY <1>3, <1>4, <2>1
<1>6. ASSUME NEW g \in Looks, looks'[g].wanted, looks'[g].phase = "answered"
      PROVE  all = looks /\ looks'[g] = looks[g]
  <2>1. g # f
    BY <1>1, <1>3, <1>6 DEF NoInviteRead
  <2>2. looks'[g] = all[g]
    BY <1>1, <1>3, <2>1
  <2>3. ~Dropped[g].wanted
    BY <1>3 DEF Dropped
  <2>4. QED
    BY <1>6, <2>2, <2>3
<1>7. QED
  BY <1>5, <1>6

LEMMA InvitationStepInv == InvitationInv /\ [InviteNext]_inviteVars => InvitationInv'
<1> SUFFICES ASSUME InvitationInv, [InviteNext]_inviteVars PROVE InvitationInv'
  OBVIOUS
<1> USE DEF InvitationInv
<1>1. CASE UNCHANGED inviteVars
  BY <1>1 DEF inviteVars, InvitationTypes, AnswerIsFinal
<1>2. CASE ReadInvitation \/ RecoverInvitation
  <2>1. PICK recovers \in BOOLEAN : LookUp(looks, recovers)
    BY <1>2 DEF ReadInvitation, RecoverInvitation
  <2>2. UNCHANGED <<inviteLive, invitation, invited, resolution, refusal, readKey, writeKey, resolved>>
    BY <1>2 DEF ReadInvitation, RecoverInvitation
  <2>3. QED
    BY <2>1, <2>2, LookUpKeeps DEF InvitationTypes, AnswerIsFinal
<1>3. ASSUME NEW f \in Looks, ServeInvitation(f) PROVE InvitationInv'
  <2>1. PICK answer \in {"ok", "403", "lost"} :
          looks' = [looks EXCEPT ![f].phase = "answered", ![f].answer = answer,
                                 ![f].value = invitation]
    BY <1>3 DEF ServeInvitation
  <2>2. looks' = [looks EXCEPT ![f] = [looks[f] EXCEPT !.phase = "answered", !.answer = answer,
                                                       !.value = invitation]]
    BY <2>1 DEF InvitationTypes
  <2>3. [looks[f] EXCEPT !.phase = "answered", !.answer = answer, !.value = invitation]
          \in [phase : {"idle", "sent", "answered"}, wanted : BOOLEAN, recovers : BOOLEAN,
               revision : Nat, answer : {"none", "ok", "403", "lost"},
               value : Statuses \cup {"none"}]
    BY DEF InvitationTypes
  <2>4. InvitationTypes'
    BY <1>3, <2>2, <2>3 DEF ServeInvitation, InvitationTypes
  <2>5. \A g \in Looks : looks'[g] = looks[g] \/ looks'[g].value = invitation
    BY <2>2 DEF InvitationTypes
  <2>6. QED
    BY <1>3, <2>4, <2>5 DEF ServeInvitation, AnswerIsFinal
<1>4. ASSUME NEW f \in Looks, ReceiveInvitation(f) PROVE InvitationInv'
  <2>1. InvitationTypes'
    <3>1. readKey' \in Access /\ writeKey' \in Access
      BY <1>4, AccessIsKept DEF ReceiveInvitation, InvitationTypes
    <3>2. QED
      BY <1>4, <3>1 DEF ReceiveInvitation, InvitationTypes, NoInviteRead, Statuses
  <2>2. \/ invited'.value = invited.value
        \/ looks[f].wanted /\ invited'.value = looks[f].value
    <3>1. CASE ~looks[f].wanted
      <4>1. invited' = invited
        BY <1>4, <3>1 DEF ReceiveInvitation
      <4>2. QED
        BY <4>1
    <3>2. CASE looks[f].wanted /\ looks[f].answer = "ok"
      <4>1. invited' = [status |-> "success", value |-> looks[f].value]
        BY <1>4, <3>2 DEF ReceiveInvitation
      <4>2. QED
        BY <3>2, <4>1
    <3>3. CASE looks[f].wanted /\ looks[f].answer # "ok"
      <4>1. invited' = [invited EXCEPT !.status = "error"]
        BY <1>4, <3>3 DEF ReceiveInvitation
      <4>2. invited'.value = invited.value
        BY <4>1 DEF InvitationTypes
      <4>3. QED
        BY <4>2
    <3>4. QED
      BY <3>1, <3>2, <3>3
  <2>3. resolution' = "idle" \/ resolution' = resolution
    BY <1>4 DEF ReceiveInvitation
  <2>4. QED
    BY <1>4, <2>1, <2>2, <2>3 DEF ReceiveInvitation, InvitationTypes, AnswerIsFinal, NoInviteRead
<1>5. CASE ClearReadDenial
  BY <1>5, AccessIsKept DEF ClearReadDenial, InvitationTypes, AnswerIsFinal
<1>6. CASE BeginResolve
  BY <1>6 DEF BeginResolve, InvitationTypes, AnswerIsFinal
<1>7. CASE ServeResolve
  BY <1>7 DEF ServeResolve, InvitationTypes, AnswerIsFinal, Statuses
<1>8. CASE ResolveFails
  BY <1>8, AccessIsKept DEF ResolveFails, InvitationTypes, AnswerIsFinal
<1>9. CASE ResolveSucceeds
  <2>1. LookUp(Dropped, FALSE)
    BY <1>9 DEF ResolveSucceeds
  <2>2. \A f \in Looks : looks'[f].wanted /\ looks'[f].phase = "answered" => Dropped = looks /\ looks'[f] = looks[f]
    BY <2>1, LookUpKeeps
  <2>3. \A f \in Looks : ~Dropped[f].wanted
    BY DEF Dropped, InvitationTypes
  <2>4. QED
    BY <1>9, <2>1, <2>2, <2>3, LookUpKeeps DEF ResolveSucceeds, InvitationTypes, AnswerIsFinal
<1>10. CASE InvitationChanges
  BY <1>10 DEF InvitationChanges, InvitationTypes, AnswerIsFinal, Statuses
<1>11. CASE EndInviteSession
  BY <1>11 DEF EndInviteSession, InvitationTypes, AnswerIsFinal, NoInviteRead
<1>12. QED
  BY <1>1, <1>2, <1>3, <1>4, <1>5, <1>6, <1>7, <1>8, <1>9, <1>10, <1>11 DEF InviteNext

LEMMA InvitationInvariance == InviteSpec => []InvitationInv
BY InvitationInitInv, InvitationStepInv, PTL DEF InviteSpec

(* The page that was told that its answer was taken never offers the two   *)
(* buttons again, whatever reads were under way or follow (Invite in       *)
(* Account.tsx).                                                           *)
THEOREM AnsweredInvitationsAreClosed == InviteSpec => []AnsweredInvitationIsNotOffered
<1>1. InvitationInv => AnsweredInvitationIsNotOffered
  BY DEF InvitationInv, AnswerIsFinal, AnsweredInvitationIsNotOffered, answerOffered
<1>2. QED
  BY <1>1, InvitationInvariance, PTL

-------------------------------------------------------------------------------
(* The page of a share link.  From a 409 until a look that began after it  *)
(* has succeeded, the page keeps its conflict: the look it waits for began *)
(* after it, and the effect that ends the conflict waits for a success.    *)
JoinTypes ==
  /\ preview \in [status : {"pending", "success", "error"}, state : {"none", "ACTIVE", "GONE"},
                  member : BOOLEAN]
  /\ look \in [phase : {"idle", "sent", "found", "failed"}, since : BOOLEAN,
               state : {"none", "ACTIVE", "GONE"}, member : BOOLEAN]
  /\ joinLive \in BOOLEAN /\ member \in BOOLEAN /\ looked \in BOOLEAN
  /\ joinConflict \in BOOLEAN /\ conflictReadFailed \in BOOLEAN

ConflictStays ==
  joinLive /\ ~looked =>
    /\ joinConflict
    /\ looking => look.since
    /\ conflictReadFailed => preview.status = "error"

JoinInv == JoinTypes /\ ConflictStays

LEMMA LooksAreTyped ==
  /\ {NoLook, NewLook} \subseteq [phase : {"idle", "sent", "found", "failed"}, since : BOOLEAN,
                                 state : {"none", "ACTIVE", "GONE"}, member : BOOLEAN]
  /\ NoLook.phase = "idle" /\ NewLook.phase = "sent" /\ NewLook.since
<1>1. NoLook \in [phase : {"idle", "sent", "found", "failed"}, since : BOOLEAN,
                 state : {"none", "ACTIVE", "GONE"}, member : BOOLEAN]
  BY DEF NoLook
<1>2. NoLook.phase = "idle"
  BY DEF NoLook
<1>3. NewLook \in [phase : {"idle", "sent", "found", "failed"}, since : BOOLEAN,
                  state : {"none", "ACTIVE", "GONE"}, member : BOOLEAN]
  BY <1>1 DEF NewLook
<1>4. NewLook.phase = "sent" /\ NewLook.since
  BY <1>1 DEF NewLook
<1>5. QED
  BY <1>1, <1>2, <1>3, <1>4

LEMMA JoinInitInv == JoinInit => JoinInv
<1> SUFFICES ASSUME JoinInit PROVE JoinInv
  OBVIOUS
<1>1. preview \in [status : {"pending", "success", "error"}, state : {"none", "ACTIVE", "GONE"},
                  member : BOOLEAN]
  BY DEF JoinInit
<1>2. QED
  BY <1>1, LooksAreTyped DEF JoinInit, JoinInv, JoinTypes, ConflictStays

LEMMA JoinStepInv == JoinInv /\ [JoinNext]_joinVars => JoinInv'
<1> SUFFICES ASSUME JoinInv, [JoinNext]_joinVars PROVE JoinInv'
  OBVIOUS
<1> USE DEF JoinInv
<1>1. CASE UNCHANGED joinVars
  BY <1>1 DEF joinVars, JoinTypes, ConflictStays, looking
<1>2. CASE LinkChanges \/ ExpiryTimer \/ runJoin \/ ServeJoin \/ JoinSucceeds
  <2>1. UNCHANGED <<joinLive, preview, look, conflictVars, looked>> /\ member' \in BOOLEAN
    BY <1>2 DEF LinkChanges, ExpiryTimer, runJoin, ServeJoin, JoinSucceeds, linkVars, JoinTypes
  <2>2. QED
    BY <2>1 DEF conflictVars, JoinTypes, ConflictStays, looking
<1>3. CASE LookAgain
  BY <1>3, LooksAreTyped DEF LookAgain, conflictVars, linkVars, JoinTypes, ConflictStays, looking
<1>4. CASE ServeLook
  <2>1. PICK lost \in BOOLEAN :
          look' = [look EXCEPT
            !.phase = IF lost \/ link = "replaced" THEN "failed" ELSE "found",
            !.state = IF Refused THEN "GONE" ELSE "ACTIVE",
            !.member = member /\ ~Refused]
    BY <1>4 DEF ServeLook
  <2>2. look'.since = look.since /\ look.phase = "sent"
    BY <1>4, <2>1 DEF ServeLook, JoinTypes
  <2>3. (member /\ ~Refused) \in BOOLEAN
    OBVIOUS
  <2>4. look' \in [phase : {"idle", "sent", "found", "failed"}, since : BOOLEAN,
                   state : {"none", "ACTIVE", "GONE"}, member : BOOLEAN]
    BY <2>1, <2>3 DEF JoinTypes
  <2>5. QED
    BY <1>4, <2>2, <2>4 DEF ServeLook, conflictVars, linkVars, JoinTypes, ConflictStays, looking
<1>5. CASE ReceiveLook
  <2>1. JoinTypes'
    BY <1>5, LooksAreTyped DEF ReceiveLook, linkVars, JoinTypes
  <2>2. CASE look.phase = "found"
    BY <1>5, <2>1, <2>2 DEF ReceiveLook, JoinTypes, ConflictStays, looking
  <2>3. CASE look.phase # "found"
    BY <1>5, <2>1, <2>3 DEF ReceiveLook, NoLook, JoinTypes, ConflictStays, looking
  <2>4. QED
    BY <2>2, <2>3
<1>6. CASE ConflictEffect
  BY <1>6 DEF ConflictEffect, linkVars, JoinTypes, ConflictStays, looking
<1>7. CASE JoinFails
  <2>1. CASE joinCall = "409"
    BY <1>7, <2>1, LooksAreTyped DEF JoinFails, LookAfterConflict, linkVars, JoinTypes,
       ConflictStays, looking
  <2>2. CASE joinCall # "409"
    BY <1>7, <2>2 DEF JoinFails, conflictVars, linkVars, JoinTypes, ConflictStays, looking
  <2>3. QED
    BY <2>1, <2>2
<1>8. CASE LeaveJoin
  BY <1>8, LooksAreTyped DEF LeaveJoin, linkVars, conflictVars, JoinTypes, ConflictStays
<1>9. QED
  BY <1>1, <1>2, <1>3, <1>4, <1>5, <1>6, <1>7, <1>8 DEF JoinNext

(* After a 409 the page offers the join again only on a look that began    *)
(* after it and succeeded (joinMutation's onError and the effect on        *)
(* joinConflict in JoinPreview).                                           *)
THEOREM JoinsFollowALook == JoinSpec => []AnotherJoinNeedsAnotherLook
<1>1. JoinInv => AnotherJoinNeedsAnotherLook
  BY DEF JoinInv, ConflictStays, AnotherJoinNeedsAnotherLook, joinOffered, active
<1>2. QED
  BY <1>1, JoinInitInv, JoinStepInv, PTL DEF JoinSpec

-------------------------------------------------------------------------------
(* The share dialog.                                                       *)
Code == [n : Nat, active : BOOLEAN]

Attempt == [set : BOOLEAN, pending : BOOLEAN, uncertain : BOOLEAN, completed : BOOLEAN,
            completedRead : Nat]

Answer == {"none", "ok", "403", "lost"}

ShareRead == [phase : {"idle", "sent", "answered"}, role : {"query", "orphan", "recovery"},
              revision : Nat, recovery : Nat, answer : Answer, value : Code]

ShareChange == [phase : {"idle", "sent", "answered", "settling"}, kind : {"issue", "revoke"},
                answer : Answer, value : Code]

ShareTypes ==
  /\ shareAttempt \in Attempt
  /\ attemptRev \in Nat /\ recovery \in Nat /\ readRev \in Nat /\ floor \in Nat
  /\ shareAccess \in Access
  /\ shareData \in Code /\ code \in Code /\ late \subseteq {"issue", "revoke"}
  /\ reads \in [Reads -> ShareRead]
  /\ change \in ShareChange

(* A change locks the dialog from onMutate to the end of its function, and *)
(* its value is of a code that exists.                                     *)
ChangesLock ==
  /\ change.phase \in {"sent", "answered"} =>
       shareAttempt.pending /\ ~shareAttempt.completed /\ recovery = 0
  /\ shareAttempt.completed => shareAttempt.pending
  /\ change.phase = "answered" /\ change.answer = "ok" => change.value.n <= code.n
  /\ change.phase = "settling" => change.value.n >= floor
  /\ floor <= code.n

(* Only one recovery has a say, and none that began before the last change.*)
RecoveriesAreNumbered ==
  \A f \in Reads : reads[f].phase # "idle" /\ reads[f].role = "recovery" =>
    reads[f].recovery # 0 /\ reads[f].recovery <= attemptRev

(* An answer that the dialog may still take is no older than the last      *)
(* change.                                                                 *)
Wanted(read) ==
  \/ read.role = "query"
  \/ read.role = "recovery" /\ read.recovery = recovery

TakenIsNoOlder ==
  \A f \in Reads :
    reads[f].phase = "answered" /\ reads[f].answer = "ok" /\ Wanted(reads[f])
    => reads[f].value.n >= floor

(* The dialog that is open for changes shows no older code, nor does one   *)
(* whose lock the next effect may lift.                                    *)
DataIsNoOlder ==
  shareLive =>
    /\ ~shareLocked => shareData.n >= floor
    /\ /\ shareAttempt.completed /\ readRev > shareAttempt.completedRead
       /\ ~fetching /\ shareStatus = "success"
       => shareData.n >= floor

ShareInv ==
  ShareTypes /\ ChangesLock /\ RecoveriesAreNumbered /\ TakenIsNoOlder /\ DataIsNoOlder

-------------------------------------------------------------------------------
(* Lemmas about the values the dialog stores.                              *)

LEMMA ShareValuesAreTyped ==
  /\ None \in Attempt /\ NeverShared \in Code /\ NoRead \in ShareRead /\ NoChange \in ShareChange
  /\ None.pending = FALSE /\ None.completed = FALSE
  /\ NoRead.phase = "idle" /\ NoChange.phase = "idle" /\ NeverShared.n = 0
BY DEF None, Attempt, NeverShared, Code, NoRead, ShareRead, NoChange, ShareChange, Answer

LEMMA AttemptsAreTyped ==
  ASSUME NEW p \in BOOLEAN, NEW u \in BOOLEAN
  PROVE  ShareAttempt(p, u, FALSE, 0) \in Attempt
BY DEF ShareAttempt, Attempt

LEMMA NewReadIsSent ==
  ASSUME ShareTypes, NEW role \in {"query", "recovery"}
  PROVE  /\ NewRead(role) \in ShareRead
         /\ NewRead(role).phase = "sent" /\ NewRead(role).role = role
<1>1. beginAccessRead(shareAccess) \in Nat
  BY AccessIsKept DEF ShareTypes
<1>2. \A n \in Nat : LET new == [NoRead EXCEPT !.phase = "sent", !.role = role, !.revision = n]
                     IN  new \in ShareRead /\ new.phase = "sent" /\ new.role = role
  BY ShareValuesAreTyped DEF ShareRead
<1>3. QED
  BY <1>1, <1>2 DEF NewRead

(* cancelQueries: nothing the query asked for is wanted any more.          *)
LEMMA CancelledReads ==
  ASSUME ShareTypes
  PROVE  /\ Cancelled(reads) \in [Reads -> ShareRead]
         /\ \A f \in Reads :
              \/ Cancelled(reads)[f] = reads[f] /\ (reads[f].phase = "idle" \/ reads[f].role # "query")
              \/ Cancelled(reads)[f].role = "orphan"
<1>1. \A f \in Reads : [reads[f] EXCEPT !.role = "orphan"] \in ShareRead
  BY DEF ShareTypes, ShareRead
<1>2. \A f \in Reads : [reads[f] EXCEPT !.role = "orphan"].role = "orphan"
  BY DEF ShareTypes, ShareRead
<1>3. QED
  BY <1>1, <1>2 DEF Cancelled, ShareTypes

(* Starting a read, after cancelling the others or beside them, brings no  *)
(* answer.                                                                 *)
LEMMA StartedRead ==
  ASSUME ShareTypes, RecoveriesAreNumbered, NEW rs \in {reads, Cancelled(reads)},
         NEW f \in Reads, NEW new \in ShareRead, new.phase = "sent",
         attemptRev' \in Nat, attemptRev' >= attemptRev,
         new.role = "recovery" => new.recovery # 0 /\ new.recovery <= attemptRev',
         reads' = [rs EXCEPT ![f] = new]
  PROVE  /\ reads' \in [Reads -> ShareRead] /\ reads'[f] = new
         /\ RecoveriesAreNumbered'
         /\ \A g \in Reads : reads'[g].phase = "answered" =>
              /\ reads'[g].role = "orphan" \/ reads'[g] = reads[g]
              /\ rs = Cancelled(reads) => reads'[g].role # "query"
<1>1. rs \in [Reads -> ShareRead]
  BY CancelledReads DEF ShareTypes
<1>2. reads' \in [Reads -> ShareRead] /\ reads'[f] = new /\ \A g \in Reads \ {f} : reads'[g] = rs[g]
  BY <1>1
<1>3. \A g \in Reads : rs[g] = reads[g] \/ rs[g].role = "orphan"
  BY CancelledReads
<1>4. RecoveriesAreNumbered'
  BY <1>2, <1>3 DEF RecoveriesAreNumbered, ShareTypes, ShareRead
<1>5. ASSUME NEW g \in Reads, reads'[g].phase = "answered"
      PROVE  /\ reads'[g].role = "orphan" \/ reads'[g] = reads[g]
             /\ rs = Cancelled(reads) => reads'[g].role # "query"
  <2>1. g # f /\ reads'[g] = rs[g]
    BY <1>2, <1>5
  <2>2. rs = Cancelled(reads) => reads'[g].role # "query"
    BY <1>5, <2>1, CancelledReads
  <2>3. QED
    BY <1>3, <2>1, <2>2
<1>6. QED
  BY <1>2, <1>4, <1>5

LEMMA AppliedIsNewer ==
  ASSUME ShareTypes, NEW kind \in {"issue", "revoke"}
  PROVE  Applied(kind) \in Code /\ Applied(kind).n > code.n
<1>1. code.n \in Nat
  BY DEF ShareTypes, Code
<1>2. Applied(kind).n = code.n + 1 /\ Applied(kind) \in Code
  <2>1. CASE kind = "issue"
    <3>1. (kind = "issue") = TRUE
      BY <2>1
    <3>2. QED
      BY <1>1, <3>1 DEF Applied, Code
  <2>2. CASE kind = "revoke"
    <3>1. (kind = "issue") = FALSE
      BY <2>2
    <3>2. QED
      BY <1>1, <3>1 DEF Applied, Code
  <2>3. QED
    BY <2>1, <2>2
<1>3. QED
  BY <1>1, <1>2

LEMMA ShareInitInv == ShareInit => ShareInv
<1> SUFFICES ASSUME ShareInit PROVE ShareInv
  OBVIOUS
<1>1. ShareTypes
  BY ShareValuesAreTyped DEF ShareInit, ShareTypes, resetAccessState, Access, NoRevision
<1>2. ChangesLock
  BY ShareValuesAreTyped DEF ShareInit, ChangesLock
<1>3. RecoveriesAreNumbered /\ TakenIsNoOlder /\ DataIsNoOlder
  BY ShareValuesAreTyped DEF ShareInit, RecoveriesAreNumbered, TakenIsNoOlder, DataIsNoOlder
<1>4. QED
  BY <1>1, <1>2, <1>3 DEF ShareInv

-------------------------------------------------------------------------------
(* The reads.                                                              *)

LEMMA QueryStartInv ==
  ASSUME ShareInv, OpenShare \/ Refocus PROVE ShareInv'
<1> USE DEF ShareInv
<1>1. UNCHANGED <<shareLive, shareAttempt, attemptRev, recovery, shareAccess, shareData,
                  shareStatus, change, codeVars, floor>>
  BY DEF OpenShare, Refocus, dialogVars
<1>2. CASE UNCHANGED <<readRev, reads>>
  BY <1>1, <1>2 DEF codeVars, ShareTypes, ChangesLock, RecoveriesAreNumbered, TakenIsNoOlder,
                    Wanted, DataIsNoOlder, shareLocked, fetching
<1>3. CASE \E f \in Spare : BeginQuery(reads, f)
  <2>1. PICK f \in Reads : reads' = [reads EXCEPT ![f] = NewRead("query")]
    BY <1>3 DEF BeginQuery, Spare
  <2>2. readRev' = readRev + 1
    BY <1>3 DEF BeginQuery
  <2>3. NewRead("query") \in ShareRead /\ NewRead("query").phase = "sent"
        /\ NewRead("query").role = "query"
    BY NewReadIsSent
  <2>4. /\ reads' \in [Reads -> ShareRead] /\ reads'[f] = NewRead("query")
        /\ RecoveriesAreNumbered'
        /\ \A g \in Reads : reads'[g].phase = "answered" =>
             reads'[g].role = "orphan" \/ reads'[g] = reads[g]
    <3>1. attemptRev' \in Nat /\ attemptRev' >= attemptRev
      BY <1>1 DEF ShareTypes
    <3>2. QED
      BY <2>1, <2>3, <3>1, StartedRead
  <2>5. ShareTypes'
    BY <1>1, <2>2, <2>4 DEF ShareTypes, codeVars
  <2>6. ChangesLock'
    BY <1>1 DEF ChangesLock, codeVars
  <2>7. TakenIsNoOlder'
    BY <1>1, <2>4 DEF TakenIsNoOlder, Wanted
  <2>8. fetching'
    BY <2>3, <2>4 DEF fetching
  <2>9. DataIsNoOlder'
    BY <1>1, <2>8 DEF DataIsNoOlder, shareLocked
  <2>10. QED
    BY <2>4, <2>5, <2>6, <2>7, <2>9
<1>4. QED
  BY <1>2, <1>3 DEF OpenShare, Refocus

(* The server answers with the code as it is now, which is no older than   *)
(* any change.                                                             *)
LEMMA ServeReadInv ==
  ASSUME ShareInv, NEW f \in Reads, ServeRead(f) PROVE ShareInv'
<1> USE DEF ShareInv
<1>1. PICK answer \in {"ok", "403", "lost"} :
        reads' = [reads EXCEPT ![f].phase = "answered", ![f].answer = answer,
                               ![f].value = IF answer = "ok" THEN code ELSE NeverShared]
  BY DEF ServeRead
<1> DEFINE value == IF answer = "ok" THEN code ELSE NeverShared
           new == [reads[f] EXCEPT !.phase = "answered", !.answer = answer, !.value = value]
<1>2. value \in Code /\ reads[f] \in ShareRead
  BY ShareValuesAreTyped DEF ShareTypes
<1>3. new \in ShareRead /\ new.role = reads[f].role /\ new.recovery = reads[f].recovery
      /\ new.phase = "answered" /\ new.answer = answer /\ new.value = value
  <2> HIDE DEF value
  <2>1. QED
    BY <1>2 DEF ShareRead, Answer
<1>4. reads' = [reads EXCEPT ![f] = new]
  BY <1>1 DEF ShareTypes
<1> HIDE DEF new
<1>5. UNCHANGED <<shareLive, shareAttempt, attemptRev, recovery, readRev, shareAccess, shareData,
                  shareStatus, change, code, late, floor>> /\ reads[f].phase = "sent"
  BY DEF ServeRead, dialogVars, codeVars
<1>6. ShareTypes'
  BY <1>3, <1>4, <1>5 DEF ShareTypes
<1>7. ChangesLock'
  BY <1>5 DEF ChangesLock
<1>8. RecoveriesAreNumbered'
  BY <1>3, <1>4, <1>5 DEF RecoveriesAreNumbered, ShareTypes
<1>9. TakenIsNoOlder'
  BY <1>3, <1>4, <1>5 DEF TakenIsNoOlder, Wanted, ShareTypes, ChangesLock
<1>10. fetching' = fetching
  BY <1>3, <1>4, <1>5 DEF fetching, ShareTypes
<1>11. DataIsNoOlder'
  BY <1>5, <1>10 DEF DataIsNoOlder, shareLocked
<1>12. QED
  BY <1>6, <1>7, <1>8, <1>9, <1>11

(* An answered read is put away.                                           *)
LEMMA PutAway ==
  ASSUME ShareTypes, RecoveriesAreNumbered, NEW f \in Reads,
         reads' = [reads EXCEPT ![f] = NoRead], attemptRev' = attemptRev
  PROVE  /\ reads' \in [Reads -> ShareRead] /\ RecoveriesAreNumbered'
         /\ \A g \in Reads : reads'[g].phase # "idle" => reads'[g] = reads[g]
         /\ reads[f].role # "query" => fetching' = fetching
<1>1. reads' \in [Reads -> ShareRead]
  BY ShareValuesAreTyped DEF ShareTypes
<1>2. \A g \in Reads : reads'[g].phase # "idle" => reads'[g] = reads[g]
  BY ShareValuesAreTyped DEF ShareTypes
<1>3. RecoveriesAreNumbered'
  BY <1>2 DEF RecoveriesAreNumbered
<1>4. reads[f].role # "query" => fetching' = fetching
  BY <1>2 DEF fetching, ShareTypes
<1>5. QED
  BY <1>1, <1>2, <1>3, <1>4

LEMMA ReceiveQueryInv ==
  ASSUME ShareInv, NEW f \in Reads, ReceiveQuery(f) PROVE ShareInv'
<1> USE DEF ShareInv
<1>1. /\ reads' = [reads EXCEPT ![f] = NoRead] /\ reads[f].phase = "answered"
      /\ reads[f].role # "recovery"
      /\ UNCHANGED <<shareLive, shareAttempt, attemptRev, recovery, readRev, change, code, late, floor>>
  BY DEF ReceiveQuery, dialogVars, codeVars
<1>2. /\ reads' \in [Reads -> ShareRead] /\ RecoveriesAreNumbered'
      /\ \A g \in Reads : reads'[g].phase # "idle" => reads'[g] = reads[g]
      /\ reads[f].role # "query" => fetching' = fetching
  BY <1>1, PutAway
<1>3. shareAccess' \in Access
  BY AccessIsKept DEF ReceiveQuery, ShareTypes
<1>4. \/ UNCHANGED <<shareData, shareStatus>> /\ reads[f].role # "query"
      \/ shareData' = reads[f].value /\ reads[f].role = "query" /\ reads[f].answer = "ok"
      \/ shareData' = shareData /\ shareStatus' = "error"
  BY DEF ReceiveQuery, ShareTypes, ShareRead
<1>5. ShareTypes'
  BY <1>1, <1>2, <1>3, <1>4 DEF ShareTypes, ShareRead
<1>6. ChangesLock'
  BY <1>1 DEF ChangesLock
<1>7. TakenIsNoOlder'
  BY <1>1, <1>2 DEF TakenIsNoOlder, Wanted
<1>8. DataIsNoOlder'
  <2>1. CASE UNCHANGED <<shareData, shareStatus>> /\ reads[f].role # "query"
    BY <1>1, <1>2, <2>1 DEF DataIsNoOlder, shareLocked
  <2>2. CASE shareData' = reads[f].value /\ reads[f].role = "query" /\ reads[f].answer = "ok"
    <3>1. shareData'.n >= floor'
      BY <1>1, <2>2 DEF TakenIsNoOlder, Wanted
    <3>2. QED
      BY <3>1 DEF DataIsNoOlder
  <2>3. CASE shareData' = shareData /\ shareStatus' = "error"
    BY <1>1, <2>3 DEF DataIsNoOlder, shareLocked
  <2>4. QED
    BY <1>4, <2>1, <2>2, <2>3
<1>9. QED
  BY <1>2, <1>5, <1>6, <1>7, <1>8

-------------------------------------------------------------------------------
(* The recoveries.                                                         *)

LEMMA RecoverInv ==
  ASSUME ShareInv, Recover PROVE ShareInv'
<1> USE DEF ShareInv
<1>1. /\ ~shareAttempt.pending /\ attemptRev' = attemptRev + 1 /\ recovery' = attemptRev + 1
      /\ UNCHANGED <<shareLive, shareAttempt, readRev, shareAccess, shareData, shareStatus,
                     change, code, late, floor>>
  BY DEF Recover, recoveryOffered, beginShareRecovery, codeVars
<1> DEFINE new == [NewRead("recovery") EXCEPT !.recovery = attemptRev + 1]
<1>2. PICK f \in Reads : reads' = [Cancelled(reads) EXCEPT ![f] = new]
  BY DEF Recover, Spare
<1>3. new \in ShareRead /\ new.phase = "sent" /\ new.role = "recovery"
      /\ new.recovery = attemptRev + 1
  BY NewReadIsSent DEF ShareTypes, ShareRead
<1> HIDE DEF new
<1>4. /\ reads' \in [Reads -> ShareRead] /\ RecoveriesAreNumbered'
      /\ \A g \in Reads : reads'[g].phase = "answered" =>
           /\ reads'[g].role = "orphan" \/ reads'[g] = reads[g]
           /\ reads'[g].role # "query"
  <2>1. /\ attemptRev' \in Nat /\ attemptRev' >= attemptRev
        /\ new.recovery # 0 /\ new.recovery <= attemptRev'
    BY <1>1, <1>3 DEF ShareTypes
  <2>2. QED
    BY <1>2, <1>3, <2>1, StartedRead
<1>5. ShareTypes'
  BY <1>1, <1>4 DEF ShareTypes
<1>6. ChangesLock'
  BY <1>1 DEF ChangesLock
<1>7. TakenIsNoOlder'
  BY <1>1, <1>4 DEF TakenIsNoOlder, Wanted, RecoveriesAreNumbered, ShareTypes, ShareRead
<1>8. DataIsNoOlder'
  BY <1>1 DEF DataIsNoOlder, shareLocked, ChangesLock
<1>9. QED
  BY <1>4, <1>5, <1>6, <1>7, <1>8

LEMMA FinishRecoveryInv ==
  ASSUME ShareInv, NEW f \in Reads, FinishRecovery(f) PROVE ShareInv'
<1> USE DEF ShareInv
<1>1. /\ reads' = [reads EXCEPT ![f] = NoRead] /\ reads[f].phase = "answered"
      /\ reads[f].role = "recovery"
      /\ UNCHANGED <<shareLive, attemptRev, readRev, change, code, late, floor>>
  BY DEF FinishRecovery, codeVars
<1>2. /\ reads' \in [Reads -> ShareRead] /\ RecoveriesAreNumbered'
      /\ \A g \in Reads : reads'[g].phase # "idle" => reads'[g] = reads[g]
      /\ fetching' = fetching
  BY <1>1, PutAway
<1>3. shareAccess' \in Access
  BY AccessIsKept DEF FinishRecovery, ShareTypes
<1>4. recovery' = recovery \/ recovery' = 0
  BY DEF FinishRecovery, clearShareRecovery
<1>5. \/ UNCHANGED <<shareData, shareStatus, shareAttempt>>
      \/ /\ shareData' = reads[f].value /\ shareAttempt' = None
         /\ reads[f].answer = "ok" /\ recovery = reads[f].recovery
  BY DEF FinishRecovery, isCurrentShareRecovery
<1>6. reads[f].recovery # 0
  BY <1>1 DEF RecoveriesAreNumbered
<1>7. ShareTypes'
  BY <1>1, <1>2, <1>3, <1>4, <1>5, ShareValuesAreTyped DEF ShareTypes, ShareRead
<1>8. ChangesLock'
  BY <1>1, <1>4, <1>5, <1>6, ShareValuesAreTyped DEF ChangesLock
<1>9. TakenIsNoOlder'
  <2>1. CASE recovery' = recovery
    BY <1>1, <1>2, <2>1 DEF TakenIsNoOlder, Wanted
  <2>2. CASE recovery' = 0
    BY <1>1, <1>2, <2>2 DEF TakenIsNoOlder, Wanted, RecoveriesAreNumbered
  <2>3. QED
    BY <1>4, <2>1, <2>2
<1>10. DataIsNoOlder'
  BY <1>1, <1>2, <1>5, ShareValuesAreTyped DEF DataIsNoOlder, shareLocked, TakenIsNoOlder, Wanted
<1>11. QED
  BY <1>2, <1>7, <1>8, <1>9, <1>10

-------------------------------------------------------------------------------
(* The changes.                                                            *)

LEMMA BeginChangeInv ==
  ASSUME ShareInv, NEW kind \in {"issue", "revoke"}, BeginChange(kind) PROVE ShareInv'
<1> USE DEF ShareInv
<1>1. /\ attemptRev' = attemptRev + 1 /\ recovery' = 0
      /\ shareAttempt' = ShareAttempt(TRUE, FALSE, FALSE, 0)
      /\ change' = [NoChange EXCEPT !.phase = "sent", !.kind = kind]
      /\ UNCHANGED <<shareLive, readRev, shareAccess, shareData, shareStatus, reads, code, late, floor>>
  BY DEF BeginChange, invalidateShareRecovery, queryVars, codeVars
<1>2. shareAttempt' \in Attempt /\ shareAttempt'.pending /\ ~shareAttempt'.completed
  BY <1>1, AttemptsAreTyped DEF ShareAttempt
<1>3. change' \in ShareChange /\ change'.phase = "sent"
  BY <1>1, ShareValuesAreTyped DEF ShareChange
<1>4. ShareTypes'
  <2>1. attemptRev' \in Nat /\ recovery' \in Nat
    BY <1>1 DEF ShareTypes
  <2>2. UNCHANGED <<readRev, shareAccess, shareData, reads, code, late, floor>>
    BY <1>1
  <2>3. QED
    BY <1>2, <1>3, <2>1, <2>2 DEF ShareTypes
<1>5. ChangesLock'
  BY <1>1, <1>2, <1>3 DEF ChangesLock
<1>6. RecoveriesAreNumbered'
  BY <1>1 DEF RecoveriesAreNumbered, ShareTypes, ShareRead
<1>7. TakenIsNoOlder'
  BY <1>1 DEF TakenIsNoOlder, Wanted, RecoveriesAreNumbered
<1>8. DataIsNoOlder'
  BY <1>1, <1>2 DEF DataIsNoOlder, shareLocked
<1>9. QED
  BY <1>4, <1>5, <1>6, <1>7, <1>8

(* The server's side: codes are numbered on, and an answer that says ok is *)
(* of one that exists.                                                     *)
LEMMA ServerInv ==
  ASSUME ShareInv, ServeChange \/ LoseChange \/ ApplyLate \/ OtherChange \/ Demote
  PROVE  ShareInv'
<1> USE DEF ShareInv
<1>1. UNCHANGED <<shareLive, shareAttempt, attemptRev, recovery, readRev, shareAccess, shareData,
                  shareStatus, reads, floor>>
  BY DEF ServeChange, LoseChange, ApplyLate, OtherChange, Demote, dialogVars, queryVars
<1>2. code' \in Code /\ code'.n >= code.n
  <2>1. code \in Code /\ code.n >= code.n
    BY DEF ShareTypes, Code
  <2>2. \A kind \in {"issue", "revoke"} : Applied(kind) \in Code /\ Applied(kind).n >= code.n
    BY <2>1, AppliedIsNewer DEF Code
  <2>3. change.kind \in {"issue", "revoke"} /\ late \subseteq {"issue", "revoke"}
    BY DEF ShareTypes, ShareChange
  <2>4. QED
    BY <2>1, <2>2, <2>3 DEF ServeChange, LoseChange, ApplyLate, OtherChange, Demote
<1>3. late' \subseteq {"issue", "revoke"}
  BY DEF ServeChange, LoseChange, ApplyLate, OtherChange, Demote, codeVars, ShareTypes, ShareChange
<1>4. /\ change' \in ShareChange
      /\ \/ change'.phase = change.phase
         \/ change.phase \in {"sent", "answered"} /\ change'.phase = "answered"
      /\ change' = change \/ change'.answer # "ok" \/ change'.value = code'
      /\ change'.phase = "settling" => change' = change
  <2>1. CASE change' = change
    BY <2>1 DEF ShareTypes
  <2>2. CASE change.phase \in {"sent", "answered"}
             /\ change' = [change EXCEPT !.phase = "answered", !.answer = "ok", !.value = code']
    BY <1>2, <2>2 DEF ShareTypes, ShareChange, Answer
  <2>3. ASSUME NEW answer \in {"403", "lost"}, change.phase \in {"sent", "answered"},
               change' = [change EXCEPT !.phase = "answered", !.answer = answer]
        PROVE  change' \in ShareChange /\ change'.phase = "answered" /\ change'.answer # "ok"
    BY <2>3 DEF ShareTypes, ShareChange, Answer
  <2>4. QED
    BY <2>1, <2>2, <2>3 DEF ServeChange, LoseChange, ApplyLate, OtherChange, Demote
<1>5. ShareTypes'
  BY <1>1, <1>2, <1>3, <1>4 DEF ShareTypes
<1>6. ChangesLock'
  <2>1. code.n \in Nat /\ code'.n \in Nat /\ change.value.n \in Nat /\ floor \in Nat
    BY <1>2 DEF ShareTypes, Code, ShareChange
  <2>2. change'.phase \in {"sent", "answered"} => change.phase \in {"sent", "answered"}
    BY <1>4
  <2>3. change'.phase = "answered" /\ change'.answer = "ok" => change'.value.n <= code'.n
    BY <1>2, <1>4, <2>1 DEF ChangesLock
  <2>4. QED
    BY <1>1, <1>2, <1>4, <2>1, <2>2, <2>3 DEF ChangesLock
<1>7. RecoveriesAreNumbered' /\ TakenIsNoOlder'
  BY <1>1 DEF RecoveriesAreNumbered, TakenIsNoOlder, Wanted
<1>8. DataIsNoOlder'
  BY <1>1 DEF DataIsNoOlder, shareLocked, fetching
<1>9. QED
  BY <1>5, <1>6, <1>7, <1>8

(* The answer of a change arrives: from here on the code is known, the     *)
(* dialog stays locked and no read that was under way is wanted.           *)
LEMMA CompleteChangeInv ==
  ASSUME ShareInv, CompleteChange PROVE ShareInv'
<1> USE DEF ShareInv
<1>1. /\ change.phase = "answered" /\ change.answer = "ok"
      /\ shareAttempt' = [shareAttempt EXCEPT !.completed = TRUE, !.completedRead = readRev]
      /\ reads' = Cancelled(reads) /\ change' = [change EXCEPT !.phase = "settling"]
      /\ floor' = change.value.n
      /\ UNCHANGED <<shareLive, attemptRev, recovery, readRev, shareAccess, shareData, shareStatus,
                     code, late>>
  BY DEF CompleteChange, codeVars
<1>2. /\ shareAttempt' \in Attempt /\ shareAttempt'.pending /\ shareAttempt'.completed
      /\ shareAttempt'.completedRead = readRev
  BY <1>1 DEF ShareTypes, Attempt, ChangesLock
<1>3. change' \in ShareChange /\ change'.phase = "settling" /\ change'.value = change.value
      /\ change.value.n \in Nat
  BY <1>1 DEF ShareTypes, ShareChange, Code
<1>4. ShareTypes'
  BY <1>1, <1>2, <1>3, CancelledReads DEF ShareTypes
<1>5. ChangesLock'
  BY <1>1, <1>2, <1>3 DEF ChangesLock
<1>6. RecoveriesAreNumbered'
  BY <1>1, CancelledReads DEF RecoveriesAreNumbered
<1>7. TakenIsNoOlder'
  <2>1. recovery = 0
    BY <1>1 DEF ChangesLock
  <2>2. QED
    BY <1>1, <2>1, CancelledReads DEF TakenIsNoOlder, Wanted, RecoveriesAreNumbered
<1>8. DataIsNoOlder'
  BY <1>1, <1>2 DEF DataIsNoOlder, shareLocked, ShareTypes
<1>9. QED
  BY <1>4, <1>5, <1>6, <1>7, <1>8

(* The rest of onSuccess: the lock ends on the value of the answer.        *)
LEMMA FinishChangeInv ==
  ASSUME ShareInv, FinishChange PROVE ShareInv'
<1> USE DEF ShareInv
<1>1. /\ change.phase = "settling" /\ change' = NoChange
      /\ UNCHANGED <<shareLive, attemptRev, recovery, shareAccess, code, late, floor>>
  BY DEF FinishChange, codeVars
<1>2. change.value \in Code /\ change.value.n >= floor
  BY <1>1 DEF ShareTypes, ShareChange, ChangesLock
<1>3. ChangesLock' /\ shareAttempt' \in Attempt
  BY <1>1, ShareValuesAreTyped DEF FinishChange, ChangesLock, ShareTypes
<1>4. CASE UNCHANGED <<readRev, reads>>
  <2>1. shareData' \in Code
    BY <1>2 DEF FinishChange, ShareTypes
  <2>2. ShareTypes'
    BY <1>1, <1>3, <1>4, <2>1, ShareValuesAreTyped DEF ShareTypes
  <2>3. RecoveriesAreNumbered' /\ TakenIsNoOlder'
    BY <1>1, <1>4 DEF RecoveriesAreNumbered, TakenIsNoOlder, Wanted
  <2>4. DataIsNoOlder'
    BY <1>1, <1>2 DEF FinishChange, DataIsNoOlder
  <2>5. QED
    BY <1>3, <2>2, <2>3, <2>4
<1>5. CASE shareLive /\ \E f \in Spare : BeginQuery(Cancelled(reads), f)
  <2>1. PICK f \in Reads : reads' = [Cancelled(reads) EXCEPT ![f] = NewRead("query")]
    BY <1>5 DEF BeginQuery, Spare
  <2>2. readRev' = readRev + 1
    BY <1>5 DEF BeginQuery
  <2>3. NewRead("query") \in ShareRead /\ NewRead("query").phase = "sent"
        /\ NewRead("query").role = "query"
    BY NewReadIsSent
  <2>4. attemptRev' \in Nat /\ attemptRev' >= attemptRev
    BY <1>1 DEF ShareTypes
  <2>5. /\ reads' \in [Reads -> ShareRead] /\ RecoveriesAreNumbered'
        /\ \A g \in Reads : reads'[g].phase = "answered" =>
             reads'[g].role = "orphan" \/ reads'[g] = reads[g]
    BY <2>1, <2>3, <2>4, StartedRead
  <2>6. shareData' = change.value
    BY <1>5 DEF FinishChange
  <2>7. ShareTypes'
    BY <1>1, <1>2, <1>3, <2>2, <2>5, <2>6, ShareValuesAreTyped DEF ShareTypes
  <2>8. TakenIsNoOlder'
    BY <1>1, <2>5 DEF TakenIsNoOlder, Wanted
  <2>9. DataIsNoOlder'
    BY <1>1, <1>2, <2>6 DEF DataIsNoOlder
  <2>10. QED
    BY <1>3, <2>5, <2>7, <2>8, <2>9
<1>6. QED
  BY <1>4, <1>5 DEF FinishChange

(* A change without a good answer: its outcome is uncertain, so the dialog *)
(* stays locked, and only a read that began afterwards is wanted.          *)
LEMMA FailChangeInv ==
  ASSUME ShareInv, FailChange PROVE ShareInv'
<1> USE DEF ShareInv
<1>1. /\ change.phase = "answered" /\ change' = NoChange
      /\ shareAttempt' = ShareAttempt(FALSE, TRUE, FALSE, 0) /\ floor' = code.n
      /\ shareAccess' \in {shareAccess, recordAccessDenial(shareAccess)}
      /\ UNCHANGED <<shareLive, attemptRev, recovery, shareData, shareStatus, code, late>>
  BY DEF FailChange, codeVars
<1>2. shareAttempt' \in Attempt /\ ~shareAttempt'.pending /\ ~shareAttempt'.completed
      /\ shareAttempt'.uncertain
  BY <1>1, AttemptsAreTyped DEF ShareAttempt
<1>3. shareAccess' \in Access
  BY <1>1, AccessIsKept DEF ShareTypes
<1>4. code.n \in Nat /\ attemptRev' \in Nat /\ attemptRev' >= attemptRev /\ recovery = 0
  BY <1>1 DEF ShareTypes, Code, ChangesLock
<1> DEFINE new == [NewRead("query") EXCEPT !.revision = shareAccess'.version]
<1>5. PICK f \in Reads : readRev' = readRev + 1 /\ reads' = [Cancelled(reads) EXCEPT ![f] = new]
  BY DEF FailChange, Spare
<1>6. new \in ShareRead /\ new.phase = "sent" /\ new.role = "query"
  BY <1>3, NewReadIsSent DEF Access, ShareRead
<1> HIDE DEF new
<1>7. /\ reads' \in [Reads -> ShareRead] /\ RecoveriesAreNumbered'
      /\ \A g \in Reads : reads'[g].phase = "answered" => reads'[g].role # "query"
  BY <1>4, <1>5, <1>6, StartedRead
<1>8. /\ change' = NoChange /\ floor' = code.n /\ readRev' \in Nat
      /\ UNCHANGED <<recovery, shareData, code, late>>
  BY <1>1, <1>5 DEF ShareTypes
<1>9. ShareTypes'
  BY <1>2, <1>3, <1>4, <1>7, <1>8, ShareValuesAreTyped DEF ShareTypes
<1>10. ChangesLock'
  <2>1. change'.phase = "idle" /\ floor' <= code'.n
    BY <1>4, <1>8, ShareValuesAreTyped
  <2>2. QED
    BY <1>2, <2>1 DEF ChangesLock
<1>11. TakenIsNoOlder'
  BY <1>1, <1>4, <1>7 DEF TakenIsNoOlder, Wanted, RecoveriesAreNumbered
<1>12. DataIsNoOlder'
  BY <1>1, <1>2 DEF DataIsNoOlder, shareLocked
<1>13. QED
  BY <1>7, <1>9, <1>10, <1>11, <1>12

-------------------------------------------------------------------------------
LEMMA ShareStepInv == ShareInv /\ [ShareNext]_shareVars => ShareInv'
<1> SUFFICES ASSUME ShareInv, [ShareNext]_shareVars PROVE ShareInv'
  OBVIOUS
<1>1. CASE UNCHANGED shareVars \/ CloseShare
  <2>1. UNCHANGED <<shareLive, shareAttempt, attemptRev, recovery, readRev, shareAccess, shareData,
                    shareStatus, reads, change, code, late, floor>>
    BY <1>1 DEF shareVars, CloseShare, queryVars, codeVars
  <2>2. QED
    BY <2>1 DEF ShareInv, ShareTypes, ChangesLock, RecoveriesAreNumbered, TakenIsNoOlder, Wanted,
       DataIsNoOlder, shareLocked, fetching
<1>2. CASE ClearShareDenial
  <2>1. shareAccess' \in Access
    BY <1>2, AccessIsKept DEF ClearShareDenial, ShareInv, ShareTypes
  <2>2. UNCHANGED <<shareLive, shareAttempt, attemptRev, recovery, readRev, shareData,
                    shareStatus, reads, change, code, late, floor>>
    BY <1>2 DEF ClearShareDenial, dialogVars, codeVars
  <2>3. QED
    BY <2>1, <2>2 DEF ShareInv, ShareTypes, ChangesLock, RecoveriesAreNumbered, TakenIsNoOlder,
       Wanted, DataIsNoOlder, shareLocked, fetching
<1>3. CASE ClearCompleted
  <2>1. /\ shareAttempt' = None /\ shareAttempt.completed /\ shareStatus = "success" /\ ~fetching
        /\ readRev > shareAttempt.completedRead
        /\ UNCHANGED <<shareLive, attemptRev, recovery, readRev, shareAccess, shareData,
                       shareStatus, reads, change, code, late, floor>>
    BY <1>3 DEF ClearCompleted, queryVars, codeVars
  <2>2. ShareTypes'
    BY <2>1, ShareValuesAreTyped DEF ShareInv, ShareTypes
  <2>3. ChangesLock'
    BY <2>1, ShareValuesAreTyped DEF ShareInv, ChangesLock
  <2>4. RecoveriesAreNumbered' /\ TakenIsNoOlder'
    BY <2>1 DEF ShareInv, RecoveriesAreNumbered, TakenIsNoOlder, Wanted
  <2>5. DataIsNoOlder'
    BY <2>1 DEF ShareInv, DataIsNoOlder
  <2>6. QED
    BY <2>2, <2>3, <2>4, <2>5 DEF ShareInv
<1>4. CASE EndShareSession
  <2>1. /\ ~shareLive' /\ shareData' = NeverShared /\ reads' = [f \in Reads |-> NoRead]
        /\ UNCHANGED <<shareAttempt, attemptRev, recovery, readRev, shareAccess, change, code,
                       late, floor>>
    BY <1>4 DEF EndShareSession, codeVars
  <2>2. ShareTypes'
    BY <2>1, ShareValuesAreTyped DEF ShareInv, ShareTypes
  <2>3. ChangesLock' /\ DataIsNoOlder'
    BY <2>1 DEF ShareInv, ChangesLock, DataIsNoOlder
  <2>4. RecoveriesAreNumbered' /\ TakenIsNoOlder'
    BY <2>1, ShareValuesAreTyped DEF RecoveriesAreNumbered, TakenIsNoOlder
  <2>5. QED
    BY <2>2, <2>3, <2>4 DEF ShareInv
<1>5. CASE OpenShare \/ Refocus
  BY <1>5, QueryStartInv
<1>6. CASE BeginChange("issue") \/ BeginChange("revoke")
  BY <1>6, BeginChangeInv
<1>7. CASE ServeChange \/ LoseChange \/ ApplyLate \/ OtherChange \/ Demote
  BY <1>7, ServerInv
<1>8. CASE CompleteChange \/ FinishChange \/ FailChange
  BY <1>8, CompleteChangeInv, FinishChangeInv, FailChangeInv
<1>9. CASE Recover
  BY <1>9, RecoverInv
<1>10. ASSUME NEW f \in Reads, ServeRead(f) \/ ReceiveQuery(f) \/ FinishRecovery(f)
       PROVE  ShareInv'
  BY <1>10, ServeReadInv, ReceiveQueryInv, FinishRecoveryInv
<1>11. QED
  BY <1>1, <1>2, <1>3, <1>4, <1>5, <1>6, <1>7, <1>8, <1>9, <1>10 DEF ShareNext

(* What the share dialog shows is never older than the last change of this *)
(* page, for any number of reads, recoveries and changes of others: the    *)
(* numbers kept in state.ts tell an answer from before the change from one *)
(* after it.                                                               *)
THEOREM SharedCodesAreRecent == ShareSpec => []ShownIsNoOlderThanOwnChange
<1>1. ShareInv => ShownIsNoOlderThanOwnChange
  BY DEF ShareInv, DataIsNoOlder, ShownIsNoOlderThanOwnChange, shown
<1>2. QED
  BY <1>1, ShareInitInv, ShareStepInv, PTL DEF ShareSpec
=============================================================================
