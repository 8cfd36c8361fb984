-------------------------- MODULE MCProjectMembership --------------------------
(***************************************************************************)
(* Small instances of how people come into a project: the memberships with *)
(* their invitations and share code on the server, and the three pages     *)
(* that issue, follow or answer one, each with the server as that page     *)
(* sees it. A behaviour is of one of them, chosen at its start; the        *)
(* variables of the others stay as they begin.                             *)
(***************************************************************************)
EXTENDS ProjectMembership, ShareInvitation, JoinPreview, EmailInvitation, TLC

VARIABLE part

Symmetry == Permutations(Requests) \cup Permutations(Tokens) \cup Permutations(Codes)

AdmissionInit ==
  /\ part \in {"members", "share", "join", "invite"}
  /\ MembershipInit /\ ShareInit /\ JoinInit /\ InviteInit
  /\ part # "join" => ~over /\ ~member

AdmissionNext ==
  /\ UNCHANGED part
  /\ \/ part = "members" /\ MembershipNext /\ UNCHANGED <<shareVars, joinVars, inviteVars>>
     \/ part = "share" /\ ShareNext /\ UNCHANGED <<vars, joinVars, inviteVars>>
     \/ part = "join" /\ JoinNext /\ UNCHANGED <<vars, shareVars, inviteVars>>
     \/ part = "invite" /\ InviteNext /\ UNCHANGED <<vars, shareVars, joinVars>>

AdmissionSpec == AdmissionInit /\ [][AdmissionNext]_<<part, vars, shareVars, joinVars, inviteVars>>
=============================================================================
