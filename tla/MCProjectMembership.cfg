\* Three users, two e-mail invitations, two codes, two requests that wait for the
\* lock; a share dialog and the pages of a link and of an invitation with two or
\* three reads each.
SPECIFICATION AdmissionSpec
CONSTANTS
  Users = {u1, u2, u3}
  Verified = {u1, u2}
  Creator = u1
  Tokens = {k1, k2}
  Codes = {c1, c2}
  NoCode = none
  Requests = {r1, r2}
  Reads = {r1, r2}
  MaxCodes = 2
  MaxReads = 3
  MaxAttempts = 2
  Looks = {r1, r2, f3}
  MaxRefusals = 2
SYMMETRY Symmetry
INVARIANTS
  ManagerRemains
  ShownIsNoOlderThanOwnChange
  AnotherJoinNeedsAnotherLook
  AnsweredInvitationIsNotOffered
PROPERTIES
  EveryAdmissionIsCovered
\* a page ends with its session, and every counter is bounded
CHECK_DEADLOCK FALSE
