\* Three POSTs of a page and a script; two transactions of two members on one
\* schedule; two plan items and the graphs of three tasks; one row with two
\* properties or two times, up to three versions of it.
SPECIFICATION WorkSpec
CONSTANTS
  Posts = {t1, t2, p3}
  NoPost = none
  Names = {plain, other, blank}
  Unacceptable = {blank}
  Requests = {q1, q2}
  ScriptRequests = {s1}
  MaxSessions = 2
  Users = {u1, u2}
  Writers = {u1, u2}
  Acknowledgers = {u1, u2}
  External = external
  Threads = {t1, t2}
  NoThread = none
  MaxWrites = 1
  Items = {t1, t2}
  NoItem = none
  Elsewhere = elsewhere
  Nodes = {n1, n2, n3}
  Clients = {c1}
  Dates = {d1}
  MaxVersion = 1
  FormTimes = {1, 2}
  FormValues = {1, 2}
  MaxRowVersion = 3
  Props = {v1, v2}
  PropValues = {1, 2}
  MaxValueVersion = 3
  Instants = {0, 1, 2}
  MaxTimeVersion = 3
SYMMETRY Symmetry
INVARIANTS
  OneProjectPerIntent
  AcknowledgedAsSeen
  NoItemIsItsOwnAncestor
  SomeTaskCanStart
  SearchIsExact
  SnapshotsAreCoherent
PROPERTIES
  NoLostUpdate
  ImplementsLifecycle
  OnlyShownSchedulesAreReplaced
  NoUnseenValueIsReplaced
  NoUnseenTimeIsReplaced
\* the page that created a project is left, and every counter is bounded
CHECK_DEADLOCK FALSE
