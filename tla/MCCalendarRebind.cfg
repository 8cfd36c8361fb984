\* Two schedules, two calendars, back-fill pages of one: bind, disconnect and bind
\* again while a request of the former binding is under way, confirm a schedule
\* behind the cursor, and demote the owner.
CONSTANTS
  N = 2
  Workers = {w1}
  NoWorker = NoWorker
  Calendars = {k1, k2}
  NoCalendar = NoCalendar
  PageSize = 1
  Window = 1
  MaxRev = 1
  MaxBinding = 3
  MaxCred = 0
  MaxInFlight = 1
  Demotions = TRUE
  TimePasses = FALSE
SPECIFICATION CalSpec
SYMMETRY Symmetry
INVARIANTS
  SyncedIsDelivered
\* users may stop and every counter is bounded
CHECK_DEADLOCK FALSE
