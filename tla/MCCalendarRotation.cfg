\* Two schedules, one worker, back-fill pages of one: two rows take turns in the
\* queue while a new binding queues them again.
CONSTANTS
  N = 2
  Workers = {w1}
  NoWorker = NoWorker
  Calendars = {k1}
  NoCalendar = NoCalendar
  PageSize = 1
  Window = 2
  MaxRev = 1
  MaxBinding = 2
  MaxCred = 0
  MaxInFlight = 1
  Demotions = FALSE
  TimePasses = FALSE
SPECIFICATION CalRotationSpec
PROPERTIES
  NoRowStarves
\* users may stop and every counter is bounded
CHECK_DEADLOCK FALSE
