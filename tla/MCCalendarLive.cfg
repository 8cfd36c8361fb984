\* One schedule, confirmed and cancelled; one request may outlive its claim,
\* and the grant may change once.
CONSTANTS
  N = 1
  Workers = {w1}
  NoWorker = NoWorker
  Calendars = {k1}
  NoCalendar = NoCalendar
  PageSize = 1
  Window = 2
  MaxRev = 2
  MaxBinding = 1
  MaxCred = 1
  MaxInFlight = 2
  Demotions = FALSE
  TimePasses = FALSE
SPECIFICATION CalLiveSpec
PROPERTIES
  CancelledEventGoes
\* users may stop and every counter is bounded
CHECK_DEADLOCK FALSE
