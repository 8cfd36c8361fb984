\* Two workers, one schedule: confirm, update or cancel, with expired leases, late
\* requests and audit windows that run out.
CONSTANTS
  N = 1
  Workers = {w1, w2}
  NoWorker = NoWorker
  Calendars = {k1}
  NoCalendar = NoCalendar
  PageSize = 1
  Window = 1
  MaxRev = 2
  MaxBinding = 1
  MaxCred = 0
  MaxInFlight = 2
  Demotions = FALSE
  TimePasses = TRUE
SPECIFICATION CalSpec
SYMMETRY Symmetry
INVARIANTS
  UncertainWriteIsAudited
PROPERTIES
  ProviderNeverRegresses
\* users may stop and every counter is bounded
CHECK_DEADLOCK FALSE
