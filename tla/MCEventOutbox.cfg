\* Two commands and two pollers, two connections, two events, the older one
\* poison; no symmetry, because liveness is checked.
SPECIFICATION OutboxFairSpec
CONSTANTS
  N = 2
  Requests = {r1, r2}
  Pollers = {p1, p2}
  NoThread = none
  Batch = 2
  PoolSize = 2
  Poison = {1}
  MaxCrashes = 2
PROPERTIES
  ImplementsReliableEvents
  EveryEventTakesEffect
  NobodyWaitsForEver
CHECK_DEADLOCK FALSE
