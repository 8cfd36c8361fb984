\* Two threads compete for a refresh while a consent and disconnects move the
\* generation; no symmetry, because liveness is checked.
CONSTANTS
  Callers = {c1, c2}
  Intents = {i1}
  Features = {GMAIL}
  NoCaller = NoCaller
  MaxGen = 3
  MaxToken = 4
SPECIFICATION GrantLiveSpec
INVARIANTS
  CurrentCredentialIsStored
  ConsentNeverUndoesDisconnect
PROPERTIES
  RefreshCompletes
