\* Two requests of a page over two sessions, one schedule on display, zones with
\* one season and up to three events, two accounts on their way back from Google,
\* two mails.
SPECIFICATION ScreensSpec
CONSTANTS
  HttpRequests = {r1, r2}
  MaxGeneration = 3
  MaxLogins = 2
  MaxDenials = 2
  MaxChanges = 2
  Events = {e1}
  Times = {1, 2}
  MaxEdits = 2
  ReturnUsers = {u, v}
  ReturnPaths = {w}
  MaxAge = 2
  MaxNow = 4
  Quarter = 2
  Standards = {3}
  Savings = {1, 2}
  LastChange = 9
  MaxRows = 3
  MaxMails = 2
  MaxMounts = 2
SYMMETRY Symmetry
INVARIANTS
  WriteKeepsItsSession
  EndedSessionStaysEmpty
  SuccessIsTrue
  ArithmeticIsExact
  SentIsOfTheLastMail
PROPERTIES
  OnlyItsOwnAnswerEndsASession
  DenialOutlivesOlderReads
  NoWriteOnAnUnknownOutcome
  WayBackIsOwnAndRecent
\* readers may stop and every counter is bounded
CHECK_DEADLOCK FALSE
