\* One request and two threads: a retry in parallel with the first attempt, and
\* two consents over three grant generations.
CONSTANTS
  Callers = {c1, c2}
  Intents = {i1, i2}
  Features = {GMAIL}
  NoCaller = NoCaller
  MaxGen = 3
  MaxToken = 4
  Requests = {r1}
  Payloads = {p1, p2}
  NoPayload = NoPayload
  NoRequest = NoRequest
  GMAIL = GMAIL
  Recipients = 2
SPECIFICATION MailLiveSpec
INVARIANTS
  AtMostOneMessage
  DefinitiveReceiptIsTrue
PROPERTIES
  SentUnderTheSameGrant
  EverySendSettles
