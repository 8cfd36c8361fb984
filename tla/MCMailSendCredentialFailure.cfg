\* The smallest instance in which a credential() call meets a temporary failure.
CONSTANTS
  Callers = {c1, c2}
  Intents = {i1}
  Features = {GMAIL}
  NoCaller = NoCaller
  MaxGen = 2
  MaxToken = 3
  Requests = {r1}
  Payloads = {p1}
  NoPayload = NoPayload
  NoRequest = NoRequest
  GMAIL = GMAIL
  Recipients = 2
SPECIFICATION MailSpec
INVARIANTS
  CredentialFailureIsDefinitive
