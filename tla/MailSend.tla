------------------------------ MODULE MailSend ------------------------------
(***************************************************************************)
(* GmailService.send and GmailService.receipt for one user: a send request *)
(* is claimed by inserting its row, the owner of the claim obtains a       *)
(* credential (GoogleGrant, refresh included), posts the message to Gmail  *)
(* once, and records the outcome in a second transaction under the grant   *)
(* lock.  Every other call with the same request id only reads the row.    *)
(* Gmail may accept a message whose answer never reaches the server.       *)
(***************************************************************************)
EXTENDS GoogleGrant

CONSTANTS
  Requests,   \* request ids
  Payloads,   \* payload hashes
  NoPayload,  \* no row has been inserted
  NoRequest,  \* a thread between two calls
  GMAIL,      \* the feature credential() is asked for
  Recipients  \* bound on how often Gmail is observed to accept one request

ASSUME MailAssumption ==
  /\ GMAIL \in Features
  /\ NoPayload \notin Payloads
  /\ NoRequest \notin Requests
  /\ Recipients \in Nat \ {0}

VARIABLES
  rows,      \* google_workspace.mail_send_request
  threads,   \* the threads inside send()
  inFlight,  \* requests posted to Gmail that it may still accept
  accepted,  \* how often Gmail accepted the message of a request
  told       \* history: the statuses callers were answered, per request

mailVars == <<rows, threads, inFlight, accepted, told>>
vars == <<grantVars, mailVars>>

Terminal == {"SENT", "UNKNOWN", "FAILED"}
Receipt == Terminal \cup {"SENDING"}

Row == [status : Receipt \cup {"ABSENT"},
        hash   : Payloads \cup {NoPayload},
        gen    : Generation,
        aged   : BOOLEAN]               \* updatedAt is more than 60s ago

Thread == [pc      : {"idle", "claimed", "checked", "posted", "answered", "finish"},
           request : Requests \cup {NoRequest},
           outcome : Terminal \cup {"NONE"},
           gen     : Generation]

NoRow == [status |-> "ABSENT", hash |-> NoPayload, gen |-> 0, aged |-> FALSE]
NoCall == [pc |-> "idle", request |-> NoRequest, outcome |-> "NONE", gen |-> 0]

MailTypeOK ==
  /\ GrantTypeOK
  /\ rows \in [Requests -> Row]
  /\ threads \in [Callers -> Thread]
  /\ inFlight \in SUBSET Requests
  /\ accepted \in [Requests -> 0 .. Recipients]
  /\ told \in [Requests -> SUBSET Receipt]

MailInit ==
  /\ GrantInit
  /\ rows = [r \in Requests |-> NoRow]
  /\ threads = [c \in Callers |-> NoCall]
  /\ inFlight = {}
  /\ accepted = [r \in Requests |-> 0]
  /\ told = [r \in Requests |-> {}]

Tell(r, status) == told' = [told EXCEPT ![r] = @ \cup {status}]

----------------------------------------------------------------------------
(* claim(): INSERT ... ON CONFLICT DO NOTHING, then the row under its lock. *)

(* Mutant: a row that is still SENDING may be claimed again.               *)
OwnsUnfinished(r) == rows[r].status \in {"ABSENT", "SENDING"}

Owns(r) == rows[r].status = "ABSENT"

Claim(c, r, payload) ==
  /\ threads[c].pc = "idle"
  /\ Owns(r)
  /\ rows' = [rows EXCEPT ![r] = [NoRow EXCEPT !.status = "SENDING", !.hash = payload]]
  /\ threads' = [threads EXCEPT ![c] = [NoCall EXCEPT !.pc = "claimed", !.request = r]]
  /\ UNCHANGED <<grantVars, inFlight, accepted, told>>

(* Not the owner: the same payload is answered with the receipt as it is;  *)
(* another payload is refused and changes nothing.                         *)
Replay(c, r, payload) ==
  /\ threads[c].pc = "idle"
  /\ ~Owns(r)
  /\ rows[r].hash = payload
  /\ Tell(r, rows[r].status)
  /\ UNCHANGED <<grantVars, rows, threads, inFlight, accepted>>

----------------------------------------------------------------------------
(* The owner's provider attempt.                                           *)

AskCredential(c) ==
  /\ threads[c].pc = "claimed"
  /\ RequestCredential(c, GMAIL)
  /\ UNCHANGED mailVars

Conclude(c, status) ==
  threads' = [threads EXCEPT ![c] = [@ EXCEPT !.pc = "finish", !.outcome = status]]

(* A temporary failure is UNKNOWN, every other category is FAILED.         *)
OutcomeOf(category) == IF category = "TEMPORARY" THEN "UNKNOWN" ELSE "FAILED"

CredentialFails(c) ==
  /\ threads[c].pc = "claimed"
  /\ callers[c].phase = "failed"
  /\ Conclude(c, OutcomeOf(callers[c].failure))
  /\ UNCHANGED <<grantVars, rows, inFlight, accepted, told>>

(* isCurrent, the last look at the grant before the message leaves.        *)
CheckCredential(c) ==
  /\ threads[c].pc = "claimed"
  /\ callers[c].phase = "held"
  /\ threads' = [threads EXCEPT ![c] =
       IF IsCurrent(callers[c].gen)
       THEN [@ EXCEPT !.pc = "checked", !.gen = callers[c].gen]
       ELSE [@ EXCEPT !.pc = "finish", !.outcome = "UNKNOWN", !.gen = callers[c].gen]]
  /\ UNCHANGED <<grantVars, rows, inFlight, accepted, told>>

Post(c) ==
  /\ threads[c].pc = "checked"
  /\ threads' = [threads EXCEPT ![c] = [@ EXCEPT !.pc = "posted"]]
  /\ inFlight' = inFlight \cup {threads[c].request}
  /\ UNCHANGED <<grantVars, rows, accepted, told>>

(* Gmail accepts a message that reached it; nobody is told yet.            *)
GmailAccepts(r) ==
  /\ r \in inFlight
  /\ accepted[r] < Recipients
  /\ inFlight' = inFlight \ {r}
  /\ accepted' = [accepted EXCEPT ![r] = @ + 1]
  /\ UNCHANGED <<grantVars, rows, threads, told>>

(* 2xx: "answered" until the second isCurrent and the parse of the body.   *)
AnswerAccepted(c) ==
  /\ threads[c].pc = "posted"
  /\ threads[c].request \notin inFlight
  /\ threads' = [threads EXCEPT ![c] = [@ EXCEPT !.pc = "answered"]]
  /\ UNCHANGED <<grantVars, rows, inFlight, accepted, told>>

(* 401, 403 (quota apart) and the other 4xx (429 apart): Gmail refused the *)
(* message and will not deliver it.                                        *)
AnswerRefused(c) ==
  /\ threads[c].pc = "posted"
  /\ threads[c].request \in inFlight
  /\ inFlight' = inFlight \ {threads[c].request}
  /\ Conclude(c, "FAILED")
  /\ UNCHANGED <<grantVars, rows, accepted, told>>

(* Everything that says nothing about delivery: quota, 429, 3xx, 5xx, a    *)
(* timeout, an oversized answer, a broken connection.                      *)
(* Mutant: what is not a success is a failure.                             *)
UncertainIsFailed == "FAILED"

UncertainOutcome == "UNKNOWN"

AnswerUncertain(c) ==
  /\ threads[c].pc = "posted"
  /\ Conclude(c, UncertainOutcome)
  /\ UNCHANGED <<grantVars, rows, inFlight, accepted, told>>

AnswerChecked(c, parses) ==
  /\ threads[c].pc = "answered"
  /\ Conclude(c, IF parses /\ IsCurrent(threads[c].gen) THEN "SENT" ELSE "UNKNOWN")
  /\ UNCHANGED <<grantVars, rows, inFlight, accepted, told>>

----------------------------------------------------------------------------
(* finish(): one transaction that holds the row lock and, for SENT, the    *)
(* account and grant locks.                                                *)

(* Mutant: the outcome is recorded without the grant barrier.              *)
RecordedUnfenced(c) == threads[c].outcome

Recorded(c) ==
  IF threads[c].outcome = "SENT" /\ ~IsCurrent(threads[c].gen)
  THEN "UNKNOWN" ELSE threads[c].outcome

(* A row that is no longer SENDING is left as it is.                       *)
Finished(c) ==
  LET row == rows[threads[c].request]
  IN IF row.status # "SENDING" THEN row
     ELSE [row EXCEPT !.status = Recorded(c),
                      !.gen = IF Recorded(c) = threads[c].outcome THEN threads[c].gen ELSE @,
                      !.aged = FALSE]

Answer(c) == Finished(c).status

EndCall(c) ==
  /\ threads' = [threads EXCEPT ![c] = NoCall]
  /\ callers' = [callers EXCEPT ![c] = Idle]
  /\ UNCHANGED <<grant, intents, minted, rejected, overtaken>>

Finish(c) ==
  /\ threads[c].pc = "finish"
  /\ rows' = [rows EXCEPT ![threads[c].request] = Finished(c)]
  /\ Tell(threads[c].request, Answer(c))
  /\ EndCall(c)
  /\ UNCHANGED <<inFlight, accepted>>

(* The transaction throws: rolled back, or committed with the confirmation *)
(* lost.  Either way the caller is answered UNKNOWN.                       *)
FinishThrows(c, committed) ==
  /\ threads[c].pc = "finish"
  /\ rows' = IF committed THEN [rows EXCEPT ![threads[c].request] = Finished(c)] ELSE rows
  /\ Tell(threads[c].request, "UNKNOWN")
  /\ EndCall(c)
  /\ UNCHANGED <<inFlight, accepted>>

(* The process stops inside send(); what was posted stays posted.          *)
Crash(c) ==
  /\ threads[c].pc # "idle"
  /\ EndCall(c)
  /\ UNCHANGED <<rows, inFlight, accepted, told>>

----------------------------------------------------------------------------
(* receipt(): the poll of a client, under the row lock.                    *)

(* Mutant: the comparison with the clock is the wrong way round.           *)
AgedOutEarly(r) == rows[r].status = "SENDING" /\ ~rows[r].aged

AgedOut(r) == rows[r].status = "SENDING" /\ rows[r].aged

Receive(r) ==
  /\ rows[r].status # "ABSENT"
  /\ rows' = IF AgedOut(r)
             THEN [rows EXCEPT ![r] = [@ EXCEPT !.status = "UNKNOWN", !.aged = FALSE]]
             ELSE rows
  /\ Tell(r, rows'[r].status)
  /\ UNCHANGED <<grantVars, threads, inFlight, accepted>>

(* A minute passes; nothing bounds how long send() itself takes.           *)
Age(r) ==
  /\ rows[r].status = "SENDING" /\ ~rows[r].aged
  /\ rows' = [rows EXCEPT ![r] = [@ EXCEPT !.aged = TRUE]]
  /\ UNCHANGED <<grantVars, threads, inFlight, accepted, told>>

----------------------------------------------------------------------------
Deliver(c) ==
  \/ AskCredential(c)
  \/ RefreshStep(c) /\ UNCHANGED mailVars
  \/ CredentialFails(c)
  \/ CheckCredential(c)
  \/ Post(c)
  \/ AnswerAccepted(c)
  \/ AnswerRefused(c)
  \/ AnswerUncertain(c)
  \/ \E parses \in BOOLEAN : AnswerChecked(c, parses)
  \/ Finish(c)
  \/ \E committed \in BOOLEAN : FinishThrows(c, committed)

MailNext ==
  \/ \E c \in Callers :
       \/ \E r \in Requests, payload \in Payloads :
            Claim(c, r, payload) \/ Replay(c, r, payload)
       \/ Deliver(c)
       \/ Crash(c)
  \/ \E r \in Requests : Receive(r) \/ Age(r) \/ GmailAccepts(r)
  \/ OwnerStep /\ UNCHANGED mailVars

MailSpec == MailInit /\ [][MailNext]_vars

(* The client polls the receipt until it is final, and time passes.        *)
MailLiveSpec ==
  MailSpec /\ \A r \in Requests : WF_vars(Receive(r)) /\ WF_vars(Age(r))
----------------------------------------------------------------------------
(* Gmail accepts a request's message at most once, however often the       *)
(* request is repeated, in parallel or after a crash, an age-out or a lost *)
(* answer.                                                                 *)
AtMostOneMessage == \A r \in Requests : accepted[r] <= 1

(* A definitive receipt is the truth about Gmail: SENT only for a message  *)
(* Gmail accepted, FAILED only for one it has not accepted and never will. *)
DefinitiveReceiptIsTrue ==
  \A r \in Requests :
    /\ rows[r].status = "SENT" => accepted[r] = 1
    /\ rows[r].status = "FAILED" => accepted[r] = 0 /\ r \notin inFlight

(* Whoever was told SENT or FAILED was told what the row says and goes on  *)
(* saying: never the outcome of a thread that lost the row to an age-out   *)
(* or to the grant barrier.                                                *)
DefinitiveAnswerIsRecorded ==
  \A r \in Requests :
    told[r] \cap {"SENT", "FAILED"} \subseteq {rows[r].status}

(* No terminal receipt ever changes, whichever of the age-out and the late *)
(* finish comes second.                                                    *)
TerminalReceiptIsFinal ==
  [][\A r \in Requests :
       rows[r].status \in Terminal => rows'[r].status = rows[r].status]_vars

(* SENT is committed only while the grant that supplied the credential is  *)
(* still the user's: a disconnect, reconnect or refresh that committed     *)
(* after the message was posted turns the receipt into UNKNOWN.            *)
SentUnderTheSameGrant ==
  [][\A r \in Requests :
       rows'[r].status = "SENT" /\ rows[r].status # "SENT"
         => IsCurrent(rows'[r].gen)]_vars

(* A client that keeps polling gets a terminal receipt, also when the      *)
(* thread that owned the request died.                                     *)
EverySendSettles ==
  \A r \in Requests : rows[r].status = "SENDING" ~> rows[r].status \in Terminal

(* What the comment in finish() says: "A credential/configuration failure  *)
(* happened before any provider attempt and must remain the definitive     *)
(* FAILED receipt".                                                        *)
CredentialFailureIsDefinitive ==
  \A c \in Callers :
    threads[c].pc = "finish" /\ callers[c].phase = "failed"
      => threads[c].outcome = "FAILED"
=============================================================================
