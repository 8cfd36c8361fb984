----------------------------- MODULE MailCompose ------------------------------
(***************************************************************************)
(* Writing and sending a mail (Gmail in screens/GoogleWorkspace.tsx): the  *)
(* page sends a mail under a new request id, keeps the id in the tab's     *)
(* storage, and tells what became of the mail from the answer to the send  *)
(* or from the receipt read by that id. What the server does with a send   *)
(* is MailSend; here it leaves a receipt, and its answer may be lost.      *)
(* Request ids are the numbers of the mails, in the order they were sent.  *)
(***************************************************************************)
EXTENDS Naturals, FiniteSets

CONSTANTS MaxMails, MaxMounts   \* bounds: mails sent, times the page is opened

ASSUME ComposeConstants == MaxMails \in Nat \ {0} /\ MaxMounts \in Nat

VARIABLES
  mailConnected, \* the connection query says CONNECTED
  composeOpen,
  submitted,     \* mails sent so far; the last one's id
  requestId,     \* component state, 0 for ""
  storedId,      \* sessionStorage, 0 when absent
  sending,       \* the mutation the page observes, 0 after reset()
  sendData,      \* send.data: its status, "none" without
  flight,        \* sends not settled: id -> [at, mount]
  receipts,      \* server
  receiptData,   \* the receipt queries' data, by id
  mounts,        \* times the page was opened
  overtaken      \* history: the answer to a mail came after a later one was sent

composeVars == <<mailConnected, composeOpen, submitted, requestId, storedId, sending,
                 sendData, flight, receipts, receiptData, mounts, overtaken>>

Mails == 1 .. MaxMails
Settled == {"SENT", "UNKNOWN", "FAILED"}
isPending == sending # 0 /\ flight[sending].at # "settled"

ComposeInit ==
  /\ mailConnected = TRUE /\ composeOpen = FALSE /\ submitted = 0
  /\ requestId = 0 /\ storedId = 0 /\ sending = 0 /\ sendData = "none"
  /\ flight = [m \in Mails |-> [at |-> "unsent", mount |-> 0]]
  /\ receipts = [m \in Mails |-> "none"] /\ receiptData = [m \in Mails |-> "none"]
  /\ mounts = 1 /\ overtaken = FALSE

(* Mutant: any answer to the send stands for success.                      *)
answeredIsSent ==
  IF sendData # "none" THEN "SENT"
  ELSE IF requestId = 0 THEN "none" ELSE receiptData[requestId]

(* The status line under the mailbox.                                      *)
status ==
  IF sendData = "SENT" \/ requestId = 0 \/ receiptData[requestId] = "none"
  THEN sendData ELSE receiptData[requestId]

Page == <<mailConnected, composeOpen, requestId, storedId, sending, sendData, receiptData,
          mounts, overtaken>>
-------------------------------------------------------------------------------
(* "Write a mail": nothing keeps it from an earlier send still under way.  *)
startCompose ==
  /\ mailConnected /\ composeOpen' = TRUE
  /\ requestId' = 0 /\ storedId' = 0
  /\ sending' = 0 /\ sendData' = "none"
  /\ UNCHANGED <<mailConnected, submitted, flight, receipts, receiptData, mounts, overtaken>>

closeCompose ==
  /\ composeOpen /\ composeOpen' = FALSE
  /\ UNCHANGED <<mailConnected, submitted, requestId, storedId, sending, sendData, flight,
                 receipts, receiptData, mounts, overtaken>>

submitSend ==
  /\ mailConnected /\ composeOpen /\ ~isPending /\ submitted < MaxMails
  /\ LET id == submitted + 1
     IN  /\ submitted' = id /\ requestId' = id /\ storedId' = id /\ sending' = id
         /\ flight' = [flight EXCEPT ![id] = [at |-> "sent", mount |-> mounts]]
  /\ composeOpen' = FALSE /\ sendData' = "none"
  /\ UNCHANGED <<mailConnected, receipts, receiptData, mounts, overtaken>>

(* The server takes the mail, even when the page gave up, and settles it.   *)
TakeMail ==
  /\ \E m \in Mails : /\ flight[m].at # "unsent" /\ receipts[m] = "none"
                      /\ receipts' = [receipts EXCEPT ![m] = "SENDING"]
  /\ UNCHANGED <<submitted, flight, Page>>

SettleMail ==
  /\ \E m \in Mails, s \in Settled : /\ receipts[m] = "SENDING"
                                     /\ receipts' = [receipts EXCEPT ![m] = s]
  /\ UNCHANGED <<submitted, flight, Page>>

AnswerMail ==
  /\ \E m \in Mails : /\ flight[m].at = "sent" /\ receipts[m] # "none"
                      /\ flight' = [flight EXCEPT ![m].at = receipts[m]]
  /\ UNCHANGED <<submitted, receipts, Page>>

(* onSuccess runs for every send, observed or not, of a mounted page or a  *)
(* former one: that one's state is gone, the storage is not.               *)
SendSucceeds ==
  \E m \in Mails :
    /\ flight[m].at \in Settled \cup {"SENDING"}
    /\ flight' = [flight EXCEPT ![m].at = "settled"]
    /\ requestId' = IF flight[m].mount = mounts THEN m ELSE requestId
    /\ storedId' = m /\ overtaken' = (overtaken \/ m < submitted)
    /\ sendData' = IF sending = m THEN flight[m].at ELSE sendData
    /\ UNCHANGED <<mailConnected, composeOpen, submitted, sending, receipts, receiptData, mounts>>

(* No answer came, whether the mail was taken or not.                      *)
SendFails ==
  /\ \E m \in Mails : /\ flight[m].at = "sent"
                      /\ flight' = [flight EXCEPT ![m].at = "settled"]
  /\ UNCHANGED <<submitted, receipts, Page>>

(* The receipt is read when there is no answer, or on the reader's word.   *)
ReadReceipt ==
  /\ requestId # 0 /\ mailConnected /\ receipts[requestId] # "none"
  /\ (~isPending /\ sendData = "none") \/ status \in {"UNKNOWN", "SENDING"}
  /\ receiptData' = [receiptData EXCEPT ![requestId] = receipts[requestId]]
  /\ UNCHANGED <<mailConnected, composeOpen, submitted, requestId, storedId, sending,
                 sendData, flight, receipts, mounts, overtaken>>

(* The connection is read again; without Gmail the page forgets the send.  *)
ReadConnection ==
  /\ mailConnected' = ~mailConnected
  /\ IF mailConnected THEN composeOpen' = FALSE /\ requestId' = 0 /\ storedId' = 0
                      ELSE UNCHANGED <<composeOpen, requestId, storedId>>
  /\ UNCHANGED <<submitted, sending, sendData, flight, receipts, receiptData, mounts, overtaken>>

(* The page is left and opened again: it takes the id from the storage.    *)
Reopen ==
  /\ mounts < MaxMounts /\ mounts' = mounts + 1
  /\ composeOpen' = FALSE /\ requestId' = storedId
  /\ sending' = 0 /\ sendData' = "none"
  /\ UNCHANGED <<mailConnected, submitted, storedId, flight, receipts, receiptData, overtaken>>

ComposeNext ==
  \/ startCompose \/ closeCompose \/ submitSend \/ TakeMail \/ SettleMail \/ AnswerMail
  \/ SendSucceeds \/ SendFails \/ ReadReceipt \/ ReadConnection \/ Reopen

ComposeSpec == ComposeInit /\ [][ComposeNext]_composeVars
-------------------------------------------------------------------------------
(* "The mail was sent" is said of the mail the reader sent last, and only  *)
(* when it was, whatever was lost, reloaded or disconnected on the way     *)
(* (docs/ux/2026-09-07-google-workspace-plan.md, line 58). Left out: the   *)
(* answer to an earlier mail that arrives after a later one was sent puts  *)
(* the page back on that earlier one.                                      *)
SentIsOfTheLastMail ==
  mailConnected /\ status = "SENT" /\ ~overtaken => receipts[submitted] = "SENT"
===============================================================================
