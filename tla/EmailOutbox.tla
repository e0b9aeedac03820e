----------------------------- MODULE EmailOutbox -----------------------------
(***************************************************************************)
(* The e-mail outbox: EmailOutboxStore and EmailOutboxWorker of            *)
(* workers/background_jobs.py.  A row is named after the challenge whose   *)
(* e-mail it is (its event_key).  claim is one transaction under FOR UPDATE *)
(* SKIP LOCKED; sent and failed read the row without a lock and write it   *)
(* by primary key, so each is two steps.  Rows that are due are claimed in *)
(* any order: a locked row is skipped.                                     *)
(***************************************************************************)
EXTENDS Naturals, FiniteSets

CONSTANTS
    Challenge, Mailer, None,
    MaxMails,        \* max_attempts of a row
    MaxMailFaults    \* bound: ends of mailers and leases that a mailer outlives

ASSUME MailAssumption == /\ None \notin Challenge
                         /\ MaxMails \in Nat \ {0}
                         /\ MaxMailFaults \in Nat
                         /\ IsFiniteSet(Mailer)

MailRow == [status : {"pending", "processing", "sent", "failed"}, attempts : Nat,
            due : BOOLEAN, lease : {"none", "live", "expired"}]

ASSUME NoMailAssumption == None \notin MailRow

Pending == [status |-> "pending", attempts |-> 0, due |-> TRUE, lease |-> "none"]

\* A mailer holds a row, then knows how sending it went, then what to write.
Report == {"none", "sent", "retry", "permanent"}
MailerState == [phase : {"stopped", "idle", "sending", "read", "write"}, event : Challenge \union {None},
                report : Report, row : MailRow \union {None}]
IdleMailer == [phase |-> "idle", event |-> None, report |-> "none", row |-> None]
\* The worker process is a deployment of its own, and may not be there.
StoppedMailer == [IdleMailer EXCEPT !.phase = "stopped"]

VARIABLES
    outbox, mailer, mailFaults,
    delivered  \* history: the e-mails that the server took at least once

mailVars == <<outbox, mailer, mailFaults, delivered>>

MailTypeOK ==
    /\ outbox \in [Challenge -> MailRow \union {None}]
    /\ mailer \in [Mailer -> MailerState]
    /\ mailFaults \in 0 .. MaxMailFaults
    /\ delivered \in SUBSET Challenge

MailInit ==
    /\ outbox = [e \in Challenge |-> None]
    /\ mailer \in {[m \in Mailer |-> state] : state \in {IdleMailer, StoppedMailer}}
    /\ mailFaults = 0
    /\ delivered = {}

\* _queue_email, in the transaction that creates the challenge.
QueueEmail(e) == outbox' = [outbox EXCEPT ![e] = Pending]

------------------------------------------------------------------------------
Expired(e) == outbox[e] # None /\ outbox[e].status = "processing" /\ outbox[e].lease = "expired"

Returned_Never == outbox

\* The first statement of claim: rows whose lease has ended are pending and due.
Returned ==
    [e \in Challenge |-> IF Expired(e)
                         THEN [outbox[e] EXCEPT !.status = "pending", !.due = TRUE,
                                                !.lease = "none"]
                         ELSE outbox[e]]

ClaimMail(m, e) ==
    /\ mailer[m].phase = "idle"
    /\ Returned[e] # None /\ Returned[e].status = "pending" /\ Returned[e].due
    /\ outbox' = [Returned EXCEPT ![e].status = "processing", ![e].lease = "live",
                                  ![e].attempts = @ + 1]
    /\ mailer' = [mailer EXCEPT ![m] = [IdleMailer EXCEPT !.phase = "sending", !.event = e]]
    /\ UNCHANGED <<mailFaults, delivered>>

\* delivery.send: the server takes the e-mail and says so; it takes it and the
\* connection ends in an error; it does not take it, for now or for ever
\* (delivery is not configured, or not encrypted).
Send(m) ==
    /\ mailer[m].phase = "sending"
    /\ \E taken \in BOOLEAN, report \in Report \ {"none"} :
          /\ report = "sent" => taken
          /\ report = "permanent" => ~taken
          /\ delivered' = IF taken THEN delivered \union {mailer[m].event} ELSE delivered
          /\ mailer' = [mailer EXCEPT ![m].phase = "read", ![m].report = report]
    /\ UNCHANGED <<outbox, mailFaults>>

\* sent and failed ignore a row that is not processing.
ReadMail(m) ==
    /\ mailer[m].phase = "read"
    /\ mailer' = IF outbox[mailer[m].event].status = "processing"
                 THEN [mailer EXCEPT ![m].phase = "write", ![m].row = outbox[mailer[m].event]]
                 ELSE [mailer EXCEPT ![m] = IdleMailer]
    /\ UNCHANGED <<outbox, mailFaults, delivered>>

MailVerdict_Succeeded(report, row) ==
    CASE report = "sent" -> "succeeded"
      [] report = "retry" /\ row.attempts < MaxMails -> "pending"
      [] OTHER -> "failed"
MailVerdict_Strict(report, row) ==
    CASE report = "sent" -> "sent"
      [] report = "retry" /\ row.attempts <= MaxMails -> "pending"
      [] OTHER -> "failed"
MailVerdict(report, row) ==
    CASE report = "sent" -> "sent"
      [] report = "retry" /\ row.attempts < MaxMails -> "pending"
      [] OTHER -> "failed"

\* The UPDATE sets the columns that changed, and not attempt_count.
WriteMail(m) ==
    LET e == mailer[m].event IN
    /\ mailer[m].phase = "write"
    /\ outbox' = [outbox EXCEPT ![e].status = MailVerdict(mailer[m].report, mailer[m].row),
                                ![e].due = FALSE, ![e].lease = "none"]
    /\ mailer' = [mailer EXCEPT ![m] = IdleMailer]
    /\ UNCHANGED <<mailFaults, delivered>>

\* sent raises (the database is away): run_once calls failed, not retryable.
SentRaises(m) ==
    /\ mailer[m].phase \in {"read", "write"} /\ mailer[m].report = "sent"
    /\ mailer' = [mailer EXCEPT ![m].phase = "read", ![m].report = "permanent", ![m].row = None]
    /\ UNCHANGED <<outbox, mailFaults, delivered>>

\* The process dies, is told to stop, or failed raises out of run_forever and
\* ends it.
MailerCrash(m) ==
    /\ mailer[m].phase # "stopped" /\ mailFaults < MaxMailFaults
    /\ mailer' = [mailer EXCEPT ![m] = StoppedMailer]
    /\ mailFaults' = mailFaults + 1
    /\ UNCHANGED <<outbox, delivered>>

\* Somebody starts it; the deployment has no restart policy that would.
MailerStart(m) ==
    /\ mailer[m] = StoppedMailer
    /\ mailer' = [mailer EXCEPT ![m] = IdleMailer]
    /\ UNCHANGED <<outbox, mailFaults, delivered>>

------------------------------------------------------------------------------
(* Time. *)

Held(e) == \E m \in Mailer : mailer[m].event = e

LoseLease(e) ==
    /\ outbox[e] # None /\ outbox[e].lease = "live"
    /\ outbox' = [outbox EXCEPT ![e].lease = "expired"]
    /\ UNCHANGED <<mailer, delivered>>

AbandonedMailExpires(e) == ~Held(e) /\ LoseLease(e) /\ UNCHANGED mailFaults

OutlivedMailExpires(e) ==
    /\ Held(e) /\ mailFaults < MaxMailFaults
    /\ mailFaults' = mailFaults + 1
    /\ LoseLease(e)

MailBackoffElapses(e) ==
    /\ outbox[e] # None /\ outbox[e].status = "pending" /\ ~outbox[e].due
    /\ outbox' = [outbox EXCEPT ![e].due = TRUE]
    /\ UNCHANGED <<mailer, mailFaults, delivered>>

RunMailer(m) ==
    \/ \E e \in Challenge : ClaimMail(m, e)
    \/ Send(m) \/ ReadMail(m) \/ WriteMail(m) \/ SentRaises(m)

MailTime == \E e \in Challenge : AbandonedMailExpires(e) \/ MailBackoffElapses(e)

MailNext ==
    \/ \E m \in Mailer : RunMailer(m) \/ MailerCrash(m) \/ MailerStart(m)
    \/ MailTime
    \/ \E e \in Challenge : OutlivedMailExpires(e)

\* While its process lives, run_forever polls and carries through what it has
\* begun.  Nothing makes a mailer crash, and nothing makes it start.
MailFairness ==
    /\ \A m \in Mailer : WF_mailVars(RunMailer(m))
    /\ \A e \in Challenge : WF_mailVars(AbandonedMailExpires(e) \/ MailBackoffElapses(e))

------------------------------------------------------------------------------
(* Properties. *)

\* At-least-once with a bound: an e-mail that is recorded as sent was taken by
\* the server, and it is tried at most max_attempts times plus once for each
\* time that a mailer died with a row or outlived its lease.
MailsAccountedFor ==
    \A e \in Challenge : outbox[e] # None =>
        /\ outbox[e].status = "sent" => e \in delivered
        /\ outbox[e].attempts <= MaxMails + mailFaults

\* Every e-mail that is queued is sent or given up in the end, unless a time
\* comes when no mailer is up: also what a mailer had in hand when it died, once
\* there is another or it is started again.
EveryMailSettles ==
    \A e \in Challenge :
        outbox[e] # None ~> \/ outbox[e] # None /\ outbox[e].status \in {"sent", "failed"}
                            \/ \A m \in Mailer : mailer[m].phase = "stopped"
=============================================================================
