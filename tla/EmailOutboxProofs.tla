-------------------------- MODULE EmailOutboxProofs --------------------------
(***************************************************************************)
(* Proofs about EmailOutbox: what each of its steps preserves, for any     *)
(* number of e-mails, attempts, faults and mailers.  AccountsProofs puts   *)
(* them together with the steps of the accounts, which queue the e-mails.  *)
(***************************************************************************)
EXTENDS EmailOutbox, FiniteSetTheorems, TLAPS

-----------------------------------------------------------------------------
(* Types *)

Holding == {"sending", "read", "write"}

\* A mailer holds a row exactly in these phases, writes from the row it read,
\* and reports as sent what the server took.
MailEngaged ==
    \A m \in Mailer :
        /\ mailer[m].phase \in Holding => mailer[m].event \in Challenge /\ outbox[mailer[m].event] # None
        /\ mailer[m].phase \notin Holding => mailer[m].event = None
        /\ mailer[m].phase = "write" => mailer[m].row \in MailRow
        /\ mailer[m].report = "sent" => mailer[m].event \in delivered

MailTyped == MailTypeOK /\ MailEngaged

LEMMA MailersTyped ==
  /\ IdleMailer \in MailerState /\ StoppedMailer \in MailerState
  /\ IdleMailer.phase = "idle" /\ IdleMailer.event = None /\ IdleMailer.report = "none"
  /\ StoppedMailer.phase = "stopped" /\ StoppedMailer.event = None /\ StoppedMailer.report = "none"
  /\ Pending \in MailRow /\ Pending.status = "pending" /\ Pending.attempts = 0
BY DEF IdleMailer, StoppedMailer, MailerState, Report, Pending, MailRow

LEMMA MailInitTyped == MailInit => MailTyped
BY MailersTyped, MailAssumption DEF MailInit, MailTyped, MailTypeOK, MailEngaged, Holding

\* A mailer that stops holding its row.
LEMMA IdleTyped ==
  ASSUME MailTyped, NEW m \in Mailer, NEW s \in {IdleMailer, StoppedMailer},
         mailer' = [mailer EXCEPT ![m] = s],
         outbox' \in [Challenge -> MailRow \union {None}],
         \A e \in Challenge : outbox[e] # None => outbox'[e] # None,
         mailFaults' \in 0 .. MaxMailFaults, UNCHANGED delivered
  PROVE  MailTyped'
<1>1. MailTypeOK'
  BY MailersTyped DEF MailTyped, MailTypeOK
<1>2. mailer'[m] = s /\ \A k \in Mailer \ {m} : mailer'[k] = mailer[k]
  BY DEF MailTyped, MailTypeOK
<1>3. MailEngaged'
  BY <1>2, MailersTyped DEF MailTyped, MailEngaged, Holding
<1> QED BY <1>1, <1>3 DEF MailTyped

\* Steps that only touch rows that are there, and leave them there.
LEMMA RowsTyped ==
  ASSUME MailTyped, outbox' \in [Challenge -> MailRow \union {None}],
         \A e \in Challenge : outbox[e] # None => outbox'[e] # None,
         mailFaults' \in 0 .. MaxMailFaults, UNCHANGED <<mailer, delivered>>
  PROVE  MailTyped'
BY DEF MailTyped, MailTypeOK, MailEngaged

LEMMA RowParts ==
  ASSUME MailTyped, NEW e \in Challenge, outbox[e] # None
  PROVE  /\ outbox[e] \in MailRow /\ outbox[e].attempts \in Nat
         /\ outbox[e].status \in {"pending", "processing", "sent", "failed"}
         /\ outbox[e].lease \in {"none", "live", "expired"}
BY DEF MailTyped, MailTypeOK, MailRow

\* Returning expired leases changes only the rows whose lease has expired.
LEMMA ReturnedParts ==
  ASSUME MailTyped, NEW e \in Challenge
  PROVE  /\ Returned[e] \in MailRow \union {None}
         /\ ~Expired(e) => Returned[e] = outbox[e]
         /\ Expired(e) => /\ outbox[e] # None /\ Returned[e] \in MailRow
                          /\ Returned[e].status = "pending" /\ Returned[e].lease = "none"
                          /\ Returned[e].attempts = outbox[e].attempts
<1>1. CASE Expired(e)
  <2>1. outbox[e] \in MailRow /\ outbox[e] # None
    BY <1>1, RowParts DEF Expired
  <2>2. Returned[e] = [outbox[e] EXCEPT !.status = "pending", !.due = TRUE, !.lease = "none"]
    BY <1>1 DEF Returned
  <2> QED BY <1>1, <2>1, <2>2 DEF MailRow
<1>2. CASE ~Expired(e)
  BY <1>2 DEF Returned, MailTyped, MailTypeOK
<1> QED BY <1>1, <1>2

LEMMA ClaimedRow ==
  ASSUME NEW r \in MailRow
  PROVE  LET c == [r EXCEPT !.status = "processing", !.lease = "live", !.attempts = @ + 1]
         IN  /\ c \in MailRow /\ c.attempts = r.attempts + 1
             /\ c.status = "processing" /\ c.lease = "live"
<1>1. ASSUME NEW n \in Nat
      PROVE  [r EXCEPT !.status = "processing", !.lease = "live", !.attempts = n] \in MailRow
  BY DEF MailRow
<1>2. r.attempts + 1 \in Nat
  BY DEF MailRow
<1>3. [r EXCEPT !.status = "processing", !.lease = "live", !.attempts = @ + 1] \in MailRow
  BY <1>1, <1>2
<1> QED BY <1>3 DEF MailRow

\* What claiming a row does to it and to the others.
LEMMA ClaimEffect ==
  ASSUME MailTyped, NEW m \in Mailer, NEW e \in Challenge, ClaimMail(m, e)
  PROVE  /\ mailer[m].phase = "idle"
         /\ outbox[e] # None /\ (outbox[e].status = "pending" \/ Expired(e))
         /\ outbox'[e] \in MailRow
         /\ outbox'[e].status = "processing" /\ outbox'[e].lease = "live"
         /\ outbox'[e].attempts = outbox[e].attempts + 1
         /\ \A x \in Challenge \ {e} : outbox'[x] = Returned[x]
         /\ outbox' \in [Challenge -> MailRow \union {None}]
         /\ mailer'[m] \in MailerState
         /\ mailer'[m].phase = "sending" /\ mailer'[m].event = e /\ mailer'[m].report = "none"
         /\ \A k \in Mailer \ {m} : mailer'[k] = mailer[k]
         /\ mailer' \in [Mailer -> MailerState]
         /\ UNCHANGED <<mailFaults, delivered>>
<1> DEFINE row == [Returned[e] EXCEPT !.status = "processing", !.lease = "live", !.attempts = @ + 1]
           new == [IdleMailer EXCEPT !.phase = "sending", !.event = e]
<1>1. /\ mailer[m].phase = "idle" /\ Returned[e] # None /\ Returned[e].status = "pending"
      /\ mailer' = [mailer EXCEPT ![m] = new] /\ UNCHANGED <<mailFaults, delivered>>
  BY DEF ClaimMail
<1>2. Returned \in [Challenge -> MailRow \union {None}]
  BY ReturnedParts DEF Returned
<1>3. Returned[e] \in MailRow /\ Returned[e].attempts \in Nat /\ Returned[e].attempts = outbox[e].attempts
  BY <1>1, <1>2, ReturnedParts DEF MailRow
<1>4. outbox' = [Returned EXCEPT ![e] = row]
  BY <1>2 DEF ClaimMail
<1>5. row \in MailRow /\ row.status = "processing" /\ row.lease = "live" /\ row.attempts = Returned[e].attempts + 1
  BY <1>3, ClaimedRow
<1>6. new \in MailerState /\ new.phase = "sending" /\ new.event = e /\ new.report = "none"
  BY DEF IdleMailer, MailerState, Report
<1> HIDE DEF row, new
<1>7. outbox'[e] = row /\ \A x \in Challenge \ {e} : outbox'[x] = Returned[x]
  BY <1>2, <1>4
<1>8. outbox' \in [Challenge -> MailRow \union {None}]
  BY <1>2, <1>4, <1>5
<1>9. mailer'[m] = new /\ (\A k \in Mailer \ {m} : mailer'[k] = mailer[k]) /\ mailer' \in [Mailer -> MailerState]
  BY <1>1, <1>6 DEF MailTyped, MailTypeOK
<1>10. outbox[e] # None /\ (outbox[e].status = "pending" \/ Expired(e))
  BY <1>1, ReturnedParts
<1> QED BY <1>1, <1>3, <1>5, <1>6, <1>7, <1>8, <1>9, <1>10

LEMMA ClaimMailTyped ==
  ASSUME MailTyped, NEW m \in Mailer, NEW e \in Challenge, ClaimMail(m, e) PROVE MailTyped'
<1>1. MailTypeOK'
  BY ClaimEffect DEF MailTyped, MailTypeOK
<1>2. \A x \in Challenge : outbox[x] # None => outbox'[x] # None
  <2>1. ASSUME NEW x \in Challenge, outbox[x] # None PROVE outbox'[x] # None
    BY <2>1, ClaimEffect, ReturnedParts, NoMailAssumption
  <2> QED BY <2>1
<1>3. MailEngaged'
  BY <1>2, ClaimEffect, MailAssumption DEF MailTyped, MailEngaged, Holding
<1> QED BY <1>1, <1>3 DEF MailTyped

\* A mailer that goes on with its row: what Send, ReadMail and SentRaises do.
GoesOn(m) ==
    /\ mailer[m].phase \in Holding /\ mailer'[m].phase \in Holding
    /\ mailer'[m].event = mailer[m].event
    /\ \A k \in Mailer \ {m} : mailer'[k] = mailer[k]
    /\ mailer' \in [Mailer -> MailerState]
    /\ UNCHANGED <<outbox, mailFaults>>

LEMMA SendGoesOn == ASSUME MailTyped, NEW m \in Mailer, Send(m)
                    PROVE  /\ GoesOn(m) /\ mailer'[m].phase = "read" /\ MailTyped'
<1>1. PICK taken \in BOOLEAN, report \in Report \ {"none"} :
          /\ report = "sent" => taken
          /\ delivered' = IF taken THEN delivered \union {mailer[m].event} ELSE delivered
          /\ mailer' = [mailer EXCEPT ![m].phase = "read", ![m].report = report]
  BY DEF Send
<1>2. mailer[m].phase = "sending" /\ UNCHANGED <<outbox, mailFaults>>
  BY DEF Send
<1> DEFINE new == [mailer[m] EXCEPT !.phase = "read", !.report = report]
<1>3. new \in MailerState /\ new.phase = "read" /\ new.report = report /\ new.event = mailer[m].event
  BY DEF MailTyped, MailTypeOK, MailerState
<1>4. mailer' = [mailer EXCEPT ![m] = new]
  BY <1>1 DEF MailTyped, MailTypeOK
<1> HIDE DEF new
<1>5. mailer'[m] = new /\ (\A k \in Mailer \ {m} : mailer'[k] = mailer[k]) /\ mailer' \in [Mailer -> MailerState]
  BY <1>3, <1>4 DEF MailTyped, MailTypeOK
<1>6. GoesOn(m)
  BY <1>2, <1>3, <1>5 DEF GoesOn, Holding
<1>7. mailer[m].event \in Challenge
  BY <1>2 DEF MailTyped, MailEngaged, Holding
<1>8. delivered \subseteq delivered' /\ delivered' \in SUBSET Challenge /\ (report = "sent" => mailer[m].event \in delivered')
  BY <1>1, <1>7 DEF MailTyped, MailTypeOK
<1>9. MailTypeOK'
  BY <1>2, <1>5, <1>8 DEF MailTyped, MailTypeOK
<1>10. MailEngaged'
  BY <1>2, <1>3, <1>5, <1>7, <1>8 DEF MailTyped, MailEngaged, Holding
<1> QED BY <1>3, <1>5, <1>6, <1>9, <1>10 DEF MailTyped

LEMMA ReadGoesOn ==
  ASSUME MailTyped, NEW m \in Mailer, ReadMail(m), outbox[mailer[m].event].status = "processing"
  PROVE  /\ GoesOn(m) /\ MailTyped'
         /\ mailer[m].phase = "read" /\ mailer'[m].phase = "write"
         /\ mailer'[m].row = outbox[mailer[m].event]
<1> DEFINE e == mailer[m].event
           new == [mailer[m] EXCEPT !.phase = "write", !.row = outbox[e]]
<1>1. mailer[m].phase = "read" /\ UNCHANGED <<outbox, mailFaults, delivered>>
  BY DEF ReadMail
<1>2. e \in Challenge /\ outbox[e] \in MailRow /\ outbox[e] # None
  BY <1>1, RowParts DEF MailTyped, MailEngaged, Holding
<1>3. /\ new \in MailerState /\ new.phase = "write" /\ new.row = outbox[e]
      /\ new.report = mailer[m].report /\ new.event = e
  BY <1>2 DEF MailTyped, MailTypeOK, MailerState
<1>4. mailer' = [mailer EXCEPT ![m] = new]
  BY DEF ReadMail, MailTyped, MailTypeOK
<1> HIDE DEF new
<1>5. mailer'[m] = new /\ (\A k \in Mailer \ {m} : mailer'[k] = mailer[k]) /\ mailer' \in [Mailer -> MailerState]
  BY <1>3, <1>4 DEF MailTyped, MailTypeOK
<1>6. GoesOn(m)
  BY <1>1, <1>3, <1>5 DEF GoesOn, Holding
<1>7. MailTypeOK'
  BY <1>1, <1>5 DEF MailTyped, MailTypeOK
<1>8. MailEngaged'
  BY <1>1, <1>2, <1>3, <1>5 DEF MailTyped, MailEngaged, Holding
<1> QED BY <1>1, <1>3, <1>5, <1>6, <1>7, <1>8 DEF MailTyped

LEMMA RaisesGoesOn ==
  ASSUME MailTyped, NEW m \in Mailer, SentRaises(m)
  PROVE  GoesOn(m) /\ mailer'[m].phase = "read" /\ MailTyped'
<1> DEFINE new == [mailer[m] EXCEPT !.phase = "read", !.report = "permanent", !.row = None]
<1>1. mailer[m].phase \in {"read", "write"} /\ UNCHANGED <<outbox, mailFaults, delivered>>
  BY DEF SentRaises
<1>2. /\ new \in MailerState /\ new.phase = "read" /\ new.report = "permanent" /\ new.event = mailer[m].event
  BY DEF MailTyped, MailTypeOK, MailerState, Report
<1>3. mailer' = [mailer EXCEPT ![m] = new]
  BY DEF SentRaises, MailTyped, MailTypeOK
<1> HIDE DEF new
<1>4. mailer'[m] = new /\ (\A k \in Mailer \ {m} : mailer'[k] = mailer[k]) /\ mailer' \in [Mailer -> MailerState]
  BY <1>2, <1>3 DEF MailTyped, MailTypeOK
<1>5. GoesOn(m)
  BY <1>1, <1>2, <1>4 DEF GoesOn, Holding
<1>6. MailTypeOK'
  BY <1>1, <1>4 DEF MailTyped, MailTypeOK
<1>7. MailEngaged'
  BY <1>1, <1>2, <1>4 DEF MailTyped, MailEngaged, Holding
<1> QED BY <1>2, <1>4, <1>5, <1>6, <1>7 DEF MailTyped

\* A write, by the verdict on the row that was read.
LEMMA WriteEffect ==
  ASSUME MailTyped, NEW m \in Mailer, WriteMail(m)
  PROVE  LET e == mailer[m].event
             verdict == MailVerdict(mailer[m].report, mailer[m].row)
         IN  /\ mailer[m].phase = "write" /\ e \in Challenge /\ outbox[e] # None
             /\ verdict \in {"sent", "pending", "failed"}
             /\ verdict = "pending" => mailer[m].row.attempts < MaxMails
             /\ verdict = "sent" => e \in delivered
             /\ outbox'[e] \in MailRow /\ outbox'[e] # None
             /\ outbox'[e].status = verdict /\ outbox'[e].lease = "none"
             /\ outbox'[e].attempts = outbox[e].attempts
             /\ \A x \in Challenge \ {e} : outbox'[x] = outbox[x]
             /\ mailer' = [mailer EXCEPT ![m] = IdleMailer]
             /\ UNCHANGED <<mailFaults, delivered>>
             /\ MailTyped'
<1> DEFINE e == mailer[m].event
           verdict == MailVerdict(mailer[m].report, mailer[m].row)
           row == [outbox[e] EXCEPT !.status = verdict, !.due = FALSE, !.lease = "none"]
<1>1. /\ mailer[m].phase = "write" /\ mailer' = [mailer EXCEPT ![m] = IdleMailer]
      /\ UNCHANGED <<mailFaults, delivered>>
  BY DEF WriteMail
<1>2. e \in Challenge /\ outbox[e] \in MailRow /\ outbox[e] # None
  BY <1>1, RowParts DEF MailTyped, MailEngaged, Holding
<1>3. verdict \in {"sent", "pending", "failed"}
  BY DEF MailVerdict
<1>4. verdict = "pending" => mailer[m].row.attempts < MaxMails
  BY DEF MailVerdict
<1>5. verdict = "sent" => e \in delivered
  BY DEF MailVerdict, MailTyped, MailEngaged
<1>6. outbox' = [outbox EXCEPT ![e] = row]
  BY <1>2 DEF WriteMail, MailTyped, MailTypeOK
<1> HIDE DEF verdict
<1>7. row \in MailRow /\ row.status = verdict /\ row.lease = "none" /\ row.attempts = outbox[e].attempts
  BY <1>2, <1>3 DEF MailRow
<1> HIDE DEF row
<1>8. outbox'[e] = row /\ \A x \in Challenge \ {e} : outbox'[x] = outbox[x]
  BY <1>2, <1>6 DEF MailTyped, MailTypeOK
<1>9. outbox' \in [Challenge -> MailRow \union {None}] /\ row # None
  BY <1>2, <1>6, <1>7, NoMailAssumption DEF MailTyped, MailTypeOK
<1>10. MailTyped'
  <2>1. mailFaults' \in 0 .. MaxMailFaults
    BY <1>1 DEF MailTyped, MailTypeOK
  <2>2. \A x \in Challenge : outbox[x] # None => outbox'[x] # None
    BY <1>8, <1>9
  <2> QED BY <1>1, <1>9, <2>1, <2>2, IdleTyped
<1> QED BY <1>1, <1>2, <1>3, <1>4, <1>5, <1>7, <1>8, <1>9, <1>10 DEF verdict

LEMMA CrashTyped == ASSUME MailTyped, NEW m \in Mailer, MailerCrash(m) \/ MailerStart(m) PROVE MailTyped'
<1>1. /\ UNCHANGED <<outbox, delivered>>
      /\ outbox' \in [Challenge -> MailRow \union {None}]
      /\ mailFaults' \in 0 .. MaxMailFaults
  BY MailAssumption DEF MailerCrash, MailerStart, MailTyped, MailTypeOK
<1>2. PICK s \in {IdleMailer, StoppedMailer} : mailer' = [mailer EXCEPT ![m] = s]
  BY DEF MailerCrash, MailerStart
<1> QED BY <1>1, <1>2, IdleTyped

LEMMA DropTyped ==
  ASSUME MailTyped, NEW m \in Mailer, ReadMail(m), outbox[mailer[m].event].status # "processing"
  PROVE  /\ mailer' = [mailer EXCEPT ![m] = IdleMailer] /\ UNCHANGED <<outbox, mailFaults, delivered>>
         /\ MailTyped'
<1>1. mailer' = [mailer EXCEPT ![m] = IdleMailer] /\ UNCHANGED <<outbox, mailFaults, delivered>>
  BY DEF ReadMail
<1>2. outbox' \in [Challenge -> MailRow \union {None}] /\ mailFaults' \in 0 .. MaxMailFaults
  BY <1>1 DEF MailTyped, MailTypeOK
<1> QED BY <1>1, <1>2, IdleTyped

LEMMA LoseEffect ==
  ASSUME MailTyped, NEW e \in Challenge, LoseLease(e)
  PROVE  /\ outbox[e] # None /\ outbox[e].lease = "live"
         /\ outbox'[e] \in MailRow /\ outbox'[e] # None
         /\ outbox'[e].status = outbox[e].status /\ outbox'[e].attempts = outbox[e].attempts
         /\ outbox'[e].lease = "expired"
         /\ \A x \in Challenge \ {e} : outbox'[x] = outbox[x]
         /\ outbox' \in [Challenge -> MailRow \union {None}]
         /\ UNCHANGED <<mailer, delivered>>
<1> DEFINE row == [outbox[e] EXCEPT !.lease = "expired"]
<1>1. outbox[e] # None /\ outbox[e].lease = "live" /\ outbox[e] \in MailRow /\ UNCHANGED <<mailer, delivered>>
  BY RowParts DEF LoseLease
<1>2. /\ row \in MailRow /\ row.status = outbox[e].status /\ row.attempts = outbox[e].attempts
      /\ row.lease = "expired"
  BY <1>1 DEF MailRow
<1>3. outbox' = [outbox EXCEPT ![e] = row]
  BY DEF LoseLease, MailTyped, MailTypeOK
<1> HIDE DEF row
<1>4. outbox'[e] = row /\ (\A x \in Challenge \ {e} : outbox'[x] = outbox[x]) /\ outbox' \in [Challenge -> MailRow \union {None}]
  BY <1>2, <1>3 DEF MailTyped, MailTypeOK
<1> QED BY <1>1, <1>2, <1>4, NoMailAssumption

LEMMA BackoffEffect ==
  ASSUME MailTyped, NEW e \in Challenge, MailBackoffElapses(e)
  PROVE  /\ outbox'[e] \in MailRow /\ outbox'[e] # None
         /\ outbox'[e].status = outbox[e].status /\ outbox'[e].attempts = outbox[e].attempts
         /\ outbox'[e].lease = outbox[e].lease
         /\ \A x \in Challenge \ {e} : outbox'[x] = outbox[x]
         /\ outbox' \in [Challenge -> MailRow \union {None}]
         /\ UNCHANGED <<mailer, mailFaults, delivered>>
<1> DEFINE row == [outbox[e] EXCEPT !.due = TRUE]
<1>1. outbox[e] # None /\ outbox[e] \in MailRow /\ UNCHANGED <<mailer, mailFaults, delivered>>
  BY RowParts DEF MailBackoffElapses
<1>2. /\ row \in MailRow /\ row.status = outbox[e].status /\ row.attempts = outbox[e].attempts
      /\ row.lease = outbox[e].lease
  BY <1>1 DEF MailRow
<1>3. outbox' = [outbox EXCEPT ![e] = row]
  BY DEF MailBackoffElapses, MailTyped, MailTypeOK
<1> HIDE DEF row
<1>4. outbox'[e] = row /\ (\A x \in Challenge \ {e} : outbox'[x] = outbox[x]) /\ outbox' \in [Challenge -> MailRow \union {None}]
  BY <1>2, <1>3 DEF MailTyped, MailTypeOK
<1> QED BY <1>1, <1>2, <1>4, NoMailAssumption

LEMMA FaultsTyped ==
  ASSUME MailTyped, UNCHANGED mailFaults \/ (mailFaults < MaxMailFaults /\ mailFaults' = mailFaults + 1)
  PROVE  mailFaults' \in 0 .. MaxMailFaults
BY MailAssumption DEF MailTyped, MailTypeOK

LEMMA MailTimeTyped ==
  ASSUME MailTyped, NEW e \in Challenge,
         AbandonedMailExpires(e) \/ OutlivedMailExpires(e) \/ MailBackoffElapses(e)
  PROVE  MailTyped'
<1>1. CASE MailBackoffElapses(e)
  <2>1. (\A x \in Challenge : outbox[x] # None => outbox'[x] # None) /\ mailFaults' \in 0 .. MaxMailFaults
    BY <1>1, BackoffEffect, FaultsTyped
  <2> QED BY <1>1, <2>1, BackoffEffect, RowsTyped
<1>2. CASE AbandonedMailExpires(e) \/ OutlivedMailExpires(e)
  <2>1. LoseLease(e) /\ mailFaults' \in 0 .. MaxMailFaults
    BY <1>2, FaultsTyped DEF AbandonedMailExpires, OutlivedMailExpires
  <2>2. \A x \in Challenge : outbox[x] # None => outbox'[x] # None
    BY <2>1, LoseEffect
  <2> QED BY <2>1, <2>2, LoseEffect, RowsTyped
<1> QED BY <1>1, <1>2

\* Every step of the outbox.
LEMMA MailStepTyped == ASSUME MailTyped, [MailNext]_mailVars PROVE MailTyped'
<1>1. ASSUME NEW m \in Mailer, RunMailer(m) PROVE MailTyped'
  BY <1>1, ClaimMailTyped, SendGoesOn, ReadGoesOn, DropTyped, WriteEffect, RaisesGoesOn DEF RunMailer
<1>2. CASE UNCHANGED mailVars
  BY <1>2 DEF mailVars, MailTyped, MailTypeOK, MailEngaged
<1> QED BY <1>1, <1>2, CrashTyped, MailTimeTyped DEF MailNext, MailTime

\* An e-mail is queued.
LEMMA QueueTyped ==
  ASSUME MailTyped, NEW e \in Challenge, QueueEmail(e), UNCHANGED <<mailer, mailFaults, delivered>>
  PROVE  /\ MailTyped' /\ outbox'[e] = Pending /\ Pending # None
         /\ \A x \in Challenge \ {e} : outbox'[x] = outbox[x]
<1>1. /\ outbox'[e] = Pending /\ Pending # None /\ \A x \in Challenge \ {e} : outbox'[x] = outbox[x]
  BY MailersTyped, NoMailAssumption DEF QueueEmail, MailTyped, MailTypeOK
<1>2. outbox' \in [Challenge -> MailRow \union {None}] /\ mailFaults' \in 0 .. MaxMailFaults
  BY MailersTyped DEF QueueEmail, MailTyped, MailTypeOK
<1> QED BY <1>1, <1>2, RowsTyped

-----------------------------------------------------------------------------
(* Attempts *)

Holders(e) == {m \in Mailer : mailer[m].event = e}

\* Mailers that are about to make the row due again, from a row as they read it.
Willing(e) == {m \in Mailer : /\ mailer[m].event = e /\ mailer[m].phase = "write"
                              /\ mailer[m].row.attempts < MaxMails}

\* A row that a mailer can claim, and one whose mailer has died with it.
Claimable(e) == outbox[e].status = "pending" \/ (outbox[e].status = "processing" /\ outbox[e].lease = "expired")
Lost(e) == outbox[e].status = "processing" /\ outbox[e].lease = "live" /\ Holders(e) = {}
Once(b) == IF b THEN 1 ELSE 0

\* Every mailer that holds a row beyond the first, or beyond its being free,
\* has cost a fault.  Once the attempts are used up, only those who read the
\* row before can free it again, and each of them does so once.
Share(e) ==
    outbox[e] # None =>
        /\ Cardinality(Holders(e)) + Once(Claimable(e)) <= 1 + mailFaults
        /\ outbox[e].attempts >= MaxMails =>
              outbox[e].attempts + Cardinality(Willing(e)) + Once(Claimable(e) \/ Lost(e)) <= MaxMails + mailFaults
Shares == \A e \in Challenge : Share(e)

LEMMA Counts ==
  ASSUME NEW e
  PROVE  /\ IsFiniteSet(Holders(e)) /\ Cardinality(Holders(e)) \in Nat
         /\ IsFiniteSet(Willing(e)) /\ Cardinality(Willing(e)) \in Nat
         /\ Willing(e) \subseteq Holders(e) /\ Cardinality(Willing(e)) <= Cardinality(Holders(e))
<1>1. Holders(e) \subseteq Mailer /\ Willing(e) \subseteq Holders(e)
  BY DEF Holders, Willing
<1>2. IsFiniteSet(Holders(e)) /\ IsFiniteSet(Willing(e))
  BY <1>1, MailAssumption, FS_Subset
<1> QED BY <1>1, <1>2, FS_Subset, FS_CardinalityType

LEMMA CountsNext ==
  ASSUME NEW e
  PROVE  /\ IsFiniteSet(Holders(e)') /\ Cardinality(Holders(e)') \in Nat
         /\ IsFiniteSet(Willing(e)') /\ Cardinality(Willing(e)') \in Nat
         /\ Willing(e)' \subseteq Holders(e)' /\ Cardinality(Willing(e)') <= Cardinality(Holders(e)')
<1>1. Holders(e)' \subseteq Mailer /\ Willing(e)' \subseteq Holders(e)'
  BY DEF Holders, Willing
<1>2. IsFiniteSet(Holders(e)') /\ IsFiniteSet(Willing(e)')
  BY <1>1, MailAssumption, FS_Subset
<1> QED BY <1>1, <1>2, FS_Subset, FS_CardinalityType

LEMMA Numbers ==
  ASSUME MailTyped
  PROVE  /\ MaxMails \in Nat /\ MaxMails # 0 /\ mailFaults \in Nat
         /\ \A e \in Challenge : outbox[e] # None => outbox[e].attempts \in Nat
BY RowParts, MailAssumption DEF MailTyped, MailTypeOK

\* A row with fewer holders, fewer who will free it, and no freer than before.
LEMMA ShareKept ==
  ASSUME MailTyped, NEW e \in Challenge, Share(e), outbox[e] # None,
         outbox'[e].attempts = outbox[e].attempts,
         mailFaults' = mailFaults,
         Cardinality(Holders(e)') <= Cardinality(Holders(e)),
         outbox[e].attempts < MaxMails \/ Cardinality(Willing(e)') <= Cardinality(Willing(e)),
         Claimable(e)' => Claimable(e),
         Lost(e)' => Lost(e)
  PROVE  Share(e)'
<1>1. outbox[e].attempts \in Nat /\ MaxMails \in Nat /\ mailFaults \in Nat
  BY Numbers
<1> QED BY <1>1, Counts, CountsNext DEF Share, Once

\* A fault pays for one more of anything.
LEMMA ShareFault ==
  ASSUME MailTyped, NEW e \in Challenge, Share(e), outbox[e] # None,
         outbox'[e].attempts = outbox[e].attempts,
         mailFaults' = mailFaults + 1,
         Cardinality(Holders(e)') <= Cardinality(Holders(e)),
         Cardinality(Willing(e)') <= Cardinality(Willing(e))
  PROVE  Share(e)'
<1>1. outbox[e].attempts \in Nat /\ MaxMails \in Nat /\ mailFaults \in Nat
  BY Numbers
<1> QED BY <1>1, Counts, CountsNext DEF Share, Once

\* A mailer gives up what it holds.
LEMMA Parting ==
  ASSUME MailTyped, NEW m \in Mailer, NEW s \in {IdleMailer, StoppedMailer},
         mailer' = [mailer EXCEPT ![m] = s], NEW e \in Challenge
  PROVE  /\ Cardinality(Holders(e)') <= Cardinality(Holders(e))
         /\ Cardinality(Willing(e)') <= Cardinality(Willing(e))
         /\ mailer[m].event # e => Holders(e)' = Holders(e) /\ Willing(e)' = Willing(e)
         /\ m \in Holders(e) => Cardinality(Holders(e)') = Cardinality(Holders(e)) - 1
         /\ m \in Willing(e) => Cardinality(Willing(e)') = Cardinality(Willing(e)) - 1
<1>1. mailer'[m] = s /\ \A k \in Mailer \ {m} : mailer'[k] = mailer[k]
  BY DEF MailTyped, MailTypeOK
<1>2. s.event # e
  BY MailersTyped, MailAssumption
<1>3. Holders(e)' = Holders(e) \ {m}
  BY <1>1, <1>2 DEF Holders
<1>4. Willing(e)' = Willing(e) \ {m}
  BY <1>1, <1>2 DEF Willing
<1>5. mailer[m].event # e => m \notin Holders(e) /\ m \notin Willing(e)
  BY DEF Holders, Willing
<1>6. m \in Holders(e) => Cardinality(Holders(e)') = Cardinality(Holders(e)) - 1
  BY <1>3, Counts, FS_RemoveElement
<1>7. m \in Willing(e) => Cardinality(Willing(e)') = Cardinality(Willing(e)) - 1
  BY <1>4, Counts, FS_RemoveElement
<1>8. m \notin Holders(e) => Holders(e)' = Holders(e)
  BY <1>3
<1>9. m \notin Willing(e) => Willing(e)' = Willing(e)
  BY <1>4
<1> QED BY <1>5, <1>6, <1>7, <1>8, <1>9, Counts

\* A mailer goes on: it is willing afterwards only if it has read attempts that
\* are not used up.
LEMMA GoingOn ==
  ASSUME MailTyped, NEW m \in Mailer, GoesOn(m), NEW e \in Challenge,
         \/ mailer'[m].phase = "read"
         \/ mailer'[m].row = outbox[mailer[m].event]
  PROVE  /\ Holders(e)' = Holders(e)
         /\ outbox[e].attempts < MaxMails \/ Cardinality(Willing(e)') <= Cardinality(Willing(e))
<1>1. Holders(e)' = Holders(e)
  BY DEF Holders, GoesOn
<1>2. mailer[m].event = e => mailer'[m].phase = "read" \/ mailer'[m].row.attempts = outbox[e].attempts
  OBVIOUS
<1>3. ASSUME ~(outbox[e].attempts < MaxMails) PROVE Willing(e)' \subseteq Willing(e)
  BY <1>2, <1>3 DEF Willing, GoesOn
<1>4. Willing(e)' \subseteq Willing(e) => Cardinality(Willing(e)') <= Cardinality(Willing(e))
  BY Counts, FS_Subset
<1> QED BY <1>1, <1>3, <1>4

LEMMA ShareGoesOn ==
  ASSUME MailTyped, NEW m \in Mailer, GoesOn(m), NEW e \in Challenge, Share(e), outbox[e] # None,
         \/ mailer'[m].phase = "read"
         \/ mailer'[m].row = outbox[mailer[m].event]
  PROVE  Share(e)'
<1>1. UNCHANGED <<outbox, mailFaults>>
  BY DEF GoesOn
<1>2. Claimable(e)' <=> Claimable(e)
  BY <1>1 DEF Claimable
<1>3. Holders(e)' = Holders(e)
  BY GoingOn
<1>4. Lost(e)' <=> Lost(e)
  BY <1>1, <1>3 DEF Lost
<1> QED BY <1>1, <1>2, <1>3, <1>4, GoingOn, ShareKept, Counts

LEMMA ShareClaim ==
  ASSUME MailTyped, NEW m \in Mailer, NEW c \in Challenge, ClaimMail(m, c),
         NEW e \in Challenge, Share(e), outbox[e] # None
  PROVE  Share(e)'
<1>1. mailer[m].event = None /\ mailer[m].phase = "idle" /\ mailer'[m].event = c /\ mailer'[m].phase = "sending"
  BY ClaimEffect DEF MailTyped, MailEngaged, Holding
<1>2. \A k \in Mailer \ {m} : mailer'[k] = mailer[k]
  BY ClaimEffect
<1>3. Willing(e)' = Willing(e)
  BY <1>1, <1>2 DEF Willing
<1>4. mailFaults' = mailFaults
  BY ClaimEffect
<1>5. CASE e # c
  <2>1. Holders(e)' = Holders(e)
    BY <1>1, <1>2, <1>5, MailAssumption DEF Holders
  <2>2. outbox'[e] = Returned[e]
    BY <1>5, ClaimEffect
  <2>3. CASE Expired(e)
    <3>1. outbox'[e].attempts = outbox[e].attempts /\ Claimable(e) /\ outbox'[e].status = "pending"
      BY <2>2, <2>3, ReturnedParts DEF Expired, Claimable
    <3>2. ~Lost(e)'
      BY <3>1 DEF Lost
    <3> QED BY <1>3, <1>4, <2>1, <3>1, <3>2, ShareKept, Counts
  <2>4. CASE ~Expired(e)
    <3>1. outbox'[e] = outbox[e]
      BY <2>2, <2>4, ReturnedParts
    <3>2. (Claimable(e)' <=> Claimable(e)) /\ (Lost(e)' <=> Lost(e))
      BY <2>1, <3>1 DEF Claimable, Lost
    <3> QED BY <1>3, <1>4, <2>1, <3>1, <3>2, ShareKept, Counts
  <2> QED BY <2>3, <2>4
<1>6. CASE e = c
  <2>1. Holders(e)' = Holders(e) \union {m} /\ m \notin Holders(e)
    BY <1>1, <1>2, <1>6, MailAssumption DEF Holders
  <2>2. Cardinality(Holders(e)') = Cardinality(Holders(e)) + 1
    BY <2>1, Counts, FS_AddElement
  <2>3. Claimable(e)
    BY <1>6, ClaimEffect DEF Claimable, Expired
  <2>4. ~Claimable(e)' /\ ~Lost(e)' /\ outbox'[e].attempts = outbox[e].attempts + 1
    BY <1>6, <2>1, ClaimEffect DEF Claimable, Lost
  <2>5. outbox[e].attempts \in Nat /\ MaxMails \in Nat /\ mailFaults \in Nat
    BY Numbers
  <2>6. /\ Cardinality(Holders(e)) \in Nat /\ Cardinality(Willing(e)) \in Nat
        /\ Cardinality(Willing(e)) <= Cardinality(Holders(e))
    BY Counts
  <2>7. Cardinality(Holders(e)) + 1 <= 1 + mailFaults
    BY <2>3 DEF Share, Once
  <2>8. outbox[e].attempts >= MaxMails => outbox[e].attempts + Cardinality(Willing(e)) + 1 <= MaxMails + mailFaults
    BY <2>3 DEF Share, Once
  <2>9. Cardinality(Holders(e)') + Once(Claimable(e)') <= 1 + mailFaults'
    BY <1>4, <2>2, <2>4, <2>6, <2>7, <2>5 DEF Once
  <2>10. outbox'[e].attempts >= MaxMails =>
            outbox'[e].attempts + Cardinality(Willing(e)') + Once(Claimable(e)' \/ Lost(e)') <= MaxMails + mailFaults'
    BY <1>3, <1>4, <2>4, <2>5, <2>6, <2>7, <2>8 DEF Once
  <2> QED BY <2>9, <2>10 DEF Share
<1> QED BY <1>5, <1>6

LEMMA ShareWrite ==
  ASSUME MailTyped, NEW m \in Mailer, WriteMail(m), NEW e \in Challenge, Share(e), outbox[e] # None
  PROVE  Share(e)'
<1>1. mailFaults' = mailFaults /\ mailer' = [mailer EXCEPT ![m] = IdleMailer]
  BY WriteEffect
<1>2. CASE mailer[m].event # e
  <2>1. outbox'[e] = outbox[e]
    BY <1>2, WriteEffect
  <2>2. Holders(e)' = Holders(e) /\ Willing(e)' = Willing(e)
    BY <1>1, <1>2, Parting
  <2>3. (Claimable(e)' <=> Claimable(e)) /\ (Lost(e)' <=> Lost(e))
    BY <2>1, <2>2 DEF Claimable, Lost
  <2> QED BY <1>1, <2>1, <2>2, <2>3, ShareKept, Counts
<1>3. CASE mailer[m].event = e
  <2> DEFINE verdict == MailVerdict(mailer[m].report, mailer[m].row)
  <2>1. /\ mailer[m].phase = "write" /\ verdict \in {"sent", "pending", "failed"}
        /\ verdict = "pending" => mailer[m].row.attempts < MaxMails
        /\ outbox'[e].status = verdict /\ outbox'[e].lease = "none"
        /\ outbox'[e].attempts = outbox[e].attempts
    BY <1>3, WriteEffect
  <2> HIDE DEF verdict
  <2>2. ~Lost(e)' /\ (Claimable(e)' <=> verdict = "pending")
    BY <2>1 DEF Lost, Claimable
  <2>3. m \in Holders(e)
    BY <1>3 DEF Holders
  <2>4. CASE verdict = "pending"
    <3>1. m \in Willing(e)
      BY <1>3, <2>1, <2>4 DEF Willing
    <3>2. /\ Cardinality(Holders(e)') = Cardinality(Holders(e)) - 1
          /\ Cardinality(Willing(e)') = Cardinality(Willing(e)) - 1
      BY <1>1, <2>3, <3>1, Parting
    <3>3. outbox[e].attempts \in Nat /\ MaxMails \in Nat /\ mailFaults \in Nat
      BY Numbers
    <3>4. Cardinality(Holders(e)) \in Nat /\ Cardinality(Willing(e)) \in Nat
      BY Counts
    <3> QED BY <1>1, <2>1, <2>2, <2>4, <3>2, <3>3, <3>4 DEF Share, Once
  <2>5. CASE verdict # "pending"
    BY <1>1, <2>1, <2>2, <2>5, Parting, ShareKept
  <2> QED BY <2>4, <2>5
<1> QED BY <1>2, <1>3

LEMMA ShareLetGo ==
  ASSUME MailTyped, NEW m \in Mailer, NEW s \in {IdleMailer, StoppedMailer},
         mailer' = [mailer EXCEPT ![m] = s], UNCHANGED <<outbox, mailFaults>>,
         NEW e \in Challenge, Share(e), outbox[e] # None,
         mailer[m].event # e \/ outbox[e].status # "processing"
  PROVE  Share(e)'
<1>1. Claimable(e)' <=> Claimable(e)
  BY DEF Claimable
<1>2. mailer[m].event # e => Holders(e)' = Holders(e)
  BY Parting
<1>3. Lost(e)' => Lost(e)
  BY <1>2 DEF Lost
<1> QED BY <1>1, <1>3, Parting, ShareKept

LEMMA ShareDrop ==
  ASSUME MailTyped, NEW m \in Mailer,
         MailerStart(m) \/ (ReadMail(m) /\ outbox[mailer[m].event].status # "processing"),
         NEW e \in Challenge, Share(e), outbox[e] # None
  PROVE  Share(e)'
<1>1. mailer' = [mailer EXCEPT ![m] = IdleMailer] /\ UNCHANGED <<outbox, mailFaults>>
  BY DropTyped DEF MailerStart
<1>2. MailerStart(m) => mailer[m].event # e
  BY MailersTyped, MailAssumption DEF MailerStart
<1>3. mailer[m].event # e \/ outbox[e].status # "processing"
  BY <1>2
<1> QED BY <1>1, <1>3, ShareLetGo

LEMMA ShareCrash ==
  ASSUME MailTyped, NEW m \in Mailer, MailerCrash(m), NEW e \in Challenge, Share(e), outbox[e] # None
  PROVE  Share(e)'
BY Parting, ShareFault DEF MailerCrash

LEMMA ShareTime ==
  ASSUME MailTyped, NEW t \in Challenge,
         AbandonedMailExpires(t) \/ OutlivedMailExpires(t) \/ MailBackoffElapses(t),
         NEW e \in Challenge, Share(e), outbox[e] # None
  PROVE  Share(e)'
<1>1. UNCHANGED mailer /\ outbox'[e].attempts = outbox[e].attempts
  BY BackoffEffect, LoseEffect DEF AbandonedMailExpires, OutlivedMailExpires
<1>2. Holders(e)' = Holders(e) /\ Willing(e)' = Willing(e)
  BY <1>1 DEF Holders, Willing
<1>3. CASE OutlivedMailExpires(t)
  BY <1>1, <1>2, <1>3, ShareFault, Counts DEF OutlivedMailExpires
<1>4. ASSUME outbox'[e].status = outbox[e].status, outbox'[e].lease = outbox[e].lease, mailFaults' = mailFaults
      PROVE  Share(e)'
  <2>1. (Claimable(e)' <=> Claimable(e)) /\ (Lost(e)' <=> Lost(e))
    BY <1>2, <1>4 DEF Claimable, Lost
  <2> QED BY <1>1, <1>2, <1>4, <2>1, ShareKept, Counts
<1>5. CASE MailBackoffElapses(t)
  BY <1>4, <1>5, BackoffEffect
<1>6. CASE AbandonedMailExpires(t) /\ t # e
  BY <1>4, <1>6, LoseEffect DEF AbandonedMailExpires
<1>7. CASE AbandonedMailExpires(t) /\ t = e
  <2>1. Holders(e) = {} /\ outbox[e].lease = "live" /\ mailFaults' = mailFaults /\ LoseLease(e)
    BY <1>7, LoseEffect DEF AbandonedMailExpires, Held, Holders
  <2>2. outbox'[e].status = outbox[e].status /\ outbox'[e].lease = "expired"
    BY <2>1, LoseEffect
  <2>3. Cardinality(Holders(e)) = 0
    BY <2>1, FS_EmptySet
  <2>4. Claimable(e)' => Claimable(e) \/ Lost(e)
    BY <2>1, <2>2 DEF Claimable, Lost
  <2>5. ~Lost(e)'
    BY <2>2 DEF Lost
  <2>6. outbox[e].attempts \in Nat /\ MaxMails \in Nat /\ mailFaults \in Nat
    BY Numbers
  <2> QED BY <1>1, <1>2, <2>1, <2>3, <2>4, <2>5, <2>6, Counts DEF Share, Once
<1> QED BY <1>3, <1>5, <1>6, <1>7

LEMMA SharesStep == ASSUME MailTyped, Shares, [MailNext]_mailVars PROVE Shares'
<1> SUFFICES ASSUME NEW e \in Challenge, outbox'[e] # None PROVE Share(e)'
  BY DEF Shares, Share
<1>1. Share(e)
  BY DEF Shares
<1>2. CASE UNCHANGED mailVars
  BY <1>1, <1>2 DEF mailVars, Share, Claimable, Lost, Holders, Willing
<1>3. ASSUME NEW m \in Mailer, RunMailer(m) \/ MailerCrash(m) \/ MailerStart(m) PROVE Share(e)'
  <2>1. ASSUME outbox[e] = None PROVE outbox'[e] = None
    <3>1. CASE \E x \in Challenge : ClaimMail(m, x)
      BY <2>1, <3>1, ClaimEffect, ReturnedParts DEF Expired
    <3>2. CASE WriteMail(m)
      BY <2>1, <3>2, WriteEffect
    <3>3. CASE Send(m) \/ ReadMail(m) \/ SentRaises(m) \/ MailerCrash(m) \/ MailerStart(m)
      BY <2>1, <3>3 DEF Send, ReadMail, SentRaises, MailerCrash, MailerStart
    <3> QED BY <1>3, <3>1, <3>2, <3>3 DEF RunMailer
  <2>2. outbox[e] # None
    BY <2>1
  <2>3. CASE Send(m)
    BY <1>1, <2>2, <2>3, SendGoesOn, ShareGoesOn
  <2>4. CASE ReadMail(m)
    BY <1>1, <2>2, <2>4, ReadGoesOn, ShareGoesOn, ShareDrop
  <2>5. CASE SentRaises(m)
    BY <1>1, <2>2, <2>5, RaisesGoesOn, ShareGoesOn
  <2> QED BY <1>1, <1>3, <2>2, <2>3, <2>4, <2>5, ShareClaim, ShareWrite, ShareCrash, ShareDrop DEF RunMailer
<1>4. ASSUME NEW t \in Challenge, AbandonedMailExpires(t) \/ OutlivedMailExpires(t) \/ MailBackoffElapses(t)
      PROVE  Share(e)'
  <2>1. outbox[e] # None
    BY <1>4, LoseEffect, BackoffEffect DEF AbandonedMailExpires, OutlivedMailExpires, MailBackoffElapses
  <2> QED BY <1>1, <1>4, <2>1, ShareTime
<1> QED BY <1>2, <1>3, <1>4 DEF MailNext, MailTime

-----------------------------------------------------------------------------
(* Delivery *)

SentWasTaken == \A e \in Challenge : outbox[e] # None /\ outbox[e].status = "sent" => e \in delivered

LEMMA SentStep == ASSUME MailTyped, SentWasTaken, [MailNext]_mailVars PROVE SentWasTaken'
<1> SUFFICES ASSUME NEW e \in Challenge, outbox'[e] # None, outbox'[e].status = "sent" PROVE e \in delivered'
  BY DEF SentWasTaken
<1>1. ASSUME UNCHANGED outbox, delivered \subseteq delivered' PROVE e \in delivered'
  BY <1>1 DEF SentWasTaken
<1>2. ASSUME NEW m \in Mailer, NEW x \in Challenge, ClaimMail(m, x) PROVE e \in delivered'
  BY <1>2, ClaimEffect, ReturnedParts DEF SentWasTaken
<1>3. ASSUME NEW m \in Mailer, WriteMail(m) PROVE e \in delivered'
  BY <1>3, WriteEffect DEF SentWasTaken
<1>4. ASSUME NEW m \in Mailer, Send(m) PROVE e \in delivered'
  BY <1>1, <1>4 DEF Send
<1>5. ASSUME NEW m \in Mailer, ReadMail(m) \/ SentRaises(m) \/ MailerCrash(m) \/ MailerStart(m) PROVE e \in delivered'
  BY <1>1, <1>5 DEF ReadMail, SentRaises, MailerCrash, MailerStart
<1>6. ASSUME NEW t \in Challenge, AbandonedMailExpires(t) \/ OutlivedMailExpires(t) \/ MailBackoffElapses(t)
      PROVE  e \in delivered'
  <2>1. outbox[e] # None /\ outbox[e].status = "sent" /\ delivered' = delivered
    BY <1>6, LoseEffect, BackoffEffect DEF AbandonedMailExpires, OutlivedMailExpires, MailBackoffElapses
  <2> QED BY <2>1 DEF SentWasTaken
<1>7. CASE UNCHANGED mailVars
  BY <1>1, <1>7 DEF mailVars
<1> QED BY <1>2, <1>3, <1>4, <1>5, <1>6, <1>7 DEF MailNext, RunMailer, MailTime

-----------------------------------------------------------------------------
(* The outbox as a whole, for those who queue e-mails. *)

MailInv == MailTyped /\ Shares /\ SentWasTaken

LEMMA MailInitInv == MailInit => MailInv
BY MailInitTyped DEF MailInit, MailInv, Shares, Share, SentWasTaken

LEMMA MailStepInv == ASSUME MailInv, [MailNext]_mailVars PROVE MailInv'
BY MailStepTyped, SharesStep, SentStep DEF MailInv

\* A queued e-mail has not been tried, and nobody holds it.
LEMMA QueueInv ==
  ASSUME MailInv, NEW x \in Challenge, outbox[x] = None, QueueEmail(x),
         UNCHANGED <<mailer, mailFaults, delivered>>
  PROVE  MailInv'
<1>1. /\ MailTyped' /\ outbox'[x] = Pending
      /\ \A e \in Challenge \ {x} : outbox'[e] = outbox[e]
  BY QueueTyped DEF MailInv
<1>2. Shares'
  <2> SUFFICES ASSUME NEW e \in Challenge, outbox'[e] # None PROVE Share(e)'
    BY DEF Shares, Share
  <2>1. Holders(e)' = Holders(e) /\ Willing(e)' = Willing(e) /\ mailFaults' = mailFaults
    BY DEF Holders, Willing
  <2>2. CASE e # x
    <3>1. outbox'[e] = outbox[e] /\ Share(e) /\ outbox[e] # None
      BY <1>1, <2>2 DEF MailInv, Shares
    <3>2. (Claimable(e)' <=> Claimable(e)) /\ (Lost(e)' <=> Lost(e))
      BY <2>1, <3>1 DEF Claimable, Lost
    <3> QED BY <2>1, <3>1, <3>2, ShareKept, Counts DEF MailInv
  <2>3. CASE e = x
    <3>1. Holders(e) = {}
      BY <2>3, MailAssumption DEF Holders, MailInv, MailTyped, MailEngaged
    <3>2. Cardinality(Holders(e)') = 0
      BY <2>1, <3>1, FS_EmptySet
    <3>3. outbox'[e].attempts = 0
      BY <1>1, <2>3, MailersTyped
    <3>4. MaxMails \in Nat /\ MaxMails # 0 /\ mailFaults \in Nat
      BY Numbers DEF MailInv
    <3> QED BY <2>1, <3>2, <3>3, <3>4 DEF Share, Once
  <2> QED BY <2>2, <2>3
<1>3. SentWasTaken'
  BY <1>1, MailersTyped DEF MailInv, SentWasTaken
<1> QED BY <1>1, <1>2, <1>3 DEF MailInv

LEMMA MailInvMeans == MailInv => MailTypeOK /\ MailsAccountedFor
<1> SUFFICES ASSUME MailInv PROVE MailTypeOK /\ MailsAccountedFor
  OBVIOUS
<1>1. ASSUME NEW e \in Challenge, outbox[e] # None PROVE outbox[e].attempts <= MaxMails + mailFaults
  <2>1. outbox[e].attempts \in Nat /\ MaxMails \in Nat /\ mailFaults \in Nat /\ Cardinality(Willing(e)) \in Nat
    BY <1>1, Numbers, Counts DEF MailInv
  <2> QED BY <1>1, <2>1 DEF MailInv, Shares, Share, Once
<1> QED BY <1>1 DEF MailInv, MailTyped, SentWasTaken, MailsAccountedFor
=============================================================================
