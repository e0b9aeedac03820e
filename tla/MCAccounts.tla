----------------------------- MODULE MCAccounts -----------------------------
(* Accounts and EmailOutbox on instances small enough for TLC. *)
EXTENDS Accounts

\* Three calls less where mailers run: their steps interleave with the callers'.
MCInit ==
    /\ Init
    /\ requests = IF \A m \in Mailer : mailer[m] = StoppedMailer THEN 0 ELSE 3
\* Where no mailer runs at first, none is started; one that has died may be.
MCNext == Next /\ (mailFaults = 0 => \A m \in Mailer : ~MailerStart(m))

MCSpec == MCInit /\ [][MCNext]_vars /\ MailFairness
=============================================================================
