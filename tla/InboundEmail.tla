---------------------------- MODULE InboundEmail ----------------------------
(***************************************************************************)
(* A message mailed to the workspace, with one document attached           *)
(* (packages/jobs/src/inbound-email.ts, its queries, and the re-drive of   *)
(* operator-recovery.ts).  The message is committed with its job before    *)
(* the sender is answered; the job offers the document to intake.          *)
(***************************************************************************)
EXTENDS IntakeReservation

VARIABLES
  mail,        \* the message
  listedMail   \* the reconciler has listed it as stalled but not settled it

mailVars == <<mail, listedMail>>

MailJob == <<"mail", 1>>
MailUploader(h) == <<"mail", h.slot>>

Mail ==
  [status : {"none", "received", "processed", "failed", "gone"},
   raw    : BOOLEAN]   \* its source is kept

MailTypeOK == mail \in Mail /\ listedMail \in BOOLEAN

\* acceptInboundEmail: the message, once however often it is delivered, and its
\* job in one transaction.
Received == [status |-> "received", raw |-> TRUE]

-----------------------------------------------------------------------------
(* processInboundEmail.                                                      *)

\* An error before anything is settled.
MailFails(h, retryable) ==
  Goes(h, IF LastWord(h, retryable) THEN "giveup" ELSE "retrying")

\* What the message itself makes impossible is settled as failed.
LoadMail(h) ==
  /\ h.at = "load"
  /\ \/ /\ mail.status = "received" /\ mail.raw
        /\ Goes(h, "take") /\ Upload(MailUploader(h))
     \/ /\ mail.status = "received"
        /\ Goes(h, "refuse") \/ MailFails(h, TRUE)
        /\ UNCHANGED attempts
     \/ /\ mail.status \in {"processed", "failed"}
        /\ Goes(h, "completing") /\ UNCHANGED attempts
     \/ /\ mail.status = "gone"
        /\ MailFails(h, FALSE) /\ UNCHANGED attempts
  /\ UNCHANGED <<mailVars, records, removals, storageVars>>

\* Mutant of Transient: intake's answer is final, whatever it is.
TransientNever(result) == FALSE

\* isTransientIntakeFailure
Transient(result) == result = "unavailable"

\* Intake has answered: a transient failure is tried again while there is budget.
TakeMail(h) ==
  LET u == MailUploader(h)
  IN /\ h.at = "take" /\ At(u, "through")
     /\ IF ~Transient(attempts[u].result) THEN Goes(h, "processed")
        ELSE Goes(h, IF LastWord(h, TRUE) THEN "refuse" ELSE "retrying")
     /\ Forget(u)
     /\ UNCHANGED <<mailVars, records, removals, storageVars>>

\* settleInboundEmail: only a received message; a processed one drops its source.
MailSettled(status) ==
  IF mail.status # "received" THEN mail
  ELSE [status |-> status, raw |-> mail.raw /\ status # "processed"]

\* The write, or an error instead of it.
SettleMail(h) ==
  /\ \/ h.at = "processed" /\ mail' = MailSettled("processed") /\ Goes(h, "completing")
     \/ h.at = "refuse" /\ mail' = MailSettled("failed") /\ Goes(h, "completing")
     \/ h.at \in {"processed", "refuse"} /\ mail' = mail /\ MailFails(h, TRUE)
     \/ h.at = "giveup" /\ mail' \in {MailSettled("failed"), mail} /\ Goes(h, "failing")
  /\ UNCHANGED <<listedMail, intakeVars, storageVars>>

MailStep(h) == LoadMail(h) \/ TakeMail(h) \/ SettleMail(h)

-----------------------------------------------------------------------------
(* The reconciler, an operator, and retention.                               *)

\* Mutant of MailStalled: a message whose job was lost is not looked for.
MailStalledNever == FALSE

\* listStalledInboundEmails
MailStalled == mail.status = "received" /\ outcome[MailJob] = "failed"

ListMail ==
  /\ MailStalled /\ listedMail' = TRUE
  /\ UNCHANGED <<workVars, mail, intakeVars, storageVars>>

\* reconcileInboundEmails: the message is still checked, its job no more.
FailListedMail ==
  /\ listedMail /\ listedMail' = FALSE
  /\ mail' = MailSettled("failed")
  /\ UNCHANGED <<workVars, intakeVars, storageVars>>

\* retryJobAsOperator of a job that was seen to have failed: the message is
\* reopened and the job restarted in one transaction.  One operator at a time.
Reopen ==
  /\ outcome[MailJob] = "failed"
  /\ \/ mail.status = "failed" /\ mail.raw /\ mail' = [mail EXCEPT !.status = "received"]
     \/ mail.status = "received" /\ mail' = mail
  /\ Queue!Restart(MailJob)
  /\ UNCHANGED <<handlers, stalls, exits, listedMail, intakeVars, storageVars>>

\* clearExpiredInboundEmailSources
DropSource ==
  /\ mail.status = "failed" /\ mail.raw
  /\ mail' = [mail EXCEPT !.raw = FALSE]
  /\ UNCHANGED <<workVars, listedMail, intakeVars, storageVars>>

-----------------------------------------------------------------------------
(* Properties.                                                               *)

\* A message is only called processed, and its source dropped, when its document
\* was accepted at least once or somebody discarded the reservation made for it.
ProcessedMailWasRead ==
  mail.status = "processed" =>
    \E r \in Records : records[r].once \/ records[r].state \in {"cancelled", "gone"}
=============================================================================
