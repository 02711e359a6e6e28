-------------------------- MODULE InvoiceRevisions --------------------------
(***************************************************************************)
(* One invoice from its first reading on (packages/jobs/src: intake.ts     *)
(* retryIntakeProcessing, process-document.ts, exceptions.ts, delivery.ts, *)
(* delivery-rules.ts; packages/db/src/queries: inbox.ts,                   *)
(* invoice-exceptions.ts, delivery-rules.ts).  Readings by jobs,           *)
(* corrections by people and reruns of the questions each make a new       *)
(* revision; every revision is decided once under the delivery rules; what *)
(* is sent, held, released, dismissed or retried follows the decisions.    *)
(*                                                                         *)
(* The attempts of a post are AccountingPosting's: here a post that is     *)
(* queued loads the invoice and then is made, fails or is cancelled.  The  *)
(* deliveries of a revision's webhook events are WebhookDelivery's.        *)
(***************************************************************************)
EXTENDS JobHandlers, DeliveryPolicy

CONSTANTS
  Policies,      \* the delivery rules an admin may save
  Readings,      \* what reading the document may find
  MaxReads,      \* bound: readings asked for, the first one included
  MaxEvents,     \* bound: what people do and how often handlers are disturbed
  Roles,         \* who corrects: a subset of {"admin", "member"}
  Acts,          \* what else people do
  ReconcilersOverlap,  \* may two processes have listed the same job?
  NoContent, NoDecision

ASSUME RevisionsAssumption ==
  /\ Policies \subseteq Policy
  /\ Readings \subseteq Reading /\ Readings # {}
  /\ MaxReads \in Nat \ {0} /\ MaxEvents \in Nat
  /\ Roles \subseteq {"admin", "member"}
  /\ Acts \subseteq {"read", "rerun", "resolve", "retry", "settings", "delete"}
  /\ ReconcilersOverlap \in BOOLEAN /\ NoDecision \notin Decision

\* Nothing makes a revision but the first reading and what people ask for.
MaxRevision == MaxEvents + 1
Revisions == 1 .. MaxRevision

\* process-attachment, one job per reading that was asked for; rerun-judgments
\* and update-accounting-bill, one job per revision.
RevisionJobs ==
  ({"read"} \X (1 .. MaxReads)) \cup ({"rerun"} \X Revisions)
  \cup ({"update"} \X (2 .. MaxRevision))

ASSUME JobsAssumption == Jobs = RevisionJobs

VARIABLES
  invoice,     \* the inbox row
  origins,     \* what made each revision
  decisions,   \* delivery_decisions of the revisions made so far
  events,      \* revisions whose webhook events were scheduled
  post,        \* the accounting columns of the inbox row
  sending,     \* values a handler of the post has loaded; 0 when none
  bill,        \* values of the bill at the provider; 0 when there is none
  updates,     \* invoice_corrections: the bill update of each revision
  applied,     \* updates the provider has seen: <<revision, attempt>>
  policy,      \* the newest version of the delivery rules
  connection,  \* "auto", "manual" or "none", as in AccountingPosting
  listed,      \* jobs a reconciler has listed as failed but not acted on
  asked,       \* retries that have read the invoice but not acted
  asks

rowVars == <<invoice, origins, decisions>>
sentVars == <<events, post, sending, bill, updates, applied>>
settingVars == <<policy, connection>>
vars == <<workVars, rowVars, sentVars, settingVars, listed, asked, asks>>

\* A reading, and the revision that set the values a bill is made from.
Content == [reading : Readings, values : Revisions]

InvoiceRow ==
  [status   : {"processing", "read", "deleted"},
   failed   : BOOLEAN,                       \* processing_error
   revision : 0 .. MaxRevision,              \* 0: never read
   content  : Content \cup {NoContent},
   rerun    : {"none", "queued", "failed"},  \* judgments_rerun_status
   rerunOf  : 0 .. MaxRevision]

Post ==
  [status   : {"none", "queued", "posted", "failed", "cancelled"},
   revision : 0 .. MaxRevision,
   known    : BOOLEAN,    \* the invoice has the provider's id of its bill
   keyed    : BOOLEAN,    \* an attempt recorded its idempotency key
   retryable : BOOLEAN,
   explicit : BOOLEAN]    \* a person asked for it

RevisionTypeOK ==
  /\ WorkTypeOK({"load", "commit", "drop", "cancel", "updated", "send", "giveup"},
                0 .. MaxEvents)
  /\ invoice \in InvoiceRow
  /\ origins \in [Revisions -> {"none", "read", "rerun", "admin", "member"}]
  /\ decisions \in [Revisions -> Decision \cup {NoDecision}]
  /\ events \in SUBSET Revisions
  /\ post \in Post
  /\ sending \in 0 .. MaxRevision /\ bill \in 0 .. MaxRevision
  /\ updates \in [Revisions ->
       [status : {"none", "kept", "queued", "updated", "failed", "cancelled",
                  "superseded"},
        attempt : 0 .. MaxEvents]]
  /\ applied \in SUBSET (Revisions \X (0 .. MaxEvents))
  /\ policy \in Policies /\ connection \in {"auto", "manual", "none"}
  /\ listed \in SUBSET RevisionJobs
  /\ asked \in SUBSET [status : {"failed", "cancelled"}, of : Revisions,
                       revision : Revisions]
  /\ asks \in 0 .. MaxEvents

\* The document was accepted: its first reading is queued.
Init ==
  /\ WorkInit({<<"read", 1>>})
  /\ invoice = [status |-> "processing", failed |-> FALSE, revision |-> 0,
                content |-> NoContent, rerun |-> "none", rerunOf |-> 0]
  /\ origins = [r \in Revisions |-> "none"]
  /\ decisions = [r \in Revisions |-> NoDecision]
  /\ events = {}
  /\ post = [status |-> "none", revision |-> 0, known |-> FALSE,
             keyed |-> FALSE, retryable |-> FALSE, explicit |-> FALSE]
  /\ sending = 0 /\ bill = 0
  /\ updates = [r \in Revisions |-> [status |-> "none", attempt |-> 0]]
  /\ applied = {}
  /\ policy \in Policies /\ connection = "auto"
  /\ listed = {} /\ asked = {} /\ asks = 0

-----------------------------------------------------------------------------
(* Every new revision is decided and scheduled in the transaction that makes *)
(* it (scheduleInvoiceDeliveries).                                           *)

Current == decisions[invoice.revision]

\* recordAccountingPostQueued, for a post that scheduleAccountingPost does not
\* refuse: one bill per invoice, and never a second post while one is in flight.
Schedulable(p) ==
  ~p.known /\ p.status \notin {"posted", "queued"} /\ connection = "auto"

\* Mutant of Queued: recorded for the revision to come.
QueuedNext(p, revision, explicit) ==
  [p EXCEPT !.status = "queued", !.revision = revision + 1, !.retryable = FALSE,
            !.explicit = explicit]

Queued(p, revision, explicit) ==
  [p EXCEPT !.status = "queued", !.revision = revision, !.retryable = FALSE,
            !.explicit = explicit]

\* The revision after the current one, made by origin from the post p.
Revise(content, origin, p, approval, mayPost) ==
  LET r == invoice.revision + 1
      d == Decide(policy, content.reading, approval, mayPost, p.known, connection)
  IN /\ r \in Revisions
     /\ invoice' = [invoice EXCEPT !.status = "read", !.revision = r,
                      !.content = content, !.rerun = "none", !.rerunOf = 0]
     /\ origins' = [origins EXCEPT ![r] = origin]
     /\ decisions' = [decisions EXCEPT ![r] = d]
     /\ events' = IF d.webhooks = "deliver" THEN events \cup {r} ELSE events
     /\ post' = IF d.accounting = "deliver" /\ Schedulable(p)
                THEN Queued(p, r, FALSE) ELSE p

\* Mutant of PendingUpdate: an update that is queued does not hold up a correction.
NoUpdatePends == FALSE

PendingUpdate == \E r \in Revisions : updates[r].status = "queued"

-----------------------------------------------------------------------------
(* Readings.                                                                 *)

ReadJobs == {"read"} \X (1 .. MaxReads)

NoReadPending == \A j \in ReadJobs : outcome[j] # "pending"

\* Re-extract (retryIntakeProcessing): one reading at a time, and not while a
\* bill update is on its way.
RequestRead(n) ==
  /\ invoice.status # "deleted" /\ NoReadPending /\ ~PendingUpdate
  /\ outcome[<<"read", n>>] = "absent"
  /\ \A m \in 1 .. (n - 1) : outcome[<<"read", m>>] # "absent"
  /\ Queue!Record(<<"read", n>>)
  /\ invoice' = [invoice EXCEPT !.status = "processing", !.failed = FALSE]
  /\ UNCHANGED <<handlers, stalls, exits, origins, decisions, sentVars,
                 settingVars, listed, asked>>

\* A document somebody has read already is left alone; what goes wrong on the
\* way to a result is retried or not.
Read(h) ==
  /\ h.at = "load"
  /\ IF invoice.status # "processing" THEN Goes(h, "completing")
     ELSE \/ Goes(h, "commit")
          \/ \E retryable \in BOOLEAN :
               Goes(h, IF LastWord(h, retryable) THEN "giveup" ELSE "retrying")
  /\ UNCHANGED <<jobVars, stalls, exits, rowVars, sentVars, settingVars, listed,
                 asked, asks>>

\* Mutant of Completable: whoever comes with a result is taken.
CompletableUnlessDeleted == invoice.status # "deleted"

\* completeInboxProcessing: the loser of a race writes nothing.
Completable == invoice.status = "processing"

\* Mutant of Superseded: an update that failed stays for a retry.
NotSuperseded == updates

\* supersedeBillUpdates
Superseded ==
  [r \in Revisions |->
     IF updates[r].status \in {"failed", "cancelled"}
     THEN [updates[r] EXCEPT !.status = "superseded"] ELSE updates[r]]

\* saveProcessedDocument, completeAndSchedule
CommitRead(h) ==
  /\ h.at = "commit"
  /\ \/ /\ Completable
        /\ \E reading \in Readings :
             Revise([reading |-> reading, values |-> invoice.revision + 1],
                    "read", post, FALSE, TRUE)
        /\ updates' = Superseded
     \/ ~Completable /\ UNCHANGED <<rowVars, events, post, updates>>
  /\ Goes(h, "completing")
  /\ UNCHANGED <<jobVars, stalls, exits, sending, bill, applied, settingVars,
                 listed, asked, asks>>

\* recordInboxProcessingFailure: a saved reading is kept.
FailedReading ==
  IF invoice.status = "processing"
  THEN [invoice EXCEPT !.status = "read", !.failed = TRUE, !.rerun = "none",
                       !.rerunOf = 0]
  ELSE invoice

\* The write may itself fail; its error is swallowed.
GiveUpRead(h) ==
  /\ h.at = "giveup"
  /\ invoice' \in {FailedReading, invoice}
  /\ Goes(h, "failing")
  /\ UNCHANGED <<jobVars, stalls, exits, origins, decisions, sentVars,
                 settingVars, listed, asked, asks>>

\* reconcileInvoiceOperations: a document nobody reads any more, looked at again
\* under its lock.
FailStalledRead ==
  /\ invoice.status = "processing" /\ NoReadPending
  /\ \E j \in ReadJobs : outcome[j] = "failed"
  /\ invoice' = FailedReading
  /\ UNCHANGED <<workVars, origins, decisions, sentVars, settingVars, listed,
                 asked, asks>>

-----------------------------------------------------------------------------
(* Question reruns.                                                          *)

\* assertActionable
Actionable == invoice.status = "read" /\ ~invoice.failed /\ invoice.revision > 0

\* requestQuestionRerun: repeated clicks share the job of the revision.
RequestRerun ==
  /\ Actionable
  /\ ~(invoice.rerun = "queued" /\ invoice.rerunOf = invoice.revision)
  /\ invoice' = [invoice EXCEPT !.rerun = "queued", !.rerunOf = invoice.revision]
  /\ RequeueOrEnqueue(<<"rerun", invoice.revision>>)
  /\ UNCHANGED <<handlers, stalls, exits, origins, decisions, sentVars,
                 settingVars, listed, asked>>

RerunWanted(r) == invoice.rerun = "queued" /\ invoice.rerunOf = r

\* clearJudgmentsRerun
RerunCleared(r) ==
  IF invoice.rerunOf = r THEN [invoice EXCEPT !.rerun = "none", !.rerunOf = 0]
  ELSE invoice

LoadRerun(h) ==
  /\ h.at = "load"
  /\ IF invoice.status # "read" \/ invoice.revision # h.job[2]
        \/ ~RerunWanted(h.job[2])
     THEN Goes(h, "drop")
     ELSE \/ Goes(h, "commit")
          \/ \E retryable \in BOOLEAN :
               Goes(h, IF LastWord(h, retryable) THEN "giveup" ELSE "retrying")
  /\ UNCHANGED <<jobVars, stalls, exits, rowVars, sentVars, settingVars, listed,
                 asked, asks>>

DropRerun(h) ==
  /\ h.at = "drop"
  /\ invoice' = RerunCleared(h.job[2])
  /\ Goes(h, "completing")
  /\ UNCHANGED <<jobVars, stalls, exits, origins, decisions, sentVars,
                 settingVars, listed, asked, asks>>

Unresolved(d) == d # NoDecision /\ d.resolution = "none"

\* Mutant of CarriesApproval: new answers are judged afresh.
CarriesNothing(d) == FALSE

\* Only a release clears a hold that waits for an admin.
CarriesApproval(d) == Unresolved(d) /\ "awaiting_approval" \in d.reasons

\* A rerun posts nothing but what its revision's decision held.
RerunMayPost(d) == Unresolved(d) /\ d.accounting = "held"

\* rerunInvoiceJudgments: the new answers make a revision only if the invoice is
\* still the one that was asked about.
CommitRerun(h) ==
  LET r == h.job[2]
      old == invoice.content
  IN /\ h.at = "commit"
     /\ IF invoice.revision = r /\ RerunWanted(r) /\ invoice.status = "read"
        THEN \E reading \in Readings :
               /\ [reading EXCEPT !.answers = old.reading.answers] = old.reading
               /\ Revise([old EXCEPT !.reading = reading], "rerun", post,
                         CarriesApproval(Current), RerunMayPost(Current))
        ELSE /\ invoice' = RerunCleared(r)
             /\ UNCHANGED <<origins, decisions, events, post>>
     /\ Goes(h, "completing")
     /\ UNCHANGED <<jobVars, stalls, exits, sending, bill, updates, applied,
                    settingVars, listed, asked, asks>>

\* recordJudgmentsRerunFailure
RerunFailed(r) ==
  IF RerunWanted(r) THEN [invoice EXCEPT !.rerun = "failed"] ELSE invoice

GiveUpRerun(h) ==
  /\ h.at = "giveup"
  /\ invoice' \in {RerunFailed(h.job[2]), invoice}
  /\ Goes(h, "failing")
  /\ UNCHANGED <<jobVars, stalls, exits, origins, decisions, sentVars,
                 settingVars, listed, asked, asks>>

-----------------------------------------------------------------------------
(* Corrections.                                                              *)

\* An attempt under the current key may have made a bill of the old values.
PostMayExist ==
  /\ post.keyed
  /\ \/ post.status = "failed" /\ post.retryable
     \/ post.status = "cancelled"

\* A member cannot clear a hold by editing values.
NeedsApproval(role) ==
  role = "member" /\ ~post.known /\ Unresolved(Current) /\ Withheld(Current)

\* What becomes of the bill: a posted one is kept or, by an admin, updated.
BillOutcomes(role, reading) ==
  IF ~post.known THEN {"not_posted"}
  ELSE {"keep_bill"} \cup
       IF role = "admin" /\ connection # "none" /\ Ready(reading)
       THEN {"update_bill"} ELSE {}

\* correctInvoice.  `renumbers`: the document type or number is among the changes.
Correct(role, reading, renumbers) ==
  LET r == invoice.revision + 1
      renewed == IF renumbers /\ ~post.known THEN [post EXCEPT !.keyed = FALSE]
                 ELSE post
      repost == post.status # "none" /\ role # "admin"
  IN /\ Actionable
     /\ reading.answers = invoice.content.reading.answers
     /\ post.status # "queued" /\ ~PendingUpdate /\ ~PostMayExist
     /\ \E choice \in BillOutcomes(role, reading) :
          /\ Revise([reading |-> reading, values |-> r], role, renewed,
                    NeedsApproval(role), choice = "not_posted" /\ ~repost)
          /\ updates' = [updates EXCEPT ![r].status =
                           IF choice = "update_bill" THEN "queued" ELSE "kept"]
          /\ IF choice = "update_bill" THEN Queue!Record(<<"update", r>>)
             ELSE UNCHANGED jobVars
     /\ UNCHANGED <<handlers, stalls, exits, sending, bill, applied, settingVars,
                    listed, asked>>

-----------------------------------------------------------------------------
(* Resolving a hold.                                                         *)

\* lockHeldDecision
Resolvable ==
  /\ invoice.status = "read" /\ invoice.revision > 0 /\ Unresolved(Current)
  /\ Current.reasons # {} /\ Withheld(Current)

\* Mutant of Resolve: the resolution is written without looking for another.
ResolveAgain(resolution) ==
  /\ invoice.status = "read" /\ invoice.revision > 0 /\ Withheld(Current)
  /\ decisions' = [decisions EXCEPT ![invoice.revision].resolution = resolution]

\* resolveDeliveryDecision, at the revision the admin saw.
Resolve(resolution) ==
  /\ Resolvable
  /\ decisions' = [decisions EXCEPT ![invoice.revision].resolution = resolution]

ReleasedEvents ==
  IF Current.webhooks = "held" THEN events \cup {invoice.revision} ELSE events

\* releaseHeldDelivery: the destinations that were held are scheduled now.
Release ==
  /\ Resolve("released") /\ Releasable(Current.reasons)
  /\ events' = ReleasedEvents
  /\ post' = IF Current.accounting = "held" /\ Schedulable(post)
             THEN Queued(post, invoice.revision, FALSE) ELSE post
  /\ UNCHANGED <<workVars, invoice, origins, sending, bill, updates, applied,
                 settingVars, listed, asked>>

\* dismissHeldDelivery
Dismiss ==
  /\ Resolve("dismissed")
  /\ UNCHANGED <<workVars, invoice, origins, sentVars, settingVars, listed, asked>>

-----------------------------------------------------------------------------
(* Retries.                                                                  *)

\* Mutant of MayRetry: a retry does not look at the decision.
MayRetryAnyway(revision, status) == status \in {"failed", "cancelled"}

\* requeueAccountingIntent: a post that failed or was cancelled, unless the rules
\* hold the revision that is taken for the current one.
MayRetry(revision, status) ==
  /\ status \in {"failed", "cancelled"} /\ connection # "none"
  /\ ~(decisions[revision] # NoDecision /\ Held(decisions[revision]))

\* The newest correction decides the bill (getLatestBillUpdate).
LastCorrection ==
  CHOOSE r \in 0 .. MaxRevision :
    /\ r = 0 \/ updates[r].status # "none"
    /\ \A q \in (r + 1) .. MaxRevision : updates[q].status = "none"

UpdateRetried ==
  LET r == LastCorrection
  IN /\ r > 0 /\ invoice.status # "processing" /\ connection # "none"
     /\ updates[r].status \in {"failed", "cancelled"}

\* retryInvoiceDelivery by an admin, on the row it has locked: the newest bill
\* update and the post.
RetryDelivery ==
  LET r == LastCorrection
      retried == ~post.known /\ MayRetry(invoice.revision, post.status)
  IN /\ invoice.status # "deleted" /\ invoice.revision > 0
     /\ retried \/ UpdateRetried
     /\ post' = IF retried THEN Queued(post, post.revision, TRUE) ELSE post
     /\ IF UpdateRetried
        THEN /\ updates' = [updates EXCEPT ![r] = [status |-> "queued",
                                                   attempt |-> @.attempt + 1]]
             /\ RequeueOrEnqueue(<<"update", r>>)
        ELSE UNCHANGED <<updates, jobVars>>
     /\ UNCHANGED <<handlers, stalls, exits, rowVars, events, sending, bill,
                    applied, settingVars, listed, asked>>

\* retryAccountingPost reads the invoice before its transaction; a post that was
\* never scheduled is taken for a failed one.
AskRetry ==
  /\ invoice.status # "deleted" /\ invoice.revision > 0 /\ ~post.known
  /\ connection # "none" /\ post.status \in {"none", "failed", "cancelled"}
  /\ asked' = asked \cup
       {[status |-> IF post.status = "none" THEN "failed" ELSE post.status,
         of |-> IF post.revision = 0 THEN invoice.revision ELSE post.revision,
         revision |-> invoice.revision]}
  /\ UNCHANGED <<workVars, rowVars, sentVars, settingVars, listed>>

\* A bill that was recorded meanwhile stays as it is.
RetryPost(a) ==
  /\ asked' = asked \ {a}
  /\ MayRetry(a.revision, a.status)
  /\ post' = IF post.known THEN post ELSE Queued(post, a.of, TRUE)
  /\ UNCHANGED <<workVars, rowVars, events, sending, bill, updates, applied,
                 settingVars, listed, asks>>

-----------------------------------------------------------------------------
(* The post of the invoice (postAccountingDraft; AccountingPosting has its   *)
(* attempts).                                                                *)

\* The invoice is read as it is now, whichever revision the post was queued for.
LoadPost ==
  /\ post.status = "queued" /\ sending = 0
  /\ \/ /\ invoice.status = "deleted" \/ connection = "none"
        /\ post' = [post EXCEPT !.status = "cancelled", !.retryable = FALSE]
        /\ UNCHANGED sending
     \/ /\ invoice.status # "deleted" /\ connection = "manual" /\ ~post.explicit
        /\ post' = [post EXCEPT !.status = "cancelled", !.retryable = TRUE]
        /\ UNCHANGED sending
     \/ /\ invoice.status # "deleted"
        /\ connection = "auto" \/ (connection = "manual" /\ post.explicit)
        /\ IF Ready(invoice.content.reading)
           THEN sending' = invoice.content.values /\ UNCHANGED post
           ELSE /\ post' = [post EXCEPT !.status = "failed", !.retryable = FALSE,
                                        !.keyed = TRUE]
                /\ UNCHANGED sending
  /\ UNCHANGED <<workVars, rowVars, events, bill, updates, applied, settingVars,
                 listed, asked, asks>>

\* A bill of the key is found or made, or the attempt fails: with or without a
\* bill at the provider, for good or not, with another attempt to come or not.
SendPost ==
  /\ sending # 0 /\ sending' = 0
  /\ \/ /\ bill' = IF bill = 0 THEN sending ELSE bill
        /\ post' = [post EXCEPT !.status = "posted", !.known = TRUE, !.keyed = TRUE,
                                !.retryable = FALSE]
     \/ /\ bill' \in {bill, IF bill = 0 THEN sending ELSE bill}
        /\ post' \in {[post EXCEPT !.keyed = TRUE],
                      [post EXCEPT !.status = "failed", !.keyed = TRUE,
                                   !.retryable = TRUE]}
     \/ /\ bill' = bill
        /\ post' = [post EXCEPT !.status = "failed", !.keyed = TRUE,
                                !.retryable = FALSE]
  /\ UNCHANGED <<workVars, rowVars, events, updates, applied, settingVars, listed,
                 asked, asks>>

-----------------------------------------------------------------------------
(* The update of a posted bill (updateAccountingBill).                       *)

LoadUpdate(h) ==
  LET r == h.job[2]
  IN /\ h.at = "load"
     /\ IF updates[r].status # "queued" THEN Goes(h, "completing")
        ELSE IF invoice.status = "deleted" \/ connection = "none"
        THEN Goes(h, "cancel")
        ELSE Becomes(h, [h EXCEPT !.at = "send", !.seen = updates[r].attempt])
     /\ UNCHANGED <<jobVars, stalls, exits, rowVars, sentVars, settingVars, listed,
                    asked, asks>>

\* recordBillUpdateOutcome: only a queued update is settled.
Settled(r, status) ==
  IF updates[r].status = "queued" THEN [updates EXCEPT ![r].status = status]
  ELSE updates

\* The provider answers a key it has seen without doing it again.
UpdatedBill(r, attempt) == IF <<r, attempt>> \in applied THEN bill ELSE r

\* The call: done and answered, done but the answer is lost, or not done.
SendUpdate(h) ==
  LET r == h.job[2]
  IN /\ h.at = "send"
     /\ \/ /\ bill' = UpdatedBill(r, h.seen)
           /\ applied' = applied \cup {<<r, h.seen>>}
           /\ \E at \in {"updated", IF LastWord(h, TRUE) THEN "giveup"
                                  ELSE "retrying"} : Goes(h, at)
        \/ /\ UNCHANGED <<bill, applied>>
           /\ \E retryable \in BOOLEAN :
                Goes(h, IF LastWord(h, retryable) THEN "giveup" ELSE "retrying")
     /\ UNCHANGED <<jobVars, stalls, exits, rowVars, events, post, sending,
                    updates, settingVars, listed, asked, asks>>

SettleUpdate(h) ==
  /\ \/ h.at = "updated" /\ updates' = Settled(h.job[2], "updated")
        /\ Goes(h, "completing")
     \/ h.at = "cancel" /\ updates' = Settled(h.job[2], "cancelled")
        /\ Goes(h, "completing")
     \/ h.at = "giveup" /\ updates' = Settled(h.job[2], "failed")
        /\ Goes(h, "failing")
  /\ UNCHANGED <<jobVars, stalls, exits, rowVars, events, post, sending, bill,
                 applied, settingVars, listed, asked, asks>>

-----------------------------------------------------------------------------
(* The reconciler's lists, and what the lists are acted on.                  *)

\* Mutant of Stalled: updates are not looked for.
StalledRerun(j) == outcome[j] = "failed" /\ j[1] = "rerun" /\ RerunWanted(j[2])

Stalled(j) ==
  /\ outcome[j] = "failed"
  /\ \/ j[1] = "rerun" /\ RerunWanted(j[2])
     \/ j[1] = "update" /\ updates[j[2]].status = "queued"

ListStalled(j) ==
  /\ Stalled(j)
  /\ listed' = listed \cup {j}
  /\ UNCHANGED <<workVars, rowVars, sentVars, settingVars, asked, asks>>

\* reconcileInvoiceOperations, reconcileDeliveries: the job is not looked at
\* again.  Every process has a reconciler: another may have listed the job too.
FailListed(j) ==
  /\ j \in listed
  /\ listed' \in {listed \ {j}} \cup IF ReconcilersOverlap THEN {listed} ELSE {}
  /\ IF j[1] = "rerun"
     THEN invoice' = RerunFailed(j[2]) /\ UNCHANGED updates
     ELSE updates' = Settled(j[2], "failed") /\ UNCHANGED invoice
  /\ UNCHANGED <<workVars, origins, decisions, events, post, sending, bill,
                 applied, settingVars, asked, asks>>

-----------------------------------------------------------------------------
(* Settings, and the end of an invoice.                                      *)

\* saveDeliveryPolicy: a new version; what was decided stays decided.
SavePolicy(p) ==
  /\ p # policy /\ policy' = p
  /\ UNCHANGED <<workVars, rowVars, sentVars, connection, listed, asked>>

SwitchConnection(to) ==
  /\ to # connection /\ connection' = to
  /\ UNCHANGED <<workVars, rowVars, sentVars, policy, listed, asked>>

\* deleteInbox, as far as it concerns the row.
DeleteInvoice ==
  /\ invoice.status # "deleted"
  /\ invoice' = [invoice EXCEPT !.status = "deleted"]
  /\ UNCHANGED <<workVars, origins, decisions, sentVars, settingVars, listed,
                 asked>>

-----------------------------------------------------------------------------

Started(j) ==
  /\ Begin(j, "load", 0)
  /\ asks + stalls' + exits <= MaxEvents
  /\ UNCHANGED <<rowVars, sentVars, settingVars, listed, asked, asks>>

HandlerStep(h) ==
  \/ h.job[1] = "read" /\ (Read(h) \/ CommitRead(h) \/ GiveUpRead(h))
  \/ h.job[1] = "rerun" /\ (LoadRerun(h) \/ DropRerun(h) \/ CommitRerun(h)
                            \/ GiveUpRerun(h))
  \/ h.job[1] = "update" /\ (LoadUpdate(h) \/ SendUpdate(h) \/ SettleUpdate(h))
  \/ SettleJob(h) /\ UNCHANGED <<rowVars, sentVars, settingVars, listed, asked, asks>>

JobEnds(j) ==
  /\ Reap(j) \/ \E h \in HandlersOf(j) : Vanish(h)
  /\ asks + stalls + exits' <= MaxEvents
  /\ UNCHANGED <<rowVars, sentVars, settingVars, listed, asked, asks>>

PersonActs ==
  /\ asks' = asks + 1 /\ asks' + stalls + exits <= MaxEvents
  /\ \/ "read" \in Acts /\ \E n \in 1 .. MaxReads : RequestRead(n)
     \/ "rerun" \in Acts /\ RequestRerun
     \/ \E role \in Roles, reading \in Readings, renumbers \in BOOLEAN :
          Correct(role, reading, renumbers)
     \/ "resolve" \in Acts /\ (Release \/ Dismiss)
     \/ "retry" \in Acts /\ (RetryDelivery \/ AskRetry)
     \/ "settings" \in Acts /\ \E p \in Policies : SavePolicy(p)
     \/ "settings" \in Acts /\ \E to \in {"auto", "manual", "none"} : SwitchConnection(to)
     \/ "delete" \in Acts /\ DeleteInvoice

Next ==
  \/ PersonActs
  \/ \E a \in asked : RetryPost(a)
  \/ \E j \in RevisionJobs : Started(j) \/ JobEnds(j) \/ ListStalled(j)
                            \/ FailListed(j)
  \/ \E h \in handlers : HandlerStep(h)
  \/ FailStalledRead \/ LoadPost \/ SendPost

Spec == Init /\ [][Next]_vars

\* The runner polls for ever, a lease nobody renews runs out, and the reconciler
\* comes by for ever.  That what a handler waits for returns is assumed: its
\* statements and its calls to the provider have no deadline.
Fairness ==
  \A j \in RevisionJobs :
    /\ WF_vars(Started(j)) /\ WF_vars(NoHandlerLeft(j) /\ JobEnds(j))
    /\ WF_vars(\E h \in HandlersOf(j) : HandlerStep(h))
    /\ WF_vars(ListStalled(j)) /\ WF_vars(FailListed(j))
    /\ WF_vars(FailStalledRead)

FairSpec == Spec /\ Fairness

-----------------------------------------------------------------------------
(* Properties.                                                               *)

\* Webhook events of a revision are scheduled when its decision or an admin lets
\* them through, and only then, whoever releases, dismisses, corrects or reruns
\* at the same time.
SentIffLetThrough ==
  \A r \in Revisions :
    r \in events <=>
      /\ decisions[r] # NoDecision
      /\ decisions[r].webhooks = "deliver" \/ decisions[r].resolution = "released"

\* A post is queued only if nothing holds the invoice as it then is, except by a
\* retry that read the invoice before.
PostIsLetThrough ==
  [][post.status # "queued" /\ post'.status = "queued" /\ asked \subseteq asked'
       => ~Held(decisions'[invoice'.revision])]_vars

\* The correction was made before a bill was posted: afterwards a correction
\* changes nothing that is sent to the provider, and needs no approval.
BeforePosting(k) ==
  /\ decisions[k].accounting # "already_posted"
  /\ decisions[k].accounting = "off" => ~post.known

\* Since a member corrected what was held, revisions up to r are reruns or
\* corrections by members while no bill was posted, and no hold was resolved.
Unreleased(m, r) ==
  /\ origins[m] = "member" /\ Withheld(decisions[m - 1])
  /\ \A k \in (m - 1) .. (r - 1) : decisions[k].resolution = "none"
  /\ \A k \in m .. r :
       origins[k] = "rerun" \/ (origins[k] = "member" /\ BeforePosting(k))

\* As long as each of those revisions withholds something, the newest waits for
\* an admin, however often it is corrected or its questions are asked again.
HeldCorrectionWaits ==
  \A r \in 2 .. invoice.revision : \A m \in 2 .. r :
    Unreleased(m, r) /\ (\A k \in m .. (r - 1) : Withheld(decisions[k]))
      => "awaiting_approval" \in decisions[r].reasons

\* A member cannot clear a hold by editing values: nothing is posted for such a
\* revision without an admin.
MemberCannotClearHold ==
  \A r \in 2 .. invoice.revision : \A m \in 2 .. r :
    Unreleased(m, r) => decisions[r].accounting # "deliver"

\* However many handlers overlap, a reading that was asked for makes one revision.
OneRevisionPerRead ==
  Cardinality({r \in Revisions : origins[r] = "read"})
    <= Cardinality({j \in ReadJobs : outcome[j] # "absent"})

\* No update that is on its way, or that a retry would send again, has values
\* that a later reading or correction replaced.
UpdatesAreCurrent ==
  \A r \in Revisions :
    invoice.status # "deleted"
      /\ (updates[r].status = "queued" \/ (UpdateRetried /\ r = LastCorrection))
    => invoice.content.values = r

\* An update that is recorded as made is what the bill carries, while no handler
\* has outlived its lease and no reconciler fails what another has listed too.
NewestUpdateDecides ==
  stalls = 0 /\ ~ReconcilersOverlap
      /\ LastCorrection > 0 /\ updates[LastCorrection].status = "updated"
    => bill = LastCorrection

\* Nothing reads as in progress for ever.
NothingInProgressForEver ==
  /\ invoice.status = "processing" ~> invoice.status # "processing"
  /\ invoice.rerun = "queued" ~> invoice.rerun # "queued"
  /\ PendingUpdate ~> ~PendingUpdate
=============================================================================
