# InvoiceWise: a TLA+ model of its durable work

InvoiceWise takes invoices in, reads them, decides where they go and delivers
them to webhooks and accounting systems. Everything that must not be lost runs
as a job in a Postgres queue, and what a job does is recorded on rows of its
own: an invoice and its revisions, a delivery, an accounting post, a message, an
export, a deletion request. These modules model that machinery, check it with
TLC and prove the main properties with TLAPS.

    tlc -workers 2 -config MCWorkflowQueueLive.cfg MCWorkflowQueue
    tlapm WorkflowQueueProofs.tla

## The system

| Part | State | Operations | Talks to |
| --- | --- | --- | --- |
| Workflow queue `packages/db/src/queries/workflows.ts` | `workflow_jobs`: status, attempts, `locked_by`, lease | enqueue, claim (with the reaper), heartbeat, release, complete, retry, fail, restart, requeue, operator cancel | every other part enqueues; the runner claims |
| Runner `packages/jobs/src/runner.ts` | slots, one fiber per job | claim, run, heartbeat, write the outcome, hand back | queue, handlers, reconcilers |
| Webhook delivery `packages/jobs/src/webhooks.ts`, `packages/db/src/queries/webhooks.ts` | `webhook_deliveries`: status, attempts, payload; endpoints | schedule, load, POST, record, cancel, announce a failure | queue; the consumer |
| Delivery handoff `packages/jobs/src/delivery.ts` | intents of an invoice revision | complete and schedule, reconcile, retry, redeliver, release or dismiss a held delivery | deliveries, accounting posts, queue |
| Accounting posts `packages/jobs/src/accounting.ts` | post status, provider id, claims per document identity | claim, post, record, release for review, attach, update the bill | Xero and QuickBooks through Nango |
| Delivery rules `packages/jobs/src/delivery-rules.ts` | policy versions, one decision per revision | save, decide | handoff |
| Corrections, reruns `packages/jobs/src/exceptions.ts`, `packages/db/src/queries/invoice-exceptions.ts` | processing revision, rerun columns, bill updates | correct, rerun, reconcile | handoff, queue |
| Intake `packages/jobs/src/intake.ts` | reservation, publication lease, pending object removals | reserve, publish, accept, discard, delete, retry | storage, queue |
| Inbound email `packages/jobs/src/inbound-email.ts` | received messages by key | accept, process, settle, reconcile, re-drive | intake, queue |
| Data export `packages/jobs/src/data-export.ts` | request, archive path, expiry | request, build, publish, fail, expire | storage, queue |
| Deletion `packages/jobs/src/deletion.ts` | deletion request and its progress | delete, revoke, purge, fail, resume | storage, providers, queue |
| Question reruns, source matching, suppliers | runs; links and their amounts; identities | rerun one question; match, link; merge, split | invoices |

What is hard about it: two processes of every deploy overlap and share the
rows; leases expire under fibers that still run; a POST, a provider call or a
write to storage has an unknown outcome; a job and the row it works on are
written by different transactions, so either may be one step ahead; users,
operators, retention and reconcilers write the same rows; and nobody but the
reconcilers looks at a row that fell between. `PROJECT.json` lists each of these
hazards at its line.

What makes the parts correct:

- queue: a job is run by one holder at a time, its budget is neither exceeded
  nor lost, a finished job stays finished, every job settles;
- deliveries: what is recorded as delivered was received, settled deliveries
  are not downgraded, a failure is announced with it, an explicit retry wins
  over a reconciler, every delivery ends in a visible state;
- accounting: at most one bill per invoice, its own, under a claim that stays;
- decisions: one per revision; a revision is sent exactly when its decision or
  an admin lets it through, and nobody but an admin clears a hold;
- revisions: a reading that was asked for makes one, however often its job is
  repeated; a bill update carries the newest values;
- intake: an accepted document has its bytes, and bytes that never became a
  document are removed or remembered;
- exports and mail: archives match their request, a message is not called
  processed unread, and each request ends, however often it is resumed;
- deletion: what is recorded as purged is empty, and only writes that outlasted
  the wait before it can put an object back.

## Modules

| Module | Models |
| --- | --- |
| `JobLifecycle` | the abstract promise of the queue about one job: pending until it succeeds or fails, a bounded number of counted tries, restarted only with a full budget |
| `WorkflowQueue` | the queue's statements and the runner's fibers, with crashes, deploys, stalled heartbeats, operators and restarts |
| `WebhookDelivery` | extends the queue: every job carries out one delivery; handler steps, endpoints, reconciler, redelivery, retention |
| `AccountingPosting` | posting invoices as bills: jobs as `JobLifecycle` promises them, handlers, claims, corrections, retries, and the provider as a ledger |
| `JobHandlers` | what the remaining components share: handlers of jobs as `JobLifecycle` promises them, which may vanish, fail, or meet a second handler of their job |
| `DeliveryPolicy` | the evaluation of delivery rules and the decision of a revision, as operators |
| `InvoiceRevisions` | one invoice: readings, corrections, reruns, the decision of each revision, release, dismissal, retries, the update of a posted bill |
| `Storage` | the private objects of a workspace, as those who store and remove them see them |
| `IntakeReservation` | uploads of one document: reservation, publication, acceptance, discard, deletion |
| `InboundEmail` | a message with one document, on intake |
| `DataExport` | an export and its archive, with the retention sweep |
| `Offboarding` | the deletion of a workspace |
| `Workspace` | the composition of the four: one storage, one queue, one workspace row |
| `WorkflowQueueProofs`, `WebhookDeliveryProofs`, `AccountingPostingProofs`, `DeliveryPolicyProofs`, `JobHandlersProofs`, `InvoiceRevisionsProofs`, `IntakeReservationProofs`, `WorkspaceProofs` | the theorems |
| `MCWorkflowQueue`, `MCWebhookDelivery`, `MCAccountingPosting`, `MCInvoiceRevisions`, `MCWorkspace` | small instances |

### WorkflowQueue

`jobs` is the table, one row per `(name, idempotency_key)`: `status`,
`attempts`, `lockedBy` and the lease, which is "none", "live" or "expired".
Times and backoff are left out: a due time in the future is a claim that has
not been made yet, and `LeaseExpires` is the passing of `lease_expires_at`.
`runs` are the handler fibers of all processes. A run knows what its claim
returned (`attempt`) and its process; its `phase` is what it does next. `claim`
numbers the claims of a job so that fibers of the same process can be told
apart, which the code does not do: `Owns` compares `locked_by` only, as the
WHERE clauses of complete, retry and fail do, and `Holds` adds the status, as
heartbeat and release do.

`Claim(w, S)` is the claim transaction: it first fails every expired row
without budget (`Reaped`), then leases `S`. The query's order only says which
due rows come first, and rows locked by a concurrent claim are skipped, so any
set of claimable rows that fits the slots may be taken. `Poll` adds the budget
exclusion. `Finish` is the end of the handler; `Settle` the outcome write that
follows it in another transaction; `Abandon` a defect or a failed queue write.
`Crash` drops a process's fibers; `Shutdown` interrupts them, and each then
hands its job back (`Release`) unless the process dies first. A process that
left does not come back: a restarted one has a fresh worker id, so it would be
another member of `Workers`.

### WebhookDelivery

`deliveries` is the delivery table, one row per job. A handler is a record of
`steps`: it starts, posts, and then waits for one write, `cancel` or `record`.
`RunEnds` and `Interrupt` keep the steps and the runs together: a handler that
is interrupted stops, except that a write it has already sent may still commit,
because a promise is not cancelled with its fiber. `payloads` says whether the
job row still holds its payload, `contents` whether the delivery row does;
`endpoints` and `invoices` are what the handler checks before it posts.
`received` is what the consumer saw, and `notices` the attempt counts for which
a `delivery.failed` event exists, since its id is made of the delivery and that
count. `ListStalled` and `SettleStalled` are the reconciler: it reads a list
and then settles the entries one transaction each. `Redrive` is the shared part
of redelivery and retry. `Disruptions` chooses what happens besides: endpoints
closing ("close"), invoices being deleted ("delete"), "retention", operators
cancelling jobs ("cancel") and job rows that disappear ("lose"). No code of the
program deletes a job row; the reconciler is written for it, so the model has
it.

A delivery's job has at most `MaxAttempts` attempts (four in the code). The
queue underneath is the one of `WorkflowQueue`: `QueueUnderneath` says so, and
TLC and TLAPS both check it.

### AccountingPosting

`invoices` holds what a document says, reduced to its type and number (one
value of `Numbers`, what `postingKeyOf` reads; a document without a number is
not modelled), whether validation blocks it as a duplicate, and its revision;
`posts` the accounting columns of the same row; `claims` is
`accounting_post_claims` for numbers (a released post claims an identity only
it can have); `ledger` is what the provider has. Job `<<i, r>>` posts revision
`r` of invoice `i`, as `workflowKey.accounting` names it. The queue below is
`JobLifecycle`, which `WorkflowQueue` implements: `Start` is a try, `SettleJob`
the runner's write, `Vanish` a crash (the try stays counted) or a hand-back,
`Reap` the reaper.

A handler of `postAccountingDraft` is a record that goes through `load`,
`claim`, `holder`, `find`, `create`, one or two writes and its end; between any
two of them every other actor may move, so the number, key and release it
loaded may be stale. `Load` reads the invoice and the connection in one step,
which the code does in two consecutive reads. The create call is answered,
made without the answer arriving, lost before it was made, or refused for
good, which is a property of the document (`refused`) that a correction may
mend. Each document has a supplier, chosen in `Init`: it decides validation,
the comparison with the holder of a claim, and what the lookup by supplier and
number can see; unless `CopiesArrive`, no two documents share one. `remembered`
are the keys a create call is answered by; with `KeysExpire` the provider may
forget one nobody is posting under, and only the lookup helps then. The
provider calls translated are those for Xero; the lookup of QuickBooks differs
in its query only, and bills that people enter at the provider are not
modelled.

`Complete` and `Correct` set the validation of the document and, in the same
transaction, of later unposted ones (`Validated`). `RetryDelivery` locks the
invoice and retries; `retryAccountingPost` reads first (`AskRetry`) and acts
later (`RetryPost`), or never when the connection is gone by then.

Not modelled: attachments, a job row that is missing, several providers or
organisations. Decisions that hold a post, reruns, and the update of a posted
bill are `InvoiceRevisions`'.

### JobHandlers

The queue is taken at its word: `outcome` and `tries` are the state of
`JobLifecycle`, and `QueueUnderneath` in `WebhookDelivery` with `LifecycleSpec`
in `WorkflowQueue` are what justifies that. A handler is a record with its job,
its attempt, the step it is `at` and what it has `seen`. `Begin` claims a job
nobody works on; a claim while a handler is still under way is a lease that ran
out under it, counted in `stalls`. `Vanish` is a crash or a hand-back, counted
in `exits`; `Reap` fails a job whose last attempt vanished. `SettleJob` is the
runner's write, which hits nothing when the lease was lost. `LastWord` is the
handlers' own test of whether another attempt follows.

### DeliveryPolicy

`Reasons` is what a policy finds in a reading, one disjunct per rule, and
`Decide` what a revision is told: `webhooks` and `accounting` each deliver,
hold or are not wanted, with the reasons for a person to see. Confidences and
texts are abstracted to whether a question has an answer, and an answer to one
number that conditions compare. The rules a policy cannot switch off are
`Locked`. Normalisation of a saved policy is not modelled: a policy is one that
was normalised.

### InvoiceRevisions

`invoice` is the inbox row as reading, correcting and rerunning see it,
`decisions` the decision row of each revision, `events` the revisions whose
webhook events were scheduled, `updates` the corrections with their bill update.
`Revise` is the transaction that completes a revision: the row, its decision,
its events and its post commit together (`scheduleInvoiceDeliveries`). `post`
holds the columns of the accounting post; its attempts are abstracted to
`LoadPost` and `SendPost`, since `AccountingPosting` has them in full. `asked`
are retries by `retryAccountingPost`, which reads the invoice before its
transaction; `listed` what a reconciler read before it acts, which stays listed
for the other reconciler when they overlap. The model starts where the document
was accepted and its first job queued. A correction chooses any reading with the
answers of the current one: how it rewrites an extraction is
`documents/src/correction.ts` and pure. One admin acts at a time on the row it
locks; concurrency is between the transactions. `MaxEvents` bounds what people
do together with the disturbances of handlers, which also bounds the revisions.

### Storage, IntakeReservation, InboundEmail, DataExport, Offboarding, Workspace

A path is written once, removals are idempotent, and a write given up at its
deadline is in `late`: it may land at any later time. `records` are the inbox
rows made for one content, one after the other; `attempts` what each uploader is
doing, a member's request or a handler of the mail job; `removals` the clean-up
or deletion of one object, cut into the removal and the write that clears its
flag, either of which may not happen. `leased` is the publication lease. It
outlasts its writer, unless the writer's process was paused: `LeaseEnds` under a
writer counts as an exit. All uploads have one, valid content, so validation and
the limit on queued documents are left out; that acceptance enqueues the
document's reading is where `InvoiceRevisions` begins. `Expire` happens thirty
days later, when uploads are through. `Settle` is an operator's word that no
write is left, and is trusted.

A mail handler's upload is an attempt of its own, which the handler waits for in
step "take". Operators reopen one message one at a time (divergence 18 says why
that matters). An export's archive has one path for all attempts of its build;
its upload has landed or not when the call ends. `sweeping` is the retention
sweep between its list, the removal and the write that follows it.

`DeleteWorkspace` removes the rows of the workspace at once, with its jobs; the
handlers and uploads that are under way go on. `QuiesceEnds` is the passing of
`quiesce_until`, ten minutes after the deletion or the last lease held at it
(`workspaceQuiesceUntil`). Nothing ties that time to those who write, so it may
pass while an upload, a build or a given-up write is still to store its object.
The history variable `unfinished` keeps the objects of which that is true, and
`OnlyUnfinishedWritesReturn` is about the others. `Purge` is `removePrefix` and
`RecordPurge` the statement after it; either may fail, and anybody may move in
between. Two more writers of the code are not in the model, the documents of
authorization sources (`authorization-sources.ts:1040`) and the logos and
avatars of the dashboard: they would be further members of `unfinished`. One
provider connection stands for the list of them. `Loads` says what goes on in an
instance.

## Runs

The instances of the queue and the deliveries have two processes, because the
queue's hazards are between a process and another one or its own past; worker
ids are random, so symmetry over them is sound, and it is used in no run that
checks liveness.

| Run | Instance | Shows |
| --- | --- | --- |
| `queue_live` | 2 jobs, 2 attempts, 2 slots, 1 exit, 1 restart | `TypeOK`, `LeaseMatchesStatus`, `OneRunPerJob`, `QueuedIsClaimable`, `LifecycleSpec`, `EveryJobSettles` |
| `delivery_live` | 1 delivery, 2 attempts, heartbeats that get through, 1 exit, 1 retry, retention, operator cancels, a job row that disappears | `DeliveryTypeOK`, `SucceededJobSettled`, `EveryDeliverySettles` |
| `delivery_wear` | 1 delivery, 2 attempts, stalling heartbeats, 1 retry, closing endpoint, deleted invoice, operator cancels | `SlotsRespected`, `FinishedStaysFinished`, `LeaseProtects`, `DeliveredMeansReceived`, `SettledIsKept`, `FailureAnnounced`, `ExplicitRetryWins`, `QueueUnderneath` |
| `posts_crash` | 2 invoices with one number, of one supplier or two, either may be refused, 2 attempts, failing statements, 1 exit, 1 retry, forgetful provider | `PostingTypeOK`, `OneBillPerInvoice`, `BillKeepsClaim` |
| `posts_overlap` | 2 invoices with one number, of two suppliers, either may be refused, handlers next to their successors, forgetful provider | `OneBillPerInvoice`, `PostedStaysPosted` |
| `posts_corrected` | 2 invoices of two suppliers, 2 numbers, 2 revisions each, 1 attempt and 1 retry, forgetful provider | `OneBillPerInvoice`, `PostedAsItself` |
| `posts_live` | 1 invoice, 2 attempts, failing statements, 1 exit, lost authorisation, deletion, switched connection | `EveryPostSettles` |
| `revisions` | 3 policies, 3 readings, 2 readings asked for, 2 attempts, 2 acts or disturbances of any kind, overlapping handlers included, one reconciler | `RevisionTypeOK`, `SentIffLetThrough`, `HeldCorrectionWaits`, `OneRevisionPerRead`, `NewestUpdateDecides`, `UpdatesAreCurrent`, `PostIsLetThrough` |
| `revisions_live` | 1 policy, 2 readings, 1 exit, 2 acts, reconcilers next to each other | `NothingInProgressForEver` |
| `workspace` | 2 records, 2 attempts, 1 exit, 1 further act, 1 resumption; mail with an upload, each alone with crashes, an upload and an export with the end of the workspace | `WorkspaceTypeOK`, `AcceptedHasObject`, `BytesAreRemembered`, `ArchiveMatchesRequest`, `ProcessedMailWasRead`, `OnlyUnfinishedWritesReturn`, `RequestsSettle` |
| `posts_second`, `held_cleared` | the smallest instance that shows it | divergences 1 and 2 below |

Bounds. One job is enough for the safety of rows, since statements never relate
two rows except through the slots. Two jobs are needed where jobs compete for
slots or one is held back by the budget. Two attempts, the first and the last,
suffice for a handler that only asks whether this is the last one. One exit is a
crash or a deploy at any step, and one restart is enough to reach a second life
of the job. `MaxExits` and `MaxRestarts` bound the guards of the actions they
name; the proofs hold for every value.

Claims relate two invoices at a time, so two are enough for them, and two
attempts give an attempt whose answer is lost and one that follows it; in
`posts_corrected` the retry is the attempt that follows. Two handlers of one job
may overlap. What can break a property is switched on run by run, and where two
of these things together break one, the divergences below say so and the passing
runs show what holds without: `posts_corrected` has neither vanishing handlers
nor failing statements, `posts_live` no retry, `posts_overlap` no copies, and
only `posts_live` loses its authorisation. The posting runs stop when all posts
are settled and the bounds are used up, hence `CHECK_DEADLOCK FALSE`. Symmetry
over suppliers and over numbers is used in the safety runs.

`revisions` has one policy that requires the answer, one that puts a condition
on it and delivers all events, and one that holds nothing; and readings in
order, without the answer, and with totals that do not add up: each decision a
policy can make about a revision occurs, and is met by another before or after.
Two events are two corrections, a correction and a release, a switched
connection and a retry, a lease that runs out and a vanished handler, and so on;
`held_cleared` needs four. Every process has a reconciler, so two may have
listed the same job: `ReconcilersOverlap` says whether they do. It is FALSE
where `NewestUpdateDecides` is checked (divergence 16); the theorems about the
other properties of that run hold either way. In `workspace` two records are a
document and the one that replaces it after a discard. Each load is what meets
in one place: the mail and a member upload the same content, an upload or an
export is under way when the workspace goes. `MaxStalls` is 0 there, and both
stalls and exits together are beyond the instance; the proofs of its invariants
hold for any number of either. The two instances stop when the bounds are used
up.

Fairness, and why the code has it. The runner polls for ever and claims as soon
as a slot frees, so a job that is claimable again and again is claimed (strong
fairness, since its slot may be taken in between; the query takes the oldest
due job first, and the excluded workflows come back when the daily budget
renews). A fiber goes on to its outcome (weak fairness). For that, what a handler
waits for must return, and the code sees to it in part: the POST of a webhook has
a deadline (`egress.ts:284`), the storage calls of intake have
(`intake.ts:176`), and so have the calls that read a document. Database
statements, calls to Nango and the accounting systems (`nango.ts:159`), and the
downloads and the upload of an export (`data-export.ts:647`, `:900`) have none:
that they return is an assumption of the liveness properties, and of no safety
property. A handler that waits for ever keeps its job running, as its heartbeat
renews the lease. An unrenewed lease expires because time passes; the
reconciler runs for ever in every process. In `AccountingPosting` a pending
job is claimed or reaped, which is what `EveryJobSettles` rests on below, and
handlers and the reconciler go on as here. In `InvoiceRevisions` and `Workspace`
each job of the team is claimed, carried on or reaped (weak fairness), and the
reconciler comes by; a mail job is carried on by its upload too, but nothing is
assumed of a member's upload, the retention sweep or the clean-up. Nothing is
assumed anywhere of crashes, operators, users or heartbeats. `MaxExits` is below
the number of processes in the liveness runs: one process stays up, as in a
rolling deploy.

`HeartbeatsMayStall` is FALSE where a property needs leases that only end with
their run. The heartbeat runs at a third of the lease on the same event loop,
so it may stall for real; `delivery_wear` has it TRUE, and divergence 3 is what
liveness loses.

## Proofs

`WorkflowQueueProofs` proves, for every number of jobs, processes, attempts and
slots: `TypeCorrect`, `LeasesMatch`, `FinishedIsFinal`, `LeasesProtect`,
`ImplementsLifecycle`, `SlotsAreRespected`; and, from the assumption that
heartbeats get through, `OneRun` and `QueuedClaimable`. `LeaseMatchesStatus` is
inductive once it is joined with the type invariant, and carries the step
properties: only a running row has a holder, so `Owns` alone protects a finished
one. `OneRun`
needs `RunsInv`: every run that is not releasing holds its row on the attempt
it was claimed with and by the latest claim, and claims only grow, so a second
run of the same job would have to hold the same row. `SlotsAreRespected` counts
the fibers of a process, all of them and those of webhook jobs: a claim adds at
most the free slots, one fiber per job, and every other step renames or drops
fibers.

`WebhookDeliveryProofs` proves `DeliveryTypeCorrect`; `ImplementsQueue` and
`DeliveryJobsProtected`, from the assumption that no job row disappears (a
deleted row is the one step the queue does not have); `SettledKept`,
`FailuresAnnounced`, `RetryWins`, `SucceededWasReceived`, `DeliverySlots`; and,
without closing endpoints, deleted invoices and retention, `SucceededIsSettled`.
With an endpoint that closes or an invoice that is deleted the last one is
false: a delivery the handler has cancelled is queued again by a retry while its
job completes (divergence 4). With retention it is only model-checked
(`delivery_live`). The invariants behind them: runs and handler steps carry the
name of the claim they belong to and a step follows its run (`RunsNamed`,
`StepsFollow`); a step exists only for a delivery that was scheduled
(`WorkIsScheduled`); a step that carries a positive answer, or a delivery that
succeeded, was received (`AnswersAreReal`); and a handler that lets its job
complete found its delivery succeeded, or made it so (`ReturnedIsDelivered`).

`AccountingPostingProofs` proves `PostingIsTyped` in general and the rest for
invoices that are not corrected (`MaxRevision` = 1), any number of them:

| Theorem | Handlers of one job in turn | Handlers that overlap |
| --- | --- | --- |
| `OneBill` | | no retries |
| `BillsKeepClaims`, `PostsNameTheirBill` | no lost access | no lost access, no copies, no retries |
| `PostedIsFinal` | | no lost access, no copies, no retries |

Each cell names what must be excluded; nothing else is: answers are lost,
handlers vanish, statements fail and keys expire everywhere. These premises are
those of `posts_crash` and `posts_overlap`, which show on instances what fails
without them (divergences 6 and 7). With corrections the same properties hold in
`posts_corrected`, which excludes failing statements and vanishing handlers too
(divergence 1); there they are only model-checked. The argument: what an invoice
is posted under, and what each handler and each bill has of it, changes by a
release alone, and only a retry releases (`Base`); so a second bill would have to
be created under the key of the first, which the provider either remembers or
finds (`CreatesOnce`); whoever posts under a number holds its claim, and gives it
up only when no bill was made under it (`ClaimsHeld`).

`DeliveryPolicyProofs` is about the decision alone, for any questions and any
policies: `UncertainIsHeld`, `LockedIsNeverReleasable`, `DeliveredIsReady`, and
`StricterHoldsMore`, that no rule silences another.

`JobHandlersProofs` has the lemmas on the shared steps: each keeps the types of
jobs and handlers, and what it does to `outcome` and `handlers`. Two modules rest
on it, for every number of attempts, stalls and exits.

`InvoiceRevisionsProofs` proves `RevisionsAreTyped`, `SentIffLetThroughHolds`,
`OneRevisionPerReadHolds`, `UpdatesAreCurrentHolds`, `PostIsLetThroughHolds`,
`HeldCorrectionWaitsHolds` and `NewestUpdateDecidesHolds`, for any policies,
readings, roles and bounds. `Base` joins the types with the order of revisions
(those up to the current one are decided, those after it are untouched), the
count of readings (the revisions made by readings are no more than the reading
jobs, less one while the document is still to be read) and the fact that a last
correction exists, which makes its CHOOSE usable. `SentIffLetThrough` follows
from `Base` and itself. For updates two more facts are needed: while the values
of the newest update are not the invoice's, it is neither queued nor can be
retried (`Carried`), because a reading supersedes it and is refused while it is
queued; and a document being read again has no update under way (`OwedReads`).
`HeldCorrectionWaits` is inductive with `Base`: a revision that is made looks at
the decision before it, and a revision that stands is no longer changed but by
an admin. For `NewestUpdateDecides` handlers are alone (`HandlersAlone`), a
listed update has a job that failed, a handler on its way to the provider or
back has the update as it is queued, and the provider carries what the newest
update it has seen asked for (`UpdatesInTurn`).

`IntakeReservationProofs` and `WorkspaceProofs` prove `WorkspaceIsTyped`,
`AcceptedHasObjectHolds`, `BytesAreRememberedHolds`, `ProcessedMailWasReadHolds`,
`OnlyUnfinishedWritesReturnHolds` and, as long as no build overlaps another,
`ArchiveMatchesRequestHolds`. The invariant of intake (`IntakeInv`) says that an
attempt knows its record; that removals are only of discarded records; that an
accepted record has its object; and that while a write to a record's path may
be under way or land late, a record that is not accepted is still a reservation
or is flagged ambiguous, and what is ambiguous stays pending and is never
cleared by the clean-up. `Ended` is what the deletion leaves: once the workspace
is gone its jobs are absent, so nobody starts to write; once the quiesce time is
over, what is still being written (`UnderWay`) is part of `unfinished`; and
between the removal and the end of the request everything stored is. The lemmas
behind it say that writes under way only dwindle after the deletion, and that
whatever is stored was under way a step before (`WritesDwindle`). `Read` follows the
mail job: a handler that is about to call the message processed has had an
answer of intake that is a document or a discarded reservation, and such a record
never turns into one that is neither.

`ArchiveMatchesRequest` follows from what the one build has on record at each
of its steps, and from the sweep being at work only for a request that is over
(`ExportInv`). With two builds it is false (divergence 21).

Every invariant and every action property that a run checks is stated by a
theorem. Only model-checked: where a theorem has a premise that a run does not
have, which are `posts_corrected` (corrections) and `delivery_live` (retention);
and the liveness properties, which TLAPS cannot handle under fairness.

## Divergences between code and documentation

The first two have a run in which TLC finds the behaviour.

1. `posts_second`: a correction is refused while an attempt may have made a
   bill, which is read off the last outcome. An attempt that validation blocks
   after one whose answer was lost hides it, and the corrected invoice becomes
   a second bill. A key that was never stored does the same: with
   `StatementsFail` or `MaxExits` above 0 the instance of `posts_corrected`
   fails too.
2. `held_cleared`: "A member's correction cannot clear a hold by itself"
   (`exceptions.ts:269`, `docs/delivery.md:351`). Whether a correction waits for
   an admin is read off the previous decision (`decisionHeld`). One that was
   made while accounting was disconnected holds nothing when webhooks deliver
   all events, so the member's next correction, after a reconnection, posts the
   bill. `HeldCorrectionWaits` is what remains true, for corrections made before a
   bill was posted: a retry that read an earlier revision can post the bill while
   a correction waits for approval, and the corrections that follow ask for none
   (`!posted &&`, `exceptions.ts:277`).

The next ones appear when a passing instance is changed as stated.

3. `queue_live` with `Jobs <- MCHookOnly`, four slots and `HeartbeatsMayStall`:
   `EveryJobSettles` fails. `locked_by` names a process and not a claim
   (`queries/workflows.ts:293`). A fiber that lost its lease to a newer claim of
   its own process can write a retry on the final attempt, and the row stays
   queued with its budget spent: nothing claims it and the reaper looks at
   running rows only. `docs/development.md:76` promises that a final expired
   lease is marked failed.
4. `delivery_live` with `Disruptions` = {"close"}: `EveryDeliverySettles`
   fails. A retry that lands after the handler cancelled the delivery and before
   the runner completed the job finds the job running and leaves it alone
   (`delivery.ts:588`). The job succeeds, the delivery stays queued.
5. `posts_live` with `MaxRetries` = 1: `EveryPostSettles` fails, by the same race
   for posts (`delivery.ts:916`). A queued post also refuses corrections and
   retries.
6. Two invoices of two suppliers with `MayLoseAccess`: `PostedAsItself` fails.
   Any error that is not retryable releases the claim (`accounting.ts:820`), also
   when an earlier attempt may have made the bill. Another supplier's document
   then takes the number and the key, and is recorded with the first one's bill.
7. `posts_overlap` with `CopiesArrive`: `PostedAsItself` fails, when one of two
   overlapping handlers of a document gives up the claim that the other one goes
   on posting under, and a copy posts in between.

The rest was met while modelling, and the models have it; the properties are
stated so that they hold next to it.

Deliveries and posts:

8. A late attempt that is not the last turns a failed delivery into `delivering`
   (`recordWebhookAttempt` protects succeeded and cancelled ones), and the
   reconciler fails and announces it again (`webhooks.ts:442`).
9. A redelivery that fails before an attempt is recorded reuses the event id of
   the first failure (`webhooks.ts:423`), so it is not announced.
10. A retry restarts a job whose payload retention has emptied; the job then
    fails to decode (`delivery.ts:588`). Cancelled deliveries are the ones
    retention never empties, so they stay retryable for ever.
11. Copies processed out of order can block each other. The later copy holds the
    claim, the earlier one loses it and is marked its duplicate
    (`accounting.ts:890`), and the later one's next attempt is blocked as a
    duplicate of the earlier. Neither is sent and no retry helps.
12. `retryAccountingPost` reads the invoice's revision before its transaction, so
    a hold that arrives in between does not stop it; `docs/delivery.md:359` says a
    retry never bypasses one. `PostIsLetThrough` excepts these retries, and only
    these.

Revisions:

13. The post handler does not look at the decision again: a revision that is held
    while the post of the previous one is on its way is sent, with its own
    values. Re-extraction is not refused while a post may exist, as a correction
    is.
14. A bill update that the reconciler has listed is failed without looking at its
    job again (`delivery.ts:386`), although the comment above says that a restart
    in between wins. The list of reruns is treated the same way, and so is a
    message that an operator has reopened meanwhile.
15. `clearJudgmentsRerun` by a handler that found nothing to do drops a rerun that
    was asked for again after it looked.
16. An older bill update may reach the provider after a newer one: the key tells
    the attempts of one update apart, not their order. It happens under handlers
    that overlap, and without them when an update is failed under its handler
    (divergence 14): two reconcilers have listed it, the first fails it, it is
    retried, and the second fails it again while the handler sends it, so that a
    new correction is let through in between.

Mail and intake:

17. A message fails when its document could not be stored, and its job then
    succeeds. The operator's retry refuses a job that has not failed
    (`operator-recovery.ts:310`), so such a message cannot be re-driven, as
    `docs/inbound-email.md:179` says it can.
18. Two operators retry a failed message. The second one may find it failed
    again by the job that the first one restarted and that has not been completed
    yet: it is reopened, and the refusal that follows (`operator-recovery.ts:266`)
    is returned rather than thrown, so the reopening commits. The job then
    succeeds, the message stays received, and no reconciler lists it, against the
    comment at `inbound-email.ts:596`.
19. An answer `superseded` is final for a message: one whose reservation was
    discarded while its bytes were being stored is settled as processed and its
    source dropped. `ProcessedMailWasRead` allows it.
20. A mailed document that was deleted is refused as a `reference_conflict` when
    the same message is processed again, where `docs/document-intake.md:69` has
    re-uploading create a new document. A write given up by another uploader may
    land after an accepted document was deleted and its removal cleared, since the
    deletion of an accepted document is not ambiguous; `BytesAreRemembered` is
    therefore about documents that never were accepted.

Exports and deletion:

21. A build that outlived its lease removes the archive its successor published,
    since both use one path (`data-export.ts:927`): the request reads ready
    without an archive. An upload that lands after the request failed and
    was cleaned up leaves an archive nobody lists.
22. `docs/offboarding.md:96` has the request marked failed when the job gives up.
    The reaper gives up jobs too and marks nothing: the request then stays
    pending until an operator resumes it. So it does when the job that was to wait
    for the quiesce time could not be queued.
23. `docs/offboarding.md:78` has the purge wait "so an in-flight writer cannot
    leave an object behind the purge". The wait is a fixed time
    (`queries/deletion-requests.ts:90`, `deletion.ts:156`) and a build has no
    deadline: it goes on when its job row is gone, and one that outlasts the wait
    stores its archive after the purge. It then removes it, but a removal that
    fails is only swallowed (`data-export.ts:927`). A write that intake gave up and
    that lands late does the same. `workspace` with `request.purged => objects = {}`
    instead of `OnlyUnfinishedWritesReturn` fails, in the loads of an upload and
    of an export.

Source matching (read in the source, not modelled):

24. `source-matching.ts:386` drops a match that was judged while the invoice got
    another revision, since that revision's "own match job decides". A reading
    and a correction queue that job (`process-document.ts:208`,
    `exceptions.ts:415`); `rerunInvoiceJudgments` (`exceptions.ts:527`) makes a
    revision and queues none, so the invoice then stays without a match
    decision. So does one whose match job runs while it is read again
    (`source-matching.ts:328`) when that reading fails.

A redelivery that races the runner's own fail of the same job also gets no new
attempts: the job is still running when it is asked for again. It ends in a
visible failure, so no property here covers it.

## Plan

Done: the queue, webhook deliveries, posting, decisions and revisions, intake,
mail, exports, deletion, with the theorems above. Left, in this order:

1. `AccountingPosting`: its theorems for invoices that are corrected, with the
   premises of `posts_corrected`; an abstract ledger of one bill per invoice that
   it implements; attachments.
2. Source matching: the match job of each revision against the state it judges
   outside its transaction (divergence 24), concurrent links against a remaining
   amount in the transactions that lock the source; totals validation as a pure algorithm.
3. Question reruns: a run over many invoices with its checkpoints, on
   `JobHandlers`.
4. Suppliers: merges and splits against the links that refer to them.
5. Rotation of a signing secret with its overlap, as the consumer sees it.

## Not modelled

Source matching, question reruns and suppliers, as planned above. Not planned:
user interface, mail templates, authentication, provider formats, document
extraction, temporary export files, progress counters, and the address
classification of the egress guard, which is pure and covered by its unit tests.
