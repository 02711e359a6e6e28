--------------------------- MODULE WebhookDelivery ---------------------------
(***************************************************************************)
(* Webhook deliveries (packages/jobs/src/webhooks.ts, delivery.ts and      *)
(* packages/db/src/queries/webhooks.ts) on top of the workflow queue: each *)
(* job of the queue carries out the delivery of one event to one endpoint, *)
(* and job and delivery are written by different transactions.             *)
(*                                                                         *)
(* A handler reads the delivery, posts it and records the attempt, each    *)
(* behind an await.  An interrupted handler stops there, but a write that  *)
(* is already on its way to the database may still commit.                 *)
(***************************************************************************)
EXTENDS WorkflowQueue

\* What else happens: endpoints are disabled and registered again, invoices are
\* deleted, retention empties old rows, operators cancel jobs, and job rows
\* disappear (no code of the program deletes one; the reconciler copes).
CONSTANT Disruptions

ASSUME DisruptionsAssumption ==
  /\ Disruptions \subseteq {"close", "delete", "retention", "cancel", "lose"}
  /\ WebhookJobs = Jobs
  /\ BudgetedJobs = {}

VARIABLES
  deliveries,   \* webhook_deliveries: status and attempts, one row per job
  steps,        \* what each handler does next, and writes under way
  payloads,     \* payloads[d]: does the job row still hold its payload?
  contents,     \* contents[d]: does the delivery row still hold its event?
  endpoints,    \* endpoints[d]: is the delivery's endpoint active?
  invoices,     \* invoices[d]: "kept" or "deleted", the invoice it describes
  stalled,      \* what a reconciler run has listed: deliveries and job states
  received,     \* received[d]: did the consumer get the event?
  notices       \* notices[d]: attempt counts of the delivery.failed events

ledgerVars == <<payloads, contents, endpoints, invoices>>

vars == <<queueVars, deliveries, steps, ledgerVars, stalled, received, notices>>

Pending == {"queued", "delivering"}

Delivery == [status   : {"absent", "queued", "delivering", "succeeded",
                         "failed", "cancelled"},
             attempts : Nat]

\* A handler that is starting, posting, or waiting for a write.
Writes == {"cancel", "record"}

Step == [job       : Jobs,
         claim     : Nat,
         worker    : Workers,
         attempt   : Nat,
         at        : {"start", "post"} \cup Writes,
         payload   : BOOLEAN,   \* the claimed row held a payload
         succeeded : BOOLEAN,   \* the endpoint answered 2xx
         final     : BOOLEAN]   \* no attempt follows this failure

DeliveryTypeOK ==
  /\ TypeOK
  /\ deliveries \in [Jobs -> Delivery]
  /\ steps \in SUBSET Step
  /\ payloads \in [Jobs -> BOOLEAN]
  /\ contents \in [Jobs -> BOOLEAN]
  /\ endpoints \in [Jobs -> BOOLEAN]
  /\ invoices \in [Jobs -> {"kept", "deleted"}]
  /\ stalled \in SUBSET [job : Jobs, status : {"absent", "failed"}]
  /\ received \in [Jobs -> BOOLEAN]
  /\ notices \in [Jobs -> SUBSET Nat]

Init ==
  /\ QueueInit
  /\ deliveries = [d \in Jobs |-> [status |-> "absent", attempts |-> 0]]
  /\ steps = {}
  /\ payloads = [d \in Jobs |-> TRUE]
  /\ contents = [d \in Jobs |-> TRUE]
  /\ endpoints = [d \in Jobs |-> TRUE]
  /\ invoices = [d \in Jobs |-> "kept"]
  /\ stalled = {}
  /\ received = [d \in Jobs |-> FALSE]
  /\ notices = [d \in Jobs |-> {}]

-----------------------------------------------------------------------------
(* Scheduling. *)

\* The delivery and its job commit together, for an endpoint that is active.
Schedule(d) ==
  /\ deliveries[d].status = "absent"
  /\ endpoints[d]
  /\ deliveries' = [deliveries EXCEPT ![d].status = "queued"]
  /\ jobs' = EnqueuedRows({d})
  /\ UNCHANGED <<runs, claims, process, exits, restarts>>
  /\ UNCHANGED <<steps, ledgerVars, stalled, received, notices>>

-----------------------------------------------------------------------------
(* The handler, deliverWebhook. *)

StartStep(d, w) ==
  [job |-> d, claim |-> claims[d] + 1, worker |-> w,
   attempt |-> jobs[d].attempts + 1, at |-> "start", payload |-> payloads[d],
   succeeded |-> FALSE, final |-> FALSE]

\* A claim starts a handler on the row it returned.
ClaimDeliveries(w) ==
  \E S \in SUBSET Jobs :
    /\ Claim(w, S)
    /\ steps' = steps \cup {StartStep(d, w) : d \in S}
    /\ UNCHANGED <<deliveries, ledgerVars, stalled, received, notices>>

\* The run a step belongs to, while its fiber is not interrupted.
Handling(s) == {r \in runs : r.job = s.job /\ r.claim = s.claim /\ r.phase = "handling"}

\* The handler of s ends: its run goes on to write the outcome on the job.
Returns(s, phase) ==
  /\ runs' = (runs \ Handling(s)) \cup {[r EXCEPT !.phase = phase] : r \in Handling(s)}
  /\ steps' = steps \ {s}
  /\ UNCHANGED <<jobs, claims, process, exits, restarts>>

Advances(s, t) ==
  /\ steps' = (steps \ {s}) \cup {t}
  /\ UNCHANGED queueVars

CannotSend(d) == ~endpoints[d] \/ invoices[d] = "deleted" \/ ~contents[d]

\* Decodes the job's payload and reads the delivery.
Load(s) ==
  /\ s.at = "start" /\ Handling(s) # {}
  /\ LET d == s.job
         status == deliveries[d].status
     IN \/ Returns(s, AfterFailure(s, TRUE))       \* the read fails
        \/ /\ ~s.payload \/ status = "failed"
           /\ Returns(s, AfterFailure(s, FALSE))
        \/ /\ s.payload /\ status \in {"succeeded", "cancelled"}
           /\ Returns(s, "completing")
        \/ /\ s.payload /\ status \in Pending
           /\ Advances(s, [s EXCEPT !.at = IF CannotSend(d) THEN "cancel" ELSE "post"])
  /\ UNCHANGED <<deliveries, ledgerVars, stalled, received, notices>>

\* The POST, under one deadline: answered with 2xx; failed in a way that may
\* pass, possibly after the consumer took the event; or refused for good by
\* the egress policy.
Post(s) ==
  /\ s.at = "post" /\ Handling(s) # {}
  /\ \E outcome \in {"ok", "lost", "unreachable", "refused"} :
       /\ received' = [received EXCEPT ![s.job] = @ \/ outcome \in {"ok", "lost"}]
       /\ Advances(s, [s EXCEPT !.at = "record",
                                !.succeeded = outcome = "ok",
                                !.final = \/ outcome = "refused"
                                          \/ outcome # "ok" /\ s.attempt >= MaxAttempts])
  /\ UNCHANGED <<deliveries, ledgerVars, stalled, notices>>

\* Mutant of Recorded: a late attempt overwrites a settled delivery.
RecordedAlways(row, s) ==
  [attempts |-> row.attempts + 1,
   status |-> IF s.succeeded THEN "succeeded"
              ELSE IF s.final THEN "failed" ELSE "delivering"]

\* Mutant of Recorded: whatever does not fail for good counts as delivered.
RecordedOptimistic(row, s) ==
  [attempts |-> row.attempts + 1,
   status |-> IF row.status \in {"succeeded", "cancelled"} THEN row.status
              ELSE IF s.final THEN "failed" ELSE "succeeded"]

\* Mutant of Recorded: the job's word for an unsettled attempt.
RecordedRunning(row, s) ==
  [attempts |-> row.attempts + 1,
   status |-> IF row.status \in {"succeeded", "cancelled"} THEN row.status
              ELSE IF s.succeeded THEN "succeeded"
              ELSE IF s.final THEN "failed" ELSE "running"]

\* recordWebhookAttempt: every attempt is counted, a delivery that succeeded or
\* was cancelled keeps its status.
Recorded(row, s) ==
  [attempts |-> row.attempts + 1,
   status |-> IF row.status \in {"succeeded", "cancelled"} THEN row.status
              ELSE IF s.succeeded THEN "succeeded"
              ELSE IF s.final THEN "failed" ELSE "delivering"]

\* publishDeliveryFailure: the event id is made of the delivery and its attempt
\* count, and a second event with the same id is a no-op.
Announced(d, count) == [notices EXCEPT ![d] = @ \cup {count}]

\* The attempt that makes the delivery a terminal failure announces it.
MakesFailure(row, s) == row.status \in Pending /\ s.final

\* Mutant of AfterAttempt: a failure that may pass is not handed to the runner.
AfterAttemptSwallowed(s) ==
  IF s.final THEN AfterFailure(s, FALSE) ELSE "completing"

\* What the handler returns once the attempt is recorded.
AfterAttempt(s) ==
  IF s.succeeded THEN "completing" ELSE AfterFailure(s, ~s.final)

RecordAttempt(s) ==
  LET d == s.job
      row == deliveries[d]
  IN /\ s.at = "record"
     /\ deliveries' = [deliveries EXCEPT ![d] = Recorded(row, s)]
     /\ notices' = IF MakesFailure(row, s) THEN Announced(d, row.attempts + 1)
                   ELSE notices
     /\ Returns(s, AfterAttempt(s))
     /\ UNCHANGED <<ledgerVars, stalled, received>>

\* cancelWebhookDelivery: only an unsettled delivery is cancelled.
CancelDelivery(s) ==
  LET d == s.job
  IN /\ s.at = "cancel"
     /\ deliveries' = IF deliveries[d].status \in Pending
                      THEN [deliveries EXCEPT ![d].status = "cancelled"]
                      ELSE deliveries
     /\ Returns(s, "completing")
     /\ UNCHANGED <<ledgerVars, stalled, received, notices>>

\* A write that fails leaves the delivery as it is; the handler fails retryably.
WriteFails(s) ==
  /\ s.at \in Writes
  /\ Returns(s, AfterFailure(s, TRUE))
  /\ UNCHANGED <<deliveries, ledgerVars, stalled, received, notices>>

-----------------------------------------------------------------------------
(* The queue underneath. *)

\* Interrupted handlers stop, unless a write is already under way.
Interrupt(S) == steps' = {s \in steps : s \in S => s.at \in Writes}

StepsOf(r) == {s \in steps : s.job = r.job /\ s.claim = r.claim}

\* A handler may die of a defect, but not while it waits for a write.
RunEnds(r) ==
  /\ \/ Settle(r) \/ Release(r)
     \/ Abandon(r) /\ \A s \in StepsOf(r) : s.at \notin Writes
  /\ Interrupt(StepsOf(r))
  /\ UNCHANGED <<deliveries, ledgerVars, stalled, received, notices>>

LeaseEnds(d) ==
  /\ LeaseExpires(d)
  /\ UNCHANGED <<deliveries, steps, ledgerVars, stalled, received, notices>>

LeaseRenewed(r) ==
  /\ Heartbeat(r)
  /\ UNCHANGED <<deliveries, steps, ledgerVars, stalled, received, notices>>

CancelJob(d) ==
  /\ "cancel" \in Disruptions
  /\ OperatorCancel(d)
  /\ UNCHANGED <<deliveries, steps, ledgerVars, stalled, received, notices>>

ProcessCrash(w) ==
  /\ Crash(w)
  /\ steps' = {s \in steps : s.worker # w}
  /\ UNCHANGED <<deliveries, ledgerVars, stalled, received, notices>>

ProcessShutdown(w) ==
  /\ Shutdown(w)
  /\ Interrupt({s \in steps : s.worker = w})
  /\ UNCHANGED <<deliveries, ledgerVars, stalled, received, notices>>

\* A finished or waiting job row disappears (bounded by MaxExits).
LoseJob(d) ==
  /\ "lose" \in Disruptions
  /\ jobs[d].status \in {"queued", "succeeded", "failed"}
  /\ exits < MaxExits
  /\ jobs' = [jobs EXCEPT ![d] = [Unlocked(@, "absent") EXCEPT !.attempts = 0]]
  /\ exits' = exits + 1
  /\ UNCHANGED <<runs, claims, process, restarts>>
  /\ UNCHANGED <<deliveries, steps, ledgerVars, stalled, received, notices>>

-----------------------------------------------------------------------------
(* Reconciliation, in any live process.  One list at a time: every entry is   *)
(* checked again when it is settled, so a second list adds nothing.           *)

\* Mutant of Stalled: an inner join, which drops the missing jobs.
StalledInnerJoin == {d \in Jobs : /\ deliveries[d].status \in Pending
                                  /\ jobs[d].status = "failed"}

\* Unsettled deliveries whose job is missing or has failed, as a query saw them.
Stalled == {d \in Jobs : /\ deliveries[d].status \in Pending
                         /\ jobs[d].status \in {"absent", "failed"}}

ListStalled ==
  /\ stalled = {} /\ Stalled # {}
  /\ stalled' = {[job |-> d, status |-> jobs[d].status] : d \in Stalled}
  /\ UNCHANGED <<queueVars, deliveries, steps, ledgerVars, received, notices>>

\* Mutant of StillFailed: the job is not looked at again.
StillPending(d) == deliveries[d].status \in Pending

\* failWebhookDelivery locks the delivery row and looks at the job again, and
\* the failure and its announcement commit together.
StillFailed(d) == deliveries[d].status \in Pending /\ jobs[d].status = "failed"

\* Mutant of FailStalled: only the handler announces failures.
FailStalledQuietly(d) ==
  /\ deliveries' = IF StillFailed(d)
                   THEN [deliveries EXCEPT ![d].status = "failed"]
                   ELSE deliveries
  /\ UNCHANGED <<queueVars, payloads, notices>>

FailStalled(d) ==
  /\ IF StillFailed(d)
     THEN /\ deliveries' = [deliveries EXCEPT ![d].status = "failed"]
          /\ notices' = Announced(d, deliveries[d].attempts)
     ELSE UNCHANGED <<deliveries, notices>>
  /\ UNCHANGED <<queueVars, payloads>>

\* Mutant of EnqueueJob: the conflict clause resets the existing row.
EnqueueJobUpserts(d) ==
  /\ jobs' = [jobs EXCEPT ![d] = Fresh(@)]
  /\ payloads' = [payloads EXCEPT ![d] = TRUE]
  /\ UNCHANGED <<runs, claims, process, exits>>

\* A job that is enqueued gets the payload its caller names, an existing one
\* keeps its own.
EnqueueJob(d) ==
  /\ jobs' = EnqueuedRows({d})
  /\ payloads' = [payloads EXCEPT ![d] = @ \/ jobs[d].status = "absent"]
  /\ UNCHANGED <<runs, claims, process, exits>>

SettleStalled(x) ==
  /\ stalled' = stalled \ {x}
  /\ \/ x.status = "failed" /\ FailStalled(x.job)
     \/ /\ x.status = "absent"
        /\ EnqueueJob(x.job)
        /\ UNCHANGED <<restarts, deliveries, notices>>
  /\ UNCHANGED <<steps, contents, endpoints, invoices, received>>

-----------------------------------------------------------------------------
(* Users and retention. *)

\* The delivery is queued again and its job restarted, with the payload it has;
\* a job that is queued or running is left alone.
Redrive(d) ==
  /\ restarts < MaxRestarts
  /\ endpoints[d] /\ contents[d]
  /\ deliveries' = [deliveries EXCEPT ![d].status = "queued"]
  /\ \/ Restart(d) /\ UNCHANGED payloads
     \/ /\ jobs[d].status \notin {"succeeded", "failed"}
        /\ EnqueueJob(d)
        /\ UNCHANGED restarts
  /\ UNCHANGED <<steps, contents, endpoints, invoices, stalled, received, notices>>

\* redeliverWebhook, for one failed delivery.
Redeliver(d) == deliveries[d].status = "failed" /\ Redrive(d)

\* retryInvoiceDelivery, for the failed and cancelled ones of an invoice.
RetryDelivery(d) ==
  /\ deliveries[d].status \in {"failed", "cancelled"}
  /\ invoices[d] = "kept"
  /\ Redrive(d)

\* Disabling an endpoint, and registering its URL again.
SwitchEndpoint(d) ==
  /\ "close" \in Disruptions
  /\ endpoints' = [endpoints EXCEPT ![d] = ~@]
  /\ UNCHANGED <<queueVars, deliveries, steps, payloads, contents, invoices,
                 stalled, received, notices>>

DeleteInvoice(d) ==
  /\ "delete" \in Disruptions
  /\ invoices[d] = "kept"
  /\ invoices' = [invoices EXCEPT ![d] = "deleted"]
  /\ UNCHANGED <<queueVars, deliveries, steps, payloads, contents, endpoints,
                 stalled, received, notices>>

\* Retention empties finished jobs, and deliveries that succeeded or failed.
EmptyJob(d) ==
  /\ "retention" \in Disruptions
  /\ jobs[d].status \in {"succeeded", "failed"}
  /\ payloads[d]
  /\ payloads' = [payloads EXCEPT ![d] = FALSE]
  /\ UNCHANGED <<queueVars, deliveries, steps, contents, endpoints, invoices,
                 stalled, received, notices>>

EmptyDelivery(d) ==
  /\ "retention" \in Disruptions
  /\ deliveries[d].status \in {"succeeded", "failed"}
  /\ contents[d]
  /\ contents' = [contents EXCEPT ![d] = FALSE]
  /\ UNCHANGED <<queueVars, deliveries, steps, payloads, endpoints, invoices,
                 stalled, received, notices>>

-----------------------------------------------------------------------------

HandlerStep(s) ==
  Load(s) \/ Post(s) \/ RecordAttempt(s) \/ CancelDelivery(s) \/ WriteFails(s)

Next ==
  \/ \E d \in Jobs : \/ Schedule(d) \/ Redeliver(d) \/ RetryDelivery(d)
                     \/ LeaseEnds(d) \/ CancelJob(d) \/ LoseJob(d)
                     \/ SwitchEndpoint(d) \/ DeleteInvoice(d)
                     \/ EmptyJob(d) \/ EmptyDelivery(d)
  \/ \E w \in Workers : ClaimDeliveries(w) \/ ProcessCrash(w) \/ ProcessShutdown(w)
  \/ \E s \in steps : HandlerStep(s)
  \/ \E r \in runs : RunEnds(r) \/ LeaseRenewed(r)
  \/ ListStalled
  \/ \E x \in stalled : SettleStalled(x)

Spec == Init /\ [][Next]_vars

(***************************************************************************)
(* Fairness: the queue's (QueueFairness), with a handler that takes each   *)
(* of its steps, because the POST has a deadline and its statements        *)
(* return (assumed), and a reconciler that runs for ever in every process. *)
(***************************************************************************)
ClaimFairly(d) ==
  \E w \in Workers : ClaimDeliveries(w) /\ (claims'[d] > claims[d] \/ d \in Reaped)

HandlerFairly(d, w) ==
  \/ \E s \in steps : s.job = d /\ s.worker = w /\ HandlerStep(s)
  \/ \E r \in runs : r.job = d /\ r.worker = w /\ r.phase # "handling" /\ RunEnds(r)

Reconcile == ListStalled \/ \E x \in stalled : SettleStalled(x)

Fairness ==
  /\ \A d \in Jobs : SF_vars(ClaimFairly(d)) /\ WF_vars(LeaseEnds(d))
  /\ \A d \in Jobs, w \in Workers : WF_vars(HandlerFairly(d, w))
  /\ WF_vars(Reconcile)

FairSpec == Spec /\ Fairness

-----------------------------------------------------------------------------
(* Properties. *)

Settled == {"succeeded", "failed", "cancelled"}

\* A delivery that is recorded as succeeded was taken by its consumer, whatever
\* stale handlers recorded and whoever cancelled or failed it in between.
DeliveredMeansReceived ==
  \A d \in Jobs : deliveries[d].status = "succeeded" => received[d]

\* A delivery that succeeded stays succeeded, and one that was cancelled stays
\* cancelled until an explicit retry queues it again: the late writes of handlers
\* that lost their lease or were interrupted never downgrade it.
NeverDowngraded ==
  \A d \in Jobs :
    /\ deliveries[d].status = "succeeded" => deliveries'[d].status = "succeeded"
    /\ deliveries[d].status = "cancelled" =>
         \/ deliveries'[d].status = "cancelled"
         \/ deliveries'[d].status = "queued" /\ endpoints[d] /\ contents[d]

SettledIsKept == [][NeverDowngraded]_vars

\* The step makes the delivery a terminal failure.
Fails(d) == deliveries[d].status # "failed" /\ deliveries'[d].status = "failed"

\* A delivery becomes failed in the same step in which the delivery.failed event
\* for its attempt count exists, whether its own handler or the reconciler
\* records the failure.
AnnouncedAsItFails ==
  \A d \in Jobs : Fails(d) => deliveries'[d].attempts \in notices'[d]

FailureAnnounced == [][AnnouncedAsItFails]_vars

\* An explicit retry wins over a reconciler that listed the delivery before it:
\* a delivery fails by an attempt that was made, or while its job is failed.
FailsForCause ==
  \A d \in Jobs : Fails(d) => \/ deliveries'[d].attempts > deliveries[d].attempts
                             \/ jobs[d].status = "failed"

ExplicitRetryWins == [][FailsForCause]_vars

\* A job that succeeded leaves no unsettled delivery behind: nobody would ever
\* look at the delivery again, since the reconciler only sees failed and missing
\* jobs.
SucceededJobSettled ==
  \A d \in Jobs :
    jobs[d].status = "succeeded" => deliveries[d].status \in Settled

\* Every delivery that is scheduled or queued again ends in a visible state:
\* delivered, failed or cancelled.
EveryDeliverySettles ==
  \A d \in Jobs : deliveries[d].status = "queued" ~> deliveries[d].status \in Settled

\* What happens to the jobs of deliveries is what the queue allows.
QueueUnderneath == QueueSpec
=============================================================================
