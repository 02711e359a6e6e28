---------------------------- MODULE WorkflowQueue ----------------------------
(***************************************************************************)
(* The Postgres workflow queue (packages/db/src/queries/workflows.ts) and  *)
(* the runner that drains it (packages/jobs/src/runner.ts).                *)
(*                                                                         *)
(* Each action is one statement or transaction of the queue, or one step   *)
(* of a runner process between two awaits.  Time is abstracted: a lease is *)
(* live or expired, and a due time in the future is a claim not made yet.  *)
(* Payloads, results and error texts are left out.                         *)
(***************************************************************************)
EXTENDS Naturals, FiniteSets

CONSTANTS
  Jobs,               \* job rows, named by (name, idempotency_key)
  WebhookJobs,        \* the deliver-webhook jobs, capped per runner
  BudgetedJobs,       \* the jobs held back while the TypeSafe budget is spent
  Workers,            \* runner processes; each process has a fresh worker id
  NoWorker,           \* locked_by is null
  MaxAttempts,        \* max_attempts
  Concurrency,        \* WORKFLOW_CONCURRENCY
  HeartbeatsMayStall, \* may the lease of a run whose process lives expire?
  MaxExits,           \* bound: processes that crash or are shut down
  MaxRestarts         \* bound: explicit restarts of finished jobs

ASSUME QueueAssumption ==
  /\ WebhookJobs \subseteq Jobs
  /\ BudgetedJobs \subseteq Jobs
  /\ NoWorker \notin Workers
  /\ MaxAttempts \in Nat \ {0}
  /\ Concurrency \in Nat \ {0}
  /\ HeartbeatsMayStall \in BOOLEAN
  /\ MaxExits \in Nat
  /\ MaxRestarts \in Nat

VARIABLES
  jobs,      \* workflow_jobs: one row per job
  runs,      \* the handler fibers of all processes
  claims,    \* claims[j]: how often j was claimed; names each claim
  process,   \* process[w]: "up", "stopping" or "gone"
  exits,     \* how many processes left (bounded by MaxExits)
  restarts   \* how many explicit restarts happened (bounded by MaxRestarts)

queueVars == <<jobs, runs, claims, process, exits, restarts>>

Status == {"absent", "queued", "running", "succeeded", "failed"}

JobRow == [status   : Status,
           attempts : Nat,
           lockedBy : Workers \cup {NoWorker},
           lease    : {"none", "live", "expired"}]

\* What a fiber is about to do: run its handler, write the outcome, or, once
\* interrupted, hand the job back.
Phase == {"handling", "completing", "retrying", "failing", "releasing"}

Run == [job     : Jobs,
        claim   : Nat,       \* which claim of the job this run carries out
        worker  : Workers,
        attempt : Nat,       \* job.attempts as the claim returned it
        phase   : Phase]

TypeOK ==
  /\ jobs \in [Jobs -> JobRow]
  /\ runs \in SUBSET Run
  /\ claims \in [Jobs -> Nat]
  /\ process \in [Workers -> {"up", "stopping", "gone"}]
  /\ exits \in Nat
  /\ restarts \in Nat

QueueInit ==
  /\ jobs = [j \in Jobs |-> [status |-> "absent", attempts |-> 0,
                             lockedBy |-> NoWorker, lease |-> "none"]]
  /\ runs = {}
  /\ claims = [j \in Jobs |-> 0]
  /\ process = [w \in Workers |-> "up"]
  /\ exits = 0
  /\ restarts = 0

-----------------------------------------------------------------------------
(* Rows. *)

\* Mutant of Unlocked: locked_by is left on the row.
UnlockedKeepsHolder(row, status) ==
  [row EXCEPT !.status = status, !.lease = "none"]

\* The row with a new status, held by nobody.
Unlocked(row, status) ==
  [row EXCEPT !.status = status, !.lockedBy = NoWorker, !.lease = "none"]

\* Mutant of Fresh: a restarted job keeps its spent attempts.
FreshKeepsAttempts(row) == Unlocked(row, "queued")

\* The row of a job that starts over: queued with a full budget.
Fresh(row) == [Unlocked(row, "queued") EXCEPT !.attempts = 0]

Expired(j) == jobs[j].status = "running" /\ jobs[j].lease = "expired"

\* Mutant of Owns: the WHERE clause only names the job.
OwnsAnyRow(r) == r.job \in Jobs

\* The WHERE clause of complete, retry and fail: locked_by, not the status.
Owns(r) == jobs[r.job].lockedBy = r.worker

\* The WHERE clause of heartbeat and release.
Holds(r) == Owns(r) /\ jobs[r.job].status = "running"

-----------------------------------------------------------------------------
(* Enqueueing and explicit restarts, called by the rest of the system. *)

\* A second enqueue of the same key returns the existing row.
EnqueuedRows(S) ==
  [j \in Jobs |-> IF j \in S /\ jobs[j].status = "absent"
                  THEN Fresh(jobs[j]) ELSE jobs[j]]

Enqueue(j) ==
  /\ jobs[j].status = "absent"
  /\ jobs' = EnqueuedRows({j})
  /\ UNCHANGED <<runs, claims, process, exits, restarts>>

\* restartFailedWorkflowJob takes a failed job, requeueFinishedWorkflowJob a
\* failed or succeeded one; a queued or running job is left alone.
Restart(j) ==
  /\ jobs[j].status \in {"failed", "succeeded"}
  /\ restarts < MaxRestarts
  /\ jobs' = [jobs EXCEPT ![j] = Fresh(@)]
  /\ restarts' = restarts + 1
  /\ UNCHANGED <<runs, claims, process, exits>>

\* An operator stops a job that no live worker holds.
OperatorCancel(j) ==
  /\ jobs[j].status = "queued" \/ Expired(j)
  /\ jobs' = [jobs EXCEPT ![j] = Unlocked(@, "failed")]
  /\ UNCHANGED <<runs, claims, process, exits, restarts>>

-----------------------------------------------------------------------------
(* Claiming. *)

WebhookSlots == IF Concurrency \div 2 > 1 THEN Concurrency \div 2 ELSE 1

RunsOf(w) == {r \in runs : r.worker = w}

Free(w) == Concurrency - Cardinality(RunsOf(w))

WebhooksBusy(w) == Cardinality({r \in RunsOf(w) : r.job \in WebhookJobs})

\* Mutant of Reaped: one attempt too late.
ReapedLate == {j \in Jobs : Expired(j) /\ jobs[j].attempts > MaxAttempts}

\* Running on a final attempt whose lease expired: failed by any claim.
Reaped == {j \in Jobs : Expired(j) /\ jobs[j].attempts >= MaxAttempts}

\* Mutant of Claimable: running jobs are claimed whatever their lease.
ClaimableLive == {j \in Jobs : /\ jobs[j].attempts < MaxAttempts
                               /\ jobs[j].status \in {"queued", "running"}}

Claimable == {j \in Jobs : /\ jobs[j].attempts < MaxAttempts
                           /\ jobs[j].status = "queued" \/ Expired(j)}

ClaimedRow(row, w) ==
  [row EXCEPT !.status = "running", !.attempts = @ + 1,
              !.lockedBy = w, !.lease = "live"]

NewRun(j, w) == [job |-> j, claim |-> claims[j] + 1, worker |-> w,
                 attempt |-> jobs[j].attempts + 1, phase |-> "handling"]

\* Mutant of Fits: deliveries still running in this process are not counted.
FitsThisRound(w, S) ==
  /\ S \subseteq Claimable
  /\ Cardinality(S) <= Free(w)
  /\ Cardinality(S \cap WebhookJobs) <= WebhookSlots

\* Any claimable jobs that fit: rows locked by a concurrent transaction are
\* skipped, so the queue order decides nothing that is modelled here.
Fits(w, S) ==
  /\ S \subseteq Claimable
  /\ Cardinality(S) <= Free(w)
  /\ Cardinality(S \cap WebhookJobs) + WebhooksBusy(w) <= WebhookSlots

\* One claim transaction: fail the exhausted leases, then lease the jobs S.
Claim(w, S) ==
  /\ process[w] = "up"
  /\ Free(w) > 0
  /\ Fits(w, S)
  /\ jobs' = [j \in Jobs |->
                IF j \in Reaped THEN Unlocked(jobs[j], "failed")
                ELSE IF j \in S THEN ClaimedRow(jobs[j], w)
                ELSE jobs[j]]
  /\ claims' = [j \in Jobs |-> IF j \in S THEN claims[j] + 1 ELSE claims[j]]
  /\ runs' = runs \cup {NewRun(j, w) : j \in S}
  /\ UNCHANGED <<process, exits, restarts>>

\* The round leaves the budgeted workflows queued, or not.
Poll(w) ==
  \E excluded \in {{}, BudgetedJobs} : \E S \in SUBSET (Jobs \ excluded) :
    Claim(w, S)

-----------------------------------------------------------------------------
(* A run. *)

InPhase(r, phase) == (runs \ {r}) \cup {[r EXCEPT !.phase = phase]}

\* Mutant of AfterFailure: one retry too many.
AfterFailureOneMore(r, retryable) ==
  IF retryable /\ r.attempt <= MaxAttempts THEN "retrying" ELSE "failing"

\* What the runner writes when a handler failed: a retry while the attempt it
\* was claimed with leaves budget, else a terminal failure.
AfterFailure(r, retryable) ==
  IF retryable /\ r.attempt < MaxAttempts THEN "retrying" ELSE "failing"

\* The handler returns a result, or fails, retryably or not.
Handled(r, phase) ==
  /\ r.phase = "handling"
  /\ runs' = InPhase(r, phase)
  /\ UNCHANGED <<jobs, claims, process, exits, restarts>>

Finish(r) == \/ Handled(r, "completing")
             \/ \E retryable \in BOOLEAN :
                  Handled(r, AfterFailure(r, retryable))

\* Mutant of Written: a status the claim query does not know.
WrittenRetrying == [completing |-> "succeeded", retrying |-> "retrying",
                    failing |-> "failed"]

\* The status each outcome writes.
Written == [completing |-> "succeeded", retrying |-> "queued",
            failing |-> "failed"]

\* complete, retry or fail: the row changes if this worker's id is on it, and
\* the run ends either way ("Workflow lease was lost").
Settle(r) ==
  /\ r.phase \in DOMAIN Written
  /\ jobs' = IF Owns(r)
             THEN [jobs EXCEPT ![r.job] = Unlocked(@, Written[r.phase])]
             ELSE jobs
  /\ runs' = runs \ {r}
  /\ UNCHANGED <<claims, process, exits, restarts>>

\* A handler defect, or a queue write that fails: logged, nothing recorded.
Abandon(r) ==
  /\ runs' = runs \ {r}
  /\ UNCHANGED <<jobs, claims, process, exits, restarts>>

\* Every third of a lease, while the fiber's scope is open.
Heartbeat(r) ==
  /\ r.phase # "releasing"
  /\ Holds(r)
  /\ jobs[r.job].lease = "expired"
  /\ jobs' = [jobs EXCEPT ![r.job].lease = "live"]
  /\ UNCHANGED <<runs, claims, process, exits, restarts>>

\* A lease runs out: its run is gone, or its heartbeats did not get through.
LeaseExpires(j) ==
  /\ jobs[j].lease = "live"
  /\ \/ HeartbeatsMayStall
     \/ ~\E r \in runs : /\ r.job = j
                         /\ r.worker = jobs[j].lockedBy
                         /\ r.phase # "releasing"
  /\ jobs' = [jobs EXCEPT ![j].lease = "expired"]
  /\ UNCHANGED <<runs, claims, process, exits, restarts>>

-----------------------------------------------------------------------------
(* Processes. *)

\* The process dies with all its fibers; its rows stay as they are.
Crash(w) ==
  /\ process[w] # "gone"
  /\ exits < MaxExits \/ process[w] = "stopping"
  /\ process' = [process EXCEPT ![w] = "gone"]
  /\ exits' = IF process[w] = "up" THEN exits + 1 ELSE exits
  /\ runs' = runs \ RunsOf(w)
  /\ UNCHANGED <<jobs, claims, restarts>>

\* A deploy interrupts every fiber of the process.
Shutdown(w) ==
  /\ process[w] = "up"
  /\ exits < MaxExits
  /\ process' = [process EXCEPT ![w] = "stopping"]
  /\ exits' = exits + 1
  /\ runs' = {IF r.worker = w THEN [r EXCEPT !.phase = "releasing"] ELSE r :
              r \in runs}
  /\ UNCHANGED <<jobs, claims, restarts>>

\* An interrupted fiber hands its job back; the attempt is not counted.
ReleasedRow(row) ==
  [Unlocked(row, "queued") EXCEPT
     !.attempts = IF row.attempts > 0 THEN row.attempts - 1 ELSE 0]

Release(r) ==
  /\ r.phase = "releasing"
  /\ jobs' = IF Holds(r) THEN [jobs EXCEPT ![r.job] = ReleasedRow(@)] ELSE jobs
  /\ runs' = runs \ {r}
  /\ UNCHANGED <<claims, process, exits, restarts>>

-----------------------------------------------------------------------------

QueueNext ==
  \/ \E j \in Jobs : Enqueue(j) \/ Restart(j) \/ OperatorCancel(j)
  \/ \E w \in Workers : Poll(w) \/ Crash(w) \/ Shutdown(w)
  \/ \E r \in runs : Finish(r) \/ Settle(r) \/ Abandon(r) \/ Heartbeat(r)
                     \/ Release(r)
  \/ \E j \in Jobs : LeaseExpires(j)

QueueSpec == QueueInit /\ [][QueueNext]_queueVars

(***************************************************************************)
(* Fairness.  A process that is up keeps polling and a freed slot claims   *)
(* again at once, oldest due job first, so a job that is claimable again   *)
(* and again is claimed (strong: its slot may be taken in between).        *)
(* A lease nobody renews runs out, and the daily budget renews.  That a    *)
(* handler returns, so that its fiber reaches its queue write and ends, is *)
(* assumed of the handlers.                                                *)
(***************************************************************************)
PollFairly(j) ==
  \E w \in Workers : \/ \E S \in SUBSET Jobs : j \in S /\ Claim(w, S)
                     \/ j \in Reaped /\ Poll(w)

RunFairly(j, w) ==
  \E r \in runs : r.job = j /\ r.worker = w
                  /\ (Finish(r) \/ Settle(r) \/ Release(r))

QueueFairness ==
  /\ \A j \in Jobs : SF_queueVars(PollFairly(j)) /\ WF_queueVars(LeaseExpires(j))
  /\ \A j \in Jobs, w \in Workers : WF_queueVars(RunFairly(j, w))

FairQueueSpec == QueueSpec /\ QueueFairness

-----------------------------------------------------------------------------
(* Properties. *)

\* A row names a worker and a lease exactly while it is running, and a running
\* row is on a counted attempt within its budget.  claim, heartbeat, release,
\* the reaper and the operator read one of these columns and rely on the rest.
LeaseMatchesStatus ==
  \A j \in Jobs :
    /\ jobs[j].status = "running" <=> jobs[j].lockedBy # NoWorker
    /\ jobs[j].status = "running" <=> jobs[j].lease # "none"
    /\ jobs[j].status = "running" => jobs[j].attempts \in 1 .. MaxAttempts

\* However many stale fibers of however many processes still write, a finished
\* job stays as it is until somebody restarts it, with a full budget: complete,
\* retry and fail do not look at the status.
OnlyRestarted ==
  \A j \in Jobs :
    jobs[j].status \in {"succeeded", "failed"} /\ jobs'[j] # jobs[j]
    => /\ jobs'[j].status = "queued"
       /\ jobs'[j].attempts = 0
       /\ restarts' = restarts + 1

FinishedStaysFinished == [][OnlyRestarted]_queueVars

\* While a lease is live nobody but its holder gives the row up: not a claim by
\* another process, not the reaper, not an operator, not a stale run of another
\* process.  The row is given up by a run of the holder that ends.
OnlyHolderGivesUp ==
  \A j \in Jobs :
    /\ jobs[j].lease = "live"
    /\ \/ jobs'[j].lockedBy # jobs[j].lockedBy
       \/ jobs'[j].status # jobs[j].status
       \/ jobs'[j].attempts # jobs[j].attempts
    => \E r \in runs \ runs' : r.job = j /\ r.worker = jobs[j].lockedBy

LeaseProtects == [][OnlyHolderGivesUp]_queueVars

\* A runner never runs more jobs than it has slots, and webhook deliveries
\* never take more than their half (at least one), whatever ends in between.
SlotsRespected ==
  \A w \in Workers :
    /\ Cardinality(RunsOf(w)) <= Concurrency
    /\ WebhooksBusy(w) <= WebhookSlots

\* As long as heartbeats get through, at most one handler of a job runs at a
\* time, across all processes, and the row is its own: same worker, same
\* attempt, the latest claim.  A fiber handing its job back may outlive that.
OneRunPerJob ==
  \A r \in runs :
    r.phase # "releasing" => /\ Holds(r)
                            /\ r.attempt = jobs[r.job].attempts
                            /\ r.claim = claims[r.job]

\* A queued job can be claimed: its budget is not spent.  Nothing else would
\* ever pick it up, since the reaper only looks at running rows.
QueuedIsClaimable ==
  \A j \in Jobs : jobs[j].status = "queued" => jobs[j].attempts < MaxAttempts

\* Every job that is enqueued or restarted ends succeeded or failed, through
\* crashes, deploys, lost queue writes and defects.
EveryJobSettles ==
  \A j \in Jobs :
    jobs[j].status = "queued" ~> jobs[j].status \in {"succeeded", "failed"}

\* The queue keeps the promise of JobLifecycle: a job is pending while it is
\* queued or running, and its tries are the attempts on its row.
Outcome(status) == IF status \in {"queued", "running"} THEN "pending" ELSE status

outcomes == [j \in Jobs |-> Outcome(jobs[j].status)]

tries == [j \in Jobs |-> jobs[j].attempts]

Lifecycle == INSTANCE JobLifecycle WITH outcome <- outcomes, tries <- tries

LifecycleSpec == Lifecycle!Spec
=============================================================================
