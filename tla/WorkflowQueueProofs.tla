------------------------- MODULE WorkflowQueueProofs -------------------------
(***************************************************************************)
(* What WorkflowQueue guarantees for any jobs, workers, budgets and slots. *)
(* The safety theorems first hold whatever the heartbeats do; the last     *)
(* ones assume that they get through.                                      *)
(***************************************************************************)
EXTENDS WorkflowQueue, TLAPS, FiniteSetTheorems

-----------------------------------------------------------------------------
(* Steps, one disjunct per action: the case split every proof below uses.  *)

JobStep == \E j \in Jobs :
             Enqueue(j) \/ Restart(j) \/ OperatorCancel(j) \/ LeaseExpires(j)

ClaimStep == \E w \in Workers, S \in SUBSET Jobs : Claim(w, S)

ProcessStep == \E w \in Workers : Crash(w) \/ Shutdown(w)

RunStep == \E r \in runs :
             Finish(r) \/ Settle(r) \/ Abandon(r) \/ Heartbeat(r) \/ Release(r)

\* Every step of the queue is one of these four, or changes nothing.
LEMMA StepCases ==
  ASSUME [QueueNext]_queueVars
  PROVE  JobStep \/ ClaimStep \/ ProcessStep \/ RunStep \/ UNCHANGED queueVars
<1>1. ASSUME NEW w \in Workers, Poll(w) PROVE ClaimStep
  BY <1>1 DEF Poll, ClaimStep
<1> QED
  BY <1>1 DEF QueueNext, JobStep, ProcessStep, RunStep

-----------------------------------------------------------------------------
(* Types. *)

\* Rows written by the queue's statements are rows.
LEMMA RowTypes ==
  ASSUME NEW row \in JobRow
  PROVE  /\ \A s \in Status : Unlocked(row, s) \in JobRow
         /\ Fresh(row) \in JobRow
         /\ ReleasedRow(row) \in JobRow
         /\ \A w \in Workers : ClaimedRow(row, w) \in JobRow
<1>1. ASSUME NEW s \in Status PROVE Unlocked(row, s) \in JobRow
  BY DEF JobRow, Unlocked
<1>2. Unlocked(row, "queued") \in JobRow
  BY <1>1 DEF Status
<1>3. ASSUME NEW u \in JobRow, NEW n \in Nat
      PROVE  [u EXCEPT !.attempts = n] \in JobRow
  BY DEF JobRow
<1>4. Fresh(row) \in JobRow /\ ReleasedRow(row) \in JobRow
  <2>1. (IF row.attempts > 0 THEN row.attempts - 1 ELSE 0) \in Nat
    BY DEF JobRow
  <2> QED BY <1>2, <1>3, <2>1 DEF Fresh, ReleasedRow
<1>5. ASSUME NEW w \in Workers PROVE ClaimedRow(row, w) \in JobRow
  <2>1. row.attempts \in Nat /\ row.attempts + 1 \in Nat
    BY DEF JobRow
  <2>2. [row EXCEPT !.status = "running", !.lockedBy = w, !.lease = "live"]
          \in JobRow
    BY DEF JobRow, Status
  <2>3. ClaimedRow(row, w) =
          [[row EXCEPT !.status = "running", !.lockedBy = w, !.lease = "live"]
             EXCEPT !.attempts = row.attempts + 1]
    BY DEF ClaimedRow, JobRow
  <2> QED BY <1>3, <2>1, <2>2, <2>3
<1> QED BY <1>1, <1>4, <1>5

\* A run keeps its type whatever phase it enters.
LEMMA PhaseTypes ==
  ASSUME NEW r \in Run, NEW p \in Phase
  PROVE  [r EXCEPT !.phase = p] \in Run
  BY DEF Run, Phase

LEMMA InitType == QueueInit => TypeOK
  BY DEF QueueInit, TypeOK, JobRow, Status

LEMMA StepType ==
  ASSUME TypeOK, [QueueNext]_queueVars
  PROVE  TypeOK'
<1> USE DEF TypeOK
<1>1. CASE JobStep
  <2> PICK j \in Jobs :
        Enqueue(j) \/ Restart(j) \/ OperatorCancel(j) \/ LeaseExpires(j)
    BY <1>1 DEF JobStep
  <2>1. CASE Enqueue(j)
    BY <2>1, RowTypes DEF Enqueue, EnqueuedRows
  <2>2. CASE Restart(j)
    BY <2>2, RowTypes DEF Restart
  <2>3. CASE OperatorCancel(j)
    BY <2>3, RowTypes DEF OperatorCancel, Status
  <2>4. CASE LeaseExpires(j)
    BY <2>4 DEF LeaseExpires, JobRow
  <2> QED BY <2>1, <2>2, <2>3, <2>4
<1>2. CASE ClaimStep
  <2> PICK w \in Workers, S \in SUBSET Jobs : Claim(w, S)
    BY <1>2 DEF ClaimStep
  <2>1. jobs' \in [Jobs -> JobRow]
    BY RowTypes DEF Claim, Status
  <2>2. runs' \in SUBSET Run
    BY DEF Claim, NewRun, Run, Phase, JobRow
  <2> QED BY <2>1, <2>2 DEF Claim
<1>3. CASE ProcessStep
  <2> PICK w \in Workers : Crash(w) \/ Shutdown(w)
    BY <1>3 DEF ProcessStep
  <2>1. CASE Crash(w)
    BY <2>1 DEF Crash, RunsOf
  <2>2. CASE Shutdown(w)
    <3>1. runs' \in SUBSET Run
      BY <2>2, PhaseTypes DEF Shutdown, Phase
    <3> QED BY <2>2, <3>1 DEF Shutdown
  <2> QED BY <2>1, <2>2
<1>4. CASE RunStep
  <2> PICK r \in runs :
        Finish(r) \/ Settle(r) \/ Abandon(r) \/ Heartbeat(r) \/ Release(r)
    BY <1>4 DEF RunStep
  <2>1. CASE Finish(r)
    BY <2>1, PhaseTypes DEF Finish, Handled, AfterFailure, InPhase, Phase
  <2>2. CASE Settle(r)
    <3>1. r.job \in Jobs /\ Written[r.phase] \in Status
      BY <2>2 DEF Settle, Written, Status, Run
    <3> QED BY <2>2, <3>1, RowTypes DEF Settle
  <2>3. CASE Abandon(r)
    BY <2>3 DEF Abandon
  <2>4. CASE Heartbeat(r)
    BY <2>4 DEF Heartbeat, JobRow
  <2>5. CASE Release(r)
    BY <2>5, RowTypes DEF Release, Run
  <2> QED BY <2>1, <2>2, <2>3, <2>4, <2>5
<1>5. CASE UNCHANGED queueVars
  BY <1>5 DEF queueVars
<1> QED BY <1>1, <1>2, <1>3, <1>4, <1>5, StepCases

\* Every reachable state is well typed.
THEOREM TypeCorrect == QueueSpec => []TypeOK
  BY InitType, StepType, PTL DEF QueueSpec

-----------------------------------------------------------------------------
(* Rows: leases, holders and budgets agree. *)

\* The fields of the rows the statements write.
LEMMA RowFields ==
  ASSUME NEW row \in JobRow
  PROVE  /\ \A s \in Status : /\ Unlocked(row, s).status = s
                              /\ Unlocked(row, s).attempts = row.attempts
                              /\ Unlocked(row, s).lockedBy = NoWorker
                              /\ Unlocked(row, s).lease = "none"
         /\ /\ Fresh(row).status = "queued"
            /\ Fresh(row).attempts = 0
            /\ Fresh(row).lockedBy = NoWorker
            /\ Fresh(row).lease = "none"
         /\ /\ ReleasedRow(row).status = "queued"
            /\ row.attempts > 0 => ReleasedRow(row).attempts = row.attempts - 1
            /\ ReleasedRow(row).lockedBy = NoWorker
            /\ ReleasedRow(row).lease = "none"
         /\ \A w \in Workers : /\ ClaimedRow(row, w).status = "running"
                               /\ ClaimedRow(row, w).attempts = row.attempts + 1
                               /\ ClaimedRow(row, w).lockedBy = w
                               /\ ClaimedRow(row, w).lease = "live"
<1>1. ASSUME NEW s
      PROVE  /\ Unlocked(row, s).status = s
             /\ Unlocked(row, s).attempts = row.attempts
             /\ Unlocked(row, s).lockedBy = NoWorker
             /\ Unlocked(row, s).lease = "none"
  BY DEF JobRow, Unlocked
<1>2. ASSUME NEW u \in JobRow, NEW n
      PROVE  /\ [u EXCEPT !.attempts = n].status = u.status
             /\ [u EXCEPT !.attempts = n].attempts = n
             /\ [u EXCEPT !.attempts = n].lockedBy = u.lockedBy
             /\ [u EXCEPT !.attempts = n].lease = u.lease
  BY DEF JobRow
<1>3. Unlocked(row, "queued") \in JobRow
  BY RowTypes DEF Status
<1>4. ASSUME NEW w \in Workers
      PROVE  /\ ClaimedRow(row, w).status = "running"
             /\ ClaimedRow(row, w).attempts = row.attempts + 1
             /\ ClaimedRow(row, w).lockedBy = w
             /\ ClaimedRow(row, w).lease = "live"
  BY DEF JobRow, ClaimedRow
<1> QED BY <1>1, <1>2, <1>3, <1>4 DEF Fresh, ReleasedRow

\* LeaseMatchesStatus for one row.
RowMatches(row) ==
  /\ row.status = "running" <=> row.lockedBy # NoWorker
  /\ row.status = "running" <=> row.lease # "none"
  /\ row.status = "running" => row.attempts \in 1 .. MaxAttempts

LEMMA MatchesEachRow == LeaseMatchesStatus <=> \A j \in Jobs : RowMatches(jobs[j])
  BY DEF LeaseMatchesStatus, RowMatches

\* Statements that unlock a row, or claim one with budget left, keep it so.
LEMMA RowsMatch ==
  ASSUME NEW row \in JobRow
  PROVE  /\ \A s \in Status \ {"running"} : RowMatches(Unlocked(row, s))
         /\ RowMatches(Fresh(row))
         /\ RowMatches(ReleasedRow(row))
         /\ \A w \in Workers :
              row.attempts < MaxAttempts => RowMatches(ClaimedRow(row, w))
<1>1. row.attempts \in Nat
  BY DEF JobRow
<1> QED BY <1>1, RowFields, QueueAssumption DEF RowMatches, Status

LEMMA StepMatches ==
  ASSUME TypeOK, LeaseMatchesStatus, [QueueNext]_queueVars
  PROVE  LeaseMatchesStatus'
<1>0. \A j \in Jobs : jobs[j] \in JobRow /\ RowMatches(jobs[j])
  BY MatchesEachRow DEF TypeOK
<1> SUFFICES ASSUME NEW k \in Jobs
             PROVE  RowMatches(jobs'[k])
  BY DEF LeaseMatchesStatus, RowMatches
<1>1. CASE JobStep
  <2> PICK j \in Jobs :
        Enqueue(j) \/ Restart(j) \/ OperatorCancel(j) \/ LeaseExpires(j)
    BY <1>1 DEF JobStep
  <2>1. CASE Enqueue(j)
    BY <2>1, <1>0, RowsMatch DEF Enqueue, EnqueuedRows
  <2>2. CASE Restart(j)
    BY <2>2, <1>0, RowsMatch DEF Restart, TypeOK
  <2>3. CASE OperatorCancel(j)
    BY <2>3, <1>0, RowsMatch DEF OperatorCancel, TypeOK, Status
  <2>4. CASE LeaseExpires(j)
    BY <2>4, <1>0 DEF LeaseExpires, TypeOK, JobRow, RowMatches
  <2> QED BY <2>1, <2>2, <2>3, <2>4
<1>2. CASE ClaimStep
  <2> PICK w \in Workers, S \in SUBSET Jobs : Claim(w, S)
    BY <1>2 DEF ClaimStep
  <2>1. k \in S => jobs[k].attempts < MaxAttempts
    BY DEF Claim, Fits, Claimable
  <2>2. \/ jobs'[k] = Unlocked(jobs[k], "failed")
        \/ k \in S /\ jobs'[k] = ClaimedRow(jobs[k], w)
        \/ jobs'[k] = jobs[k]
    BY DEF Claim
  <2> QED BY <2>1, <2>2, <1>0, RowsMatch DEF Status
<1>3. CASE ProcessStep
  BY <1>3, <1>0 DEF ProcessStep, Crash, Shutdown
<1>4. CASE RunStep
  <2> PICK r \in runs :
        Finish(r) \/ Settle(r) \/ Abandon(r) \/ Heartbeat(r) \/ Release(r)
    BY <1>4 DEF RunStep
  <2>1. CASE Finish(r) \/ Abandon(r)
    BY <2>1, <1>0 DEF Finish, Handled, Abandon
  <2>2. CASE Settle(r)
    <3>1. Written[r.phase] \in Status \ {"running"}
      BY <2>2 DEF Settle, Written, Status
    <3> QED BY <2>2, <3>1, <1>0, RowsMatch DEF Settle, TypeOK
  <2>3. CASE Heartbeat(r)
    BY <2>3, <1>0 DEF Heartbeat, Holds, TypeOK, JobRow, RowMatches
  <2>4. CASE Release(r)
    BY <2>4, <1>0, RowsMatch DEF Release, TypeOK
  <2> QED BY <2>1, <2>2, <2>3, <2>4
<1>5. CASE UNCHANGED queueVars
  BY <1>5, <1>0 DEF queueVars
<1> QED BY <1>1, <1>2, <1>3, <1>4, <1>5, StepCases

\* Every reachable row names a holder and a lease exactly while it runs, on an
\* attempt within its budget.
THEOREM LeasesMatch == QueueSpec => []LeaseMatchesStatus
<1>1. QueueInit => LeaseMatchesStatus
  BY DEF QueueInit, LeaseMatchesStatus
<1> QED BY <1>1, StepMatches, TypeCorrect, PTL DEF QueueSpec

-----------------------------------------------------------------------------
(* Who may change a row. *)

\* What a step does to one row, in terms of the row alone.
Unchanged(k) == jobs'[k] = jobs[k]

\* A live row held by w is given up by a run of w that ends.
GivenUpByHolder(k) == \E r \in runs \ runs' : r.job = k /\ Owns(r)

LEMMA RowSteps ==
  ASSUME TypeOK, LeaseMatchesStatus, [QueueNext]_queueVars, NEW k \in Jobs
  PROVE  \/ Unchanged(k)
         \/ jobs[k].status = "absent" /\ jobs'[k] = Fresh(jobs[k])
         \/ /\ jobs[k].status \in {"failed", "succeeded"}
            /\ jobs'[k] = Fresh(jobs[k])
            /\ restarts' = restarts + 1
         \/ /\ jobs[k].status = "queued" \/ Expired(k)
            /\ \/ jobs'[k] = Unlocked(jobs[k], "failed")
               \/ /\ jobs[k].attempts < MaxAttempts
                  /\ \E w \in Workers : jobs'[k] = ClaimedRow(jobs[k], w)
         \/ /\ jobs[k].status = "running"
            /\ \/ GivenUpByHolder(k) /\ jobs'[k] = ReleasedRow(jobs[k])
               \/ GivenUpByHolder(k) /\ \E s \in {"succeeded", "queued", "failed"} :
                    jobs'[k] = Unlocked(jobs[k], s)
               \/ \E lease \in {"live", "expired"} :
                    jobs'[k] = [jobs[k] EXCEPT !.lease = lease]
<1>0. jobs[k] \in JobRow /\ RowMatches(jobs[k])
  BY MatchesEachRow DEF TypeOK
<1>1. CASE JobStep
  <2> PICK j \in Jobs :
        Enqueue(j) \/ Restart(j) \/ OperatorCancel(j) \/ LeaseExpires(j)
    BY <1>1 DEF JobStep
  <2>1. CASE Enqueue(j)
    BY <2>1 DEF Enqueue, EnqueuedRows, Unchanged
  <2>2. CASE Restart(j)
    BY <2>2 DEF Restart, TypeOK, Unchanged
  <2>3. CASE OperatorCancel(j)
    BY <2>3 DEF OperatorCancel, TypeOK, Unchanged
  <2>4. CASE LeaseExpires(j)
    BY <2>4, <1>0 DEF LeaseExpires, TypeOK, Unchanged, RowMatches
  <2> QED BY <2>1, <2>2, <2>3, <2>4
<1>2. CASE ClaimStep
  <2> PICK w \in Workers, S \in SUBSET Jobs : Claim(w, S)
    BY <1>2 DEF ClaimStep
  <2>1. k \in S => /\ jobs[k].attempts < MaxAttempts
                   /\ jobs[k].status = "queued" \/ Expired(k)
    BY DEF Claim, Fits, Claimable
  <2>2. \/ k \in Reaped /\ jobs'[k] = Unlocked(jobs[k], "failed")
        \/ k \in S /\ jobs'[k] = ClaimedRow(jobs[k], w)
        \/ jobs'[k] = jobs[k]
    BY DEF Claim
  <2>3. CASE k \in Reaped /\ jobs'[k] = Unlocked(jobs[k], "failed")
    BY <2>3 DEF Reaped
  <2>4. CASE k \in S /\ jobs'[k] = ClaimedRow(jobs[k], w)
    <3>1. \E v \in Workers : jobs'[k] = ClaimedRow(jobs[k], v)
      BY <2>4
    <3> QED BY <2>4, <2>1, <3>1
  <2> QED BY <2>2, <2>3, <2>4 DEF Unchanged
<1>3. CASE ProcessStep
  BY <1>3 DEF ProcessStep, Crash, Shutdown, Unchanged
<1>4. CASE RunStep
  <2> PICK r \in runs :
        Finish(r) \/ Settle(r) \/ Abandon(r) \/ Heartbeat(r) \/ Release(r)
    BY <1>4 DEF RunStep
  <2>0. Owns(r) /\ r.job = k => jobs[k].status = "running"
    BY <1>0, QueueAssumption DEF Owns, RowMatches, TypeOK, Run
  <2>1. CASE Finish(r) \/ Abandon(r)
    BY <2>1 DEF Finish, Handled, Abandon, Unchanged
  <2>2. CASE Settle(r)
    <3>1. Written[r.phase] \in {"succeeded", "queued", "failed"}
      BY <2>2 DEF Settle, Written
    <3>2. r \in runs \ runs'
      BY <2>2 DEF Settle
    <3>3. jobs'[k] # jobs[k]
            => /\ r.job = k
               /\ Owns(r)
               /\ jobs'[k] = Unlocked(jobs[k], Written[r.phase])
      BY <2>2 DEF Settle, TypeOK
    <3> QED BY <3>1, <3>2, <3>3, <2>0 DEF Unchanged, GivenUpByHolder
  <2>3. CASE Heartbeat(r)
    BY <2>3, <2>0 DEF Heartbeat, Holds, TypeOK, Unchanged
  <2>4. CASE Release(r)
    <3>1. r \in runs \ runs'
      BY <2>4 DEF Release
    <3>2. jobs'[k] # jobs[k]
            => r.job = k /\ Owns(r) /\ jobs'[k] = ReleasedRow(jobs[k])
      BY <2>4 DEF Release, Holds, TypeOK
    <3> QED BY <3>1, <3>2, <2>0 DEF Unchanged, GivenUpByHolder
  <2> QED BY <2>1, <2>2, <2>3, <2>4
<1>5. CASE UNCHANGED queueVars
  BY <1>5 DEF queueVars, Unchanged
<1> QED BY <1>1, <1>2, <1>3, <1>4, <1>5, StepCases

\* No stale fiber, reaper or operator ever changes a finished job: only a
\* restart does, and it gives the job a full budget.
THEOREM FinishedIsFinal == QueueSpec => FinishedStaysFinished
<1>1. TypeOK /\ LeaseMatchesStatus /\ [QueueNext]_queueVars => OnlyRestarted
  <2> SUFFICES ASSUME TypeOK, LeaseMatchesStatus, [QueueNext]_queueVars,
                      NEW k \in Jobs,
                      jobs[k].status \in {"succeeded", "failed"},
                      jobs'[k] # jobs[k]
               PROVE  /\ jobs'[k].status = "queued"
                      /\ jobs'[k].attempts = 0
                      /\ restarts' = restarts + 1
    BY DEF OnlyRestarted
  <2>1. jobs'[k] = Fresh(jobs[k]) /\ restarts' = restarts + 1
    BY RowSteps DEF Unchanged, Expired
  <2> QED BY <2>1, RowFields DEF TypeOK
<1> QED
  BY <1>1, TypeCorrect, LeasesMatch, PTL DEF QueueSpec, FinishedStaysFinished

\* A row with a live lease changes hands, status or attempts only when a run of
\* the worker it names ends.
THEOREM LeasesProtect == QueueSpec => LeaseProtects
<1>1. TypeOK /\ LeaseMatchesStatus /\ [QueueNext]_queueVars => OnlyHolderGivesUp
  <2> SUFFICES ASSUME TypeOK, LeaseMatchesStatus, [QueueNext]_queueVars,
                      NEW k \in Jobs,
                      jobs[k].lease = "live",
                      \/ jobs'[k].lockedBy # jobs[k].lockedBy
                      \/ jobs'[k].status # jobs[k].status
                      \/ jobs'[k].attempts # jobs[k].attempts
               PROVE  \E r \in runs \ runs' :
                        r.job = k /\ r.worker = jobs[k].lockedBy
    BY DEF OnlyHolderGivesUp
  <2>1. jobs[k] \in JobRow /\ jobs[k].status = "running"
    BY DEF TypeOK, LeaseMatchesStatus
  <2>2. ASSUME NEW lease, jobs'[k] = [jobs[k] EXCEPT !.lease = lease]
        PROVE  FALSE
    BY <2>1, <2>2 DEF JobRow
  <2>3. GivenUpByHolder(k)
    BY <2>1, <2>2, RowSteps DEF Unchanged, Expired
  <2> QED BY <2>3 DEF GivenUpByHolder, Owns
<1> QED
  BY <1>1, TypeCorrect, LeasesMatch, PTL DEF QueueSpec, LeaseProtects

-----------------------------------------------------------------------------
(* The queue implements the abstract lifecycle. *)

\* What a statement that writes one row does to the abstract state.
LEMMA OneRowMapped ==
  ASSUME TypeOK, NEW j \in Jobs, NEW row \in JobRow,
         jobs' = [jobs EXCEPT ![j] = row]
  PROVE  /\ outcomes' = [outcomes EXCEPT ![j] = Outcome(row.status)]
         /\ tries' = [tries EXCEPT ![j] = row.attempts]
         /\ outcomes[j] = Outcome(jobs[j].status)
         /\ tries[j] = jobs[j].attempts
  BY DEF TypeOK, outcomes, tries

\* Nothing abstract changes when a row keeps its outcome and its attempts.
LEMMA OneRowStutters ==
  ASSUME TypeOK, NEW j \in Jobs, NEW row \in JobRow,
         jobs' = [jobs EXCEPT ![j] = row],
         Outcome(row.status) = Outcome(jobs[j].status),
         row.attempts = jobs[j].attempts
  PROVE  UNCHANGED Lifecycle!vars
  BY DEF TypeOK, outcomes, tries, Lifecycle!vars

LEMMA InitMapped == QueueInit => Lifecycle!Init
  BY DEF QueueInit, Lifecycle!Init, outcomes, tries, Outcome

\* complete, retry and fail end a try, or leave it to the next one.
LEMMA SettleMapped ==
  ASSUME TypeOK, LeaseMatchesStatus, NEW r \in runs, Settle(r)
  PROVE  [Lifecycle!Next]_(Lifecycle!vars)
<1>0. r.job \in Jobs /\ jobs[r.job] \in JobRow /\ r.worker # NoWorker
  BY QueueAssumption DEF TypeOK, Run
<1>1. CASE ~Owns(r)
  BY <1>1 DEF Settle, outcomes, tries, Lifecycle!vars
<1>2. CASE Owns(r)
  <2> DEFINE row == Unlocked(jobs[r.job], Written[r.phase])
  <2>1. jobs[r.job].status = "running" /\ jobs[r.job].attempts \in 1 .. MaxAttempts
    BY <1>2, <1>0 DEF Owns, LeaseMatchesStatus
  <2>2. Written[r.phase] \in {"succeeded", "queued", "failed"}
    BY DEF Settle, Written
  <2>3. row \in JobRow /\ row.status = Written[r.phase]
                      /\ row.attempts = jobs[r.job].attempts
    <3> DEFINE status == Written[r.phase]
    <3>1. status \in Status
      BY <2>2 DEF Status
    <3> HIDE DEF status
    <3>2. Unlocked(jobs[r.job], status) \in JobRow
      BY <1>0, <3>1, RowTypes
    <3>3. /\ Unlocked(jobs[r.job], status).status = status
          /\ Unlocked(jobs[r.job], status).attempts = jobs[r.job].attempts
      BY <1>0, <3>1, RowFields
    <3> QED BY <3>2, <3>3 DEF status
  <2>4. jobs' = [jobs EXCEPT ![r.job] = row]
    BY <1>2 DEF Settle
  <2> HIDE DEF row
  <2>5. /\ outcomes' = [outcomes EXCEPT ![r.job] = Outcome(Written[r.phase])]
        /\ tries' = [tries EXCEPT ![r.job] = tries[r.job]]
        /\ outcomes[r.job] = "pending"
        /\ tries[r.job] > 0
    <3>1. /\ outcomes' = [outcomes EXCEPT ![r.job] = Outcome(row.status)]
          /\ tries' = [tries EXCEPT ![r.job] = row.attempts]
          /\ outcomes[r.job] = Outcome(jobs[r.job].status)
          /\ tries[r.job] = jobs[r.job].attempts
      BY <1>0, <2>3, <2>4, OneRowMapped
    <3> QED BY <2>1, <2>3, <3>1, QueueAssumption DEF Outcome
  <2>6. CASE Written[r.phase] = "queued"
    BY <2>5, <2>6, <1>0 DEF Lifecycle!vars, Outcome, outcomes, tries
  <2>7. CASE Written[r.phase] = "succeeded"
    <3>1. Lifecycle!Succeed(r.job)
      BY <2>5, <2>7 DEF Lifecycle!Succeed, Outcome, tries
    <3> QED BY <3>1, <1>0 DEF Lifecycle!Next
  <2>8. CASE Written[r.phase] = "failed"
    <3>1. Lifecycle!Fail(r.job)
      BY <2>5, <2>8 DEF Lifecycle!Fail, Outcome, tries
    <3> QED BY <3>1, <1>0 DEF Lifecycle!Next
  <2> QED BY <2>2, <2>6, <2>7, <2>8
<1> QED BY <1>1, <1>2

\* release hands the try back.
LEMMA ReleaseMapped ==
  ASSUME TypeOK, LeaseMatchesStatus, NEW r \in runs, Release(r)
  PROVE  [Lifecycle!Next]_(Lifecycle!vars)
<1>0. r.job \in Jobs /\ jobs[r.job] \in JobRow
  BY DEF TypeOK, Run
<1>1. CASE ~Holds(r)
  BY <1>1 DEF Release, outcomes, tries, Lifecycle!vars
<1>2. CASE Holds(r)
  <2> DEFINE row == ReleasedRow(jobs[r.job])
  <2>1. jobs[r.job].status = "running" /\ jobs[r.job].attempts > 0
    BY <1>2, <1>0, QueueAssumption DEF Holds, LeaseMatchesStatus
  <2>2. row \in JobRow /\ row.status = "queued"
                      /\ row.attempts = jobs[r.job].attempts - 1
    BY <1>0, <2>1, RowTypes, RowFields
  <2>3. jobs' = [jobs EXCEPT ![r.job] = row]
    BY <1>2 DEF Release
  <2> HIDE DEF row
  <2>4. /\ outcomes' = [outcomes EXCEPT ![r.job] = "pending"]
        /\ tries' = [tries EXCEPT ![r.job] = tries[r.job] - 1]
        /\ outcomes[r.job] = "pending"
        /\ tries[r.job] > 0
    BY <1>0, <2>1, <2>2, <2>3, OneRowMapped DEF Outcome
  <2>5. Lifecycle!HandBack(r.job)
    BY <2>4 DEF Lifecycle!HandBack, outcomes
  <2> QED BY <2>5, <1>0 DEF Lifecycle!Next
<1> QED BY <1>1, <1>2

LEMMA StepMapped ==
  ASSUME TypeOK, LeaseMatchesStatus, [QueueNext]_queueVars
  PROVE  [Lifecycle!Next]_(Lifecycle!vars)
<1>0. \A j \in Jobs : jobs[j] \in JobRow /\ RowMatches(jobs[j])
  BY MatchesEachRow DEF TypeOK
<1>1. CASE JobStep
  <2> PICK j \in Jobs :
        Enqueue(j) \/ Restart(j) \/ OperatorCancel(j) \/ LeaseExpires(j)
    BY <1>1 DEF JobStep
  <2>0. jobs[j] \in JobRow /\ Fresh(jobs[j]) \in JobRow
    BY <1>0, RowTypes
  <2>1. CASE Enqueue(j)
    <3>1. jobs[j].status = "absent" /\ jobs' = [jobs EXCEPT ![j] = Fresh(jobs[j])]
      BY <2>1 DEF Enqueue, EnqueuedRows, TypeOK
    <3>2. /\ outcomes' = [outcomes EXCEPT ![j] = Outcome(Fresh(jobs[j]).status)]
          /\ tries' = [tries EXCEPT ![j] = Fresh(jobs[j]).attempts]
          /\ outcomes[j] = Outcome(jobs[j].status)
          /\ tries[j] = jobs[j].attempts
      BY <2>0, <3>1, OneRowMapped
    <3>3. Lifecycle!Record(j)
      BY <3>1, <3>2, <2>0, RowFields DEF Lifecycle!Record, Outcome
    <3> QED BY <3>3 DEF Lifecycle!Next
  <2>2. CASE Restart(j)
    <3>1. /\ jobs[j].status \in {"failed", "succeeded"}
          /\ jobs' = [jobs EXCEPT ![j] = Fresh(jobs[j])]
      BY <2>2 DEF Restart
    <3>2. /\ outcomes' = [outcomes EXCEPT ![j] = Outcome(Fresh(jobs[j]).status)]
          /\ tries' = [tries EXCEPT ![j] = Fresh(jobs[j]).attempts]
          /\ outcomes[j] = Outcome(jobs[j].status)
          /\ tries[j] = jobs[j].attempts
      BY <2>0, <3>1, OneRowMapped
    <3>3. Lifecycle!Restart(j)
      BY <3>1, <3>2, <2>0, RowFields DEF Lifecycle!Restart, Outcome
    <3> QED BY <3>3 DEF Lifecycle!Next
  <2>3. CASE OperatorCancel(j)
    <3>1. /\ jobs[j].status \in {"queued", "running"}
          /\ jobs' = [jobs EXCEPT ![j] = Unlocked(jobs[j], "failed")]
      BY <2>3 DEF OperatorCancel, Expired
    <3>2. Lifecycle!Fail(j)
      <4>1. Unlocked(jobs[j], "failed") \in JobRow
        BY <2>0, RowTypes DEF Status
      <4>2. /\ outcomes' = [outcomes EXCEPT ![j] = Outcome(Unlocked(jobs[j], "failed").status)]
            /\ tries' = [tries EXCEPT ![j] = Unlocked(jobs[j], "failed").attempts]
            /\ outcomes[j] = Outcome(jobs[j].status)
            /\ tries[j] = jobs[j].attempts
        BY <2>0, <3>1, <4>1, OneRowMapped
      <4>3. /\ Unlocked(jobs[j], "failed").status = "failed"
            /\ Unlocked(jobs[j], "failed").attempts = jobs[j].attempts
        BY <2>0, RowFields DEF Status
      <4>4. /\ outcomes' = [outcomes EXCEPT ![j] = "failed"]
            /\ tries' = [tries EXCEPT ![j] = tries[j]]
            /\ outcomes[j] = "pending"
        BY <3>1, <4>2, <4>3 DEF Outcome
      <4> QED BY <4>4 DEF Lifecycle!Fail, tries
    <3> QED BY <3>2 DEF Lifecycle!Next
  <2>4. CASE LeaseExpires(j)
    BY <2>4, <1>0, OneRowStutters DEF LeaseExpires, JobRow
  <2> QED BY <2>1, <2>2, <2>3, <2>4
<1>2. CASE ClaimStep
  <2> PICK w \in Workers, S \in SUBSET Jobs : Claim(w, S)
    BY <1>2 DEF ClaimStep
  <2>1. \A k \in S : /\ outcomes[k] = "pending"
                     /\ tries[k] < MaxAttempts
    BY DEF Claim, Fits, Claimable, Expired, outcomes, tries, Outcome
  <2>2. \A k \in Reaped : /\ outcomes[k] = "pending"
                          /\ tries[k] >= MaxAttempts
    BY DEF Reaped, Expired, outcomes, tries, Outcome
  <2>3. \A k \in Jobs : ~(k \in S /\ k \in Reaped)
    BY <1>0, QueueAssumption DEF Claim, Fits, Claimable, Reaped, JobRow
  <2>4. ASSUME NEW k \in Jobs
        PROVE  /\ Outcome(jobs'[k].status) =
                    IF k \in Reaped THEN "failed" ELSE Outcome(jobs[k].status)
               /\ jobs'[k].attempts =
                    IF k \in S THEN jobs[k].attempts + 1 ELSE jobs[k].attempts
    <3>1. CASE k \in Reaped
      BY <3>1, <2>3, <1>0, RowFields DEF Claim, Outcome, Status
    <3>2. CASE k \in S
      BY <3>2, <2>3, <1>0, RowFields
         DEF Claim, Fits, Claimable, Expired, Outcome
    <3>3. CASE k \notin S /\ k \notin Reaped
      BY <3>3 DEF Claim
    <3> QED BY <3>1, <3>2, <3>3
  <2>5. Lifecycle!GiveUp(Reaped) /\ Lifecycle!Try(S)
    BY <2>1, <2>2, <2>4 DEF Lifecycle!GiveUp, Lifecycle!Try, outcomes, tries
  <2> QED BY <2>5 DEF Lifecycle!Next, Lifecycle!Poll, Reaped
<1>3. CASE ProcessStep
  BY <1>3 DEF ProcessStep, Crash, Shutdown, outcomes, tries, Lifecycle!vars
<1>4. CASE RunStep
  <2> PICK r \in runs :
        Finish(r) \/ Settle(r) \/ Abandon(r) \/ Heartbeat(r) \/ Release(r)
    BY <1>4 DEF RunStep
  <2>0. r.job \in Jobs /\ jobs[r.job] \in JobRow
    BY DEF TypeOK, Run
  <2>1. CASE Finish(r) \/ Abandon(r)
    BY <2>1 DEF Finish, Handled, Abandon, outcomes, tries, Lifecycle!vars
  <2>2. CASE Settle(r)
    BY <2>2, <2>0, SettleMapped
  <2>3. CASE Heartbeat(r)
    BY <2>3, <2>0, OneRowStutters DEF Heartbeat, JobRow
  <2>4. CASE Release(r)
    BY <2>4, <2>0, ReleaseMapped
  <2> QED BY <2>1, <2>2, <2>3, <2>4
<1>5. CASE UNCHANGED queueVars
  BY <1>5 DEF queueVars, outcomes, tries, Lifecycle!vars
<1> QED BY <1>1, <1>2, <1>3, <1>4, <1>5, StepCases

\* The queue's rows follow the abstract lifecycle: counted tries, a budget per
\* restart, and outcomes that only a restart takes back.
THEOREM ImplementsLifecycle == QueueSpec => LifecycleSpec
  BY InitMapped, StepMapped, TypeCorrect, LeasesMatch, PTL
     DEF QueueSpec, LifecycleSpec, Lifecycle!Spec

-----------------------------------------------------------------------------
(* Slots. *)

WebhookRuns(w) == {r \in RunsOf(w) : r.job \in WebhookJobs}

Rows == {j \in Jobs : jobs[j].status # "absent"}

\* Why SlotsRespected can be counted: there are finitely many rows and runs.
SlotsInv == IsFiniteSet(Rows) /\ IsFiniteSet(runs) /\ SlotsRespected

LEMMA CountsAreNumbers ==
  ASSUME IsFiniteSet(runs), NEW w
  PROVE  /\ IsFiniteSet(RunsOf(w)) /\ Cardinality(RunsOf(w)) \in Nat
         /\ IsFiniteSet(WebhookRuns(w)) /\ Cardinality(WebhookRuns(w)) \in Nat
         /\ WebhooksBusy(w) = Cardinality(WebhookRuns(w))
<1>1. RunsOf(w) \subseteq runs /\ WebhookRuns(w) \subseteq RunsOf(w)
  BY DEF RunsOf, WebhookRuns
<1>2. IsFiniteSet(RunsOf(w)) /\ IsFiniteSet(WebhookRuns(w))
  BY <1>1, FS_Subset
<1> QED BY <1>2, FS_CardinalityType DEF WebhooksBusy, WebhookRuns

\* Runs that end, or move on to another phase, take no more slots than before.
LEMMA MovedRuns ==
  ASSUME SlotsInv, NEW f \in [runs -> runs'], runs' \subseteq {f[r] : r \in runs},
         \A r \in runs : f[r].worker = r.worker /\ f[r].job = r.job
  PROVE  IsFiniteSet(runs') /\ SlotsRespected'
<1>1. IsFiniteSet(runs')
  <2>1. f \in Surjection(runs, runs')
    BY DEF Surjection
  <2> QED BY <2>1, FS_Surjection DEF SlotsInv
<1>2. ASSUME NEW w \in Workers
      PROVE  /\ Cardinality(RunsOf(w)') <= Concurrency
             /\ WebhooksBusy(w)' <= WebhookSlots
  <2>0. IsFiniteSet(RunsOf(w)) /\ IsFiniteSet(WebhookRuns(w))
        /\ Cardinality(RunsOf(w)) \in Nat /\ Cardinality(WebhookRuns(w)) \in Nat
    BY CountsAreNumbers DEF SlotsInv
  <2>1. Cardinality(RunsOf(w)') <= Cardinality(RunsOf(w))
    <3> DEFINE g == [r \in RunsOf(w) |-> f[r]]
    <3>1. g \in Surjection(RunsOf(w), RunsOf(w)')
      BY DEF Surjection, RunsOf
    <3> QED BY <2>0, <3>1, FS_Surjection
  <2>2. Cardinality(WebhookRuns(w)') <= Cardinality(WebhookRuns(w))
    <3> DEFINE g == [r \in WebhookRuns(w) |-> f[r]]
    <3>1. g \in Surjection(WebhookRuns(w), WebhookRuns(w)')
      BY DEF Surjection, RunsOf, WebhookRuns
    <3> QED BY <2>0, <3>1, FS_Surjection
  <2>3. /\ Cardinality(RunsOf(w)') \in Nat /\ Cardinality(WebhookRuns(w)') \in Nat
        /\ WebhooksBusy(w)' = Cardinality(WebhookRuns(w)')
    <3>1. IsFiniteSet(RunsOf(w)') /\ IsFiniteSet(WebhookRuns(w)')
      <4>1. RunsOf(w)' \subseteq runs' /\ WebhookRuns(w)' \subseteq runs'
        BY DEF RunsOf, WebhookRuns
      <4> QED BY <1>1, <4>1, FS_Subset
    <3> QED BY <3>1, FS_CardinalityType DEF WebhooksBusy, WebhookRuns
  <2>4. /\ Cardinality(RunsOf(w)) <= Concurrency
        /\ Cardinality(WebhookRuns(w)) <= WebhookSlots
    BY DEF SlotsInv, SlotsRespected, WebhooksBusy, WebhookRuns
  <2>5. Concurrency \in Nat /\ WebhookSlots \in Nat
    BY QueueAssumption DEF WebhookSlots
  <2> QED BY <2>0, <2>1, <2>2, <2>3, <2>4, <2>5
<1> QED BY <1>1, <1>2 DEF SlotsRespected

\* A claim takes what is free, and counts the deliveries that still run.
LEMMA ClaimKeepsSlots ==
  ASSUME TypeOK, SlotsInv, NEW w \in Workers, NEW S \in SUBSET Jobs, Claim(w, S)
  PROVE  SlotsInv'
<1> DEFINE new(T) == {NewRun(j, w) : j \in T}
           W == S \cap WebhookJobs
<1>1. IsFiniteSet(S) /\ IsFiniteSet(W) /\ Cardinality(S) \in Nat
      /\ Cardinality(W) \in Nat
  <2>1. S \subseteq Rows
    BY DEF Claim, Fits, Claimable, Expired, Rows
  <2> QED BY <2>1, FS_Subset, FS_CardinalityType DEF SlotsInv
<1>2. \A j \in Jobs : /\ NewRun(j, w).worker = w /\ NewRun(j, w).job = j
  BY DEF NewRun
<1>3. ASSUME NEW T \in SUBSET Jobs, IsFiniteSet(T)
      PROVE  IsFiniteSet(new(T)) /\ Cardinality(new(T)) \in Nat
             /\ Cardinality(new(T)) <= Cardinality(T)
  <2> DEFINE g == [j \in T |-> NewRun(j, w)]
  <2>1. g \in Surjection(T, new(T))
    BY DEF Surjection
  <2> QED BY <1>3, <2>1, FS_Surjection, FS_CardinalityType
<1>4. runs' = runs \cup new(S)
  BY DEF Claim
<1>5. IsFiniteSet(runs')
  BY <1>1, <1>3, <1>4, FS_Union DEF SlotsInv
<1>6. IsFiniteSet(Rows')
  <2>1. S \subseteq Rows /\ Reaped \subseteq Rows
    BY DEF Claim, Fits, Claimable, Expired, Rows, Reaped
  <2>2. Rows' \subseteq Rows
    BY <2>1 DEF Rows, Claim
  <2> QED BY <2>2, FS_Subset DEF SlotsInv
<1>7. ASSUME NEW v \in Workers
      PROVE  /\ Cardinality(RunsOf(v)') <= Concurrency
             /\ WebhooksBusy(v)' <= WebhookSlots
  <2>1. CASE v # w
    <3>1. RunsOf(v)' = RunsOf(v)
      BY <1>2, <1>4, <2>1 DEF RunsOf
    <3> QED BY <3>1 DEF SlotsInv, SlotsRespected, WebhooksBusy
  <2>2. CASE v = w
    <3>1. RunsOf(w)' = RunsOf(w) \cup new(S) /\ WebhookRuns(w)' = WebhookRuns(w) \cup new(W)
      BY <1>2, <1>4 DEF RunsOf, WebhookRuns
    <3> HIDE DEF new, W
    <3>2. /\ IsFiniteSet(RunsOf(w)) /\ Cardinality(RunsOf(w)) \in Nat
          /\ IsFiniteSet(WebhookRuns(w)) /\ Cardinality(WebhookRuns(w)) \in Nat
      BY CountsAreNumbers DEF SlotsInv
    <3>3. /\ IsFiniteSet(new(S)) /\ Cardinality(new(S)) \in Nat
          /\ Cardinality(new(S)) <= Cardinality(S)
          /\ IsFiniteSet(new(W)) /\ Cardinality(new(W)) \in Nat
          /\ Cardinality(new(W)) <= Cardinality(W)
      BY <1>1, <1>3 DEF W
    <3>4. /\ Cardinality(S) <= Concurrency - Cardinality(RunsOf(w))
          /\ Cardinality(W) + Cardinality(WebhookRuns(w)) <= WebhookSlots
      BY DEF Claim, Fits, Free, WebhooksBusy, WebhookRuns, W
    <3>5. Concurrency \in Nat /\ WebhookSlots \in Nat
      BY QueueAssumption DEF WebhookSlots
    <3>6. /\ Cardinality(RunsOf(w) \cup new(S)) <= Cardinality(RunsOf(w)) + Cardinality(new(S))
          /\ Cardinality(RunsOf(w) \cup new(S)) \in Nat
      <4>1. /\ IsFiniteSet(RunsOf(w) \cup new(S)) /\ IsFiniteSet(RunsOf(w) \cap new(S))
            /\ Cardinality(RunsOf(w) \cup new(S)) =
                 Cardinality(RunsOf(w)) + Cardinality(new(S))
                 - Cardinality(RunsOf(w) \cap new(S))
        BY <3>2, <3>3, FS_Union, FS_Intersection
      <4>2. Cardinality(RunsOf(w) \cap new(S)) \in Nat
            /\ Cardinality(RunsOf(w) \cup new(S)) \in Nat
        BY <4>1, FS_CardinalityType
      <4> QED BY <3>2, <3>3, <4>1, <4>2
    <3>7. /\ Cardinality(WebhookRuns(w) \cup new(W))
               <= Cardinality(WebhookRuns(w)) + Cardinality(new(W))
          /\ Cardinality(WebhookRuns(w) \cup new(W)) \in Nat
      <4>1. /\ IsFiniteSet(WebhookRuns(w) \cup new(W))
            /\ IsFiniteSet(WebhookRuns(w) \cap new(W))
            /\ Cardinality(WebhookRuns(w) \cup new(W)) =
                 Cardinality(WebhookRuns(w)) + Cardinality(new(W))
                 - Cardinality(WebhookRuns(w) \cap new(W))
        BY <3>2, <3>3, FS_Union, FS_Intersection
      <4>2. Cardinality(WebhookRuns(w) \cap new(W)) \in Nat
            /\ Cardinality(WebhookRuns(w) \cup new(W)) \in Nat
        BY <4>1, FS_CardinalityType
      <4> QED BY <3>2, <3>3, <4>1, <4>2
    <3>8. WebhooksBusy(w)' = Cardinality(WebhookRuns(w)')
      BY DEF WebhooksBusy, WebhookRuns
    <3>9. Cardinality(RunsOf(w)') <= Concurrency
      BY <1>1, <3>1, <3>2, <3>3, <3>4, <3>5, <3>6
    <3>10. Cardinality(WebhookRuns(w)') <= WebhookSlots
      BY <1>1, <3>1, <3>2, <3>3, <3>4, <3>5, <3>7
    <3> QED BY <2>2, <3>8, <3>9, <3>10
  <2> QED BY <2>1, <2>2
<1> QED BY <1>5, <1>6, <1>7 DEF SlotsInv, SlotsRespected

LEMMA StepSlots ==
  ASSUME TypeOK, SlotsInv, [QueueNext]_queueVars
  PROVE  SlotsInv'
<1>1. ASSUME Rows' \subseteq Rows,
             NEW f \in [runs -> runs'], runs' \subseteq {f[r] : r \in runs},
             \A r \in runs : f[r].worker = r.worker /\ f[r].job = r.job
      PROVE  SlotsInv'
  <2>1. IsFiniteSet(Rows')
    BY <1>1, FS_Subset DEF SlotsInv
  <2> QED BY <1>1, <2>1, MovedRuns DEF SlotsInv
<1>2. ASSUME runs' \subseteq runs
      PROVE  IsFiniteSet(runs') /\ SlotsRespected'
  <2>1. IsFiniteSet(runs')
    BY <1>2, FS_Subset DEF SlotsInv
  <2>2. ASSUME NEW w \in Workers
        PROVE  /\ Cardinality(RunsOf(w)') <= Concurrency
               /\ WebhooksBusy(w)' <= WebhookSlots
    <3>1. /\ RunsOf(w)' \subseteq RunsOf(w) /\ WebhookRuns(w)' \subseteq WebhookRuns(w)
          /\ RunsOf(w)' \subseteq runs' /\ WebhookRuns(w)' \subseteq runs'
      BY <1>2 DEF RunsOf, WebhookRuns
    <3>2. /\ IsFiniteSet(RunsOf(w)) /\ Cardinality(RunsOf(w)) \in Nat
          /\ IsFiniteSet(WebhookRuns(w)) /\ Cardinality(WebhookRuns(w)) \in Nat
      BY CountsAreNumbers DEF SlotsInv
    <3>3. /\ Cardinality(RunsOf(w)') <= Cardinality(RunsOf(w))
          /\ Cardinality(WebhookRuns(w)') <= Cardinality(WebhookRuns(w))
          /\ Cardinality(RunsOf(w)') \in Nat /\ Cardinality(WebhookRuns(w)') \in Nat
      BY <2>1, <3>1, <3>2, FS_Subset, FS_CardinalityType
    <3>4. /\ Cardinality(RunsOf(w)) <= Concurrency
          /\ Cardinality(WebhookRuns(w)) <= WebhookSlots
      BY DEF SlotsInv, SlotsRespected, WebhooksBusy, WebhookRuns
    <3>5. Concurrency \in Nat /\ WebhookSlots \in Nat
      BY QueueAssumption DEF WebhookSlots
    <3> QED BY <3>2, <3>3, <3>4, <3>5 DEF WebhooksBusy, WebhookRuns
  <2> QED BY <2>1, <2>2 DEF SlotsRespected
<1>3. CASE JobStep
  <2> PICK j \in Jobs :
        Enqueue(j) \/ Restart(j) \/ OperatorCancel(j) \/ LeaseExpires(j)
    BY <1>3 DEF JobStep
  <2>1. Rows' \subseteq Rows \cup {j} /\ runs' = runs
    BY DEF Rows, TypeOK, Enqueue, EnqueuedRows, Restart, OperatorCancel, LeaseExpires
  <2>2. IsFiniteSet(Rows')
    <3>1. IsFiniteSet(Rows \cup {j})
      BY FS_AddElement DEF SlotsInv
    <3> QED BY <2>1, <3>1, FS_Subset
  <2> QED BY <1>2, <2>1, <2>2 DEF SlotsInv
<1>4. CASE ClaimStep
  BY <1>4, ClaimKeepsSlots DEF ClaimStep
<1>5. CASE ProcessStep
  <2> PICK w \in Workers : Crash(w) \/ Shutdown(w)
    BY <1>5 DEF ProcessStep
  <2>1. Rows' = Rows
    BY DEF Rows, Crash, Shutdown
  <2>2. CASE Crash(w)
    BY <1>2, <2>1, <2>2 DEF Crash, SlotsInv
  <2>3. CASE Shutdown(w)
    <3> DEFINE g(r) == IF r.worker = w THEN [r EXCEPT !.phase = "releasing"] ELSE r
               f == [r \in runs |-> g(r)]
    <3>1. \A r \in runs : g(r).worker = r.worker /\ g(r).job = r.job
      BY DEF TypeOK, Run
    <3>2. runs' = {g(r) : r \in runs}
      BY <2>3 DEF Shutdown
    <3> HIDE DEF g
    <3>3. f \in [runs -> runs'] /\ runs' \subseteq {f[r] : r \in runs}
      BY <3>2
    <3>4. \A r \in runs : f[r].worker = r.worker /\ f[r].job = r.job
      BY <3>1
    <3> HIDE DEF f
    <3> QED BY <1>1, <2>1, <3>3, <3>4
  <2> QED BY <2>2, <2>3
<1>6. CASE RunStep
  <2> PICK r \in runs :
        Finish(r) \/ Settle(r) \/ Abandon(r) \/ Heartbeat(r) \/ Release(r)
    BY <1>6 DEF RunStep
  <2>0. r \in Run /\ r.job \in Jobs
    BY DEF TypeOK, Run
  <2>1. CASE Finish(r)
    <3>1. PICK p : runs' = InPhase(r, p) /\ jobs' = jobs
      BY <2>1 DEF Finish, Handled
    <3> DEFINE moved == [r EXCEPT !.phase = p]
               f == [q \in runs |-> IF q = r THEN moved ELSE q]
    <3>2. moved.worker = r.worker /\ moved.job = r.job
      BY <2>0 DEF Run
    <3>3. runs' = (runs \ {r}) \cup {moved} /\ Rows' = Rows
      BY <3>1 DEF InPhase, Rows
    <3> HIDE DEF moved
    <3>4. f \in [runs -> runs'] /\ runs' \subseteq {f[q] : q \in runs}
      <4>1. f[r] = moved /\ \A q \in runs \ {r} : f[q] = q
        OBVIOUS
      <4> QED BY <3>3, <4>1
    <3>5. \A q \in runs : f[q].worker = q.worker /\ f[q].job = q.job
      BY <3>2
    <3> HIDE DEF f
    <3> QED BY <1>1, <3>3, <3>4, <3>5
  <2>2. CASE ~Finish(r)
    <3>1. runs' \subseteq runs
      BY <2>2 DEF Settle, Abandon, Heartbeat, Release
    <3>2. Rows' \subseteq Rows \cup {r.job}
      BY <2>0, <2>2 DEF Rows, TypeOK, Settle, Abandon, Heartbeat, Release
    <3>3. IsFiniteSet(Rows')
      <4>1. IsFiniteSet(Rows \cup {r.job})
        BY FS_AddElement DEF SlotsInv
      <4> QED BY <3>2, <4>1, FS_Subset
    <3> QED BY <1>2, <3>1, <3>3 DEF SlotsInv
  <2> QED BY <2>1, <2>2
<1>7. CASE UNCHANGED queueVars
  <2>1. Rows' = Rows /\ runs' = runs
    BY <1>7 DEF queueVars, Rows
  <2> QED BY <1>2, <2>1 DEF SlotsInv
<1> QED BY <1>3, <1>4, <1>5, <1>6, <1>7, StepCases

LEMMA SlotsAtFirst ==
  ASSUME QueueInit
  PROVE  SlotsInv
<1>1. Rows = {} /\ runs = {}
  BY DEF QueueInit, Rows
<1>2. \A w : RunsOf(w) = {} /\ WebhooksBusy(w) = 0 /\ Cardinality(RunsOf(w)) = 0
  BY <1>1, FS_EmptySet DEF RunsOf, WebhooksBusy
<1>3. Concurrency >= 0 /\ WebhookSlots >= 0
  BY QueueAssumption DEF WebhookSlots
<1> QED BY <1>1, <1>2, <1>3, FS_EmptySet DEF SlotsInv, SlotsRespected

\* A runner never runs more jobs than it has slots, nor more webhook deliveries
\* than their half, whatever ends or is claimed in between.
THEOREM SlotsAreRespected == QueueSpec => []SlotsRespected
<1>1. TypeOK /\ SlotsInv /\ [QueueNext]_queueVars => SlotsInv'
  BY StepSlots
<1>2. SlotsInv => SlotsRespected
  BY DEF SlotsInv
<1> QED BY <1>1, <1>2, SlotsAtFirst, TypeCorrect, PTL DEF QueueSpec

-----------------------------------------------------------------------------
(* When heartbeats get through: one handler per job. *)

\* A run belongs to a process that still exists, and is being handed back
\* exactly when that process is stopping.
RunFollowsProcess(r) ==
  /\ process[r.worker] # "gone"
  /\ r.phase = "releasing" <=> process[r.worker] = "stopping"

\* A run that is not being handed back holds its row, with a live lease, as the
\* latest claim left it.
RunOwnsRow(r) ==
  /\ jobs[r.job].status = "running"
  /\ jobs[r.job].lockedBy = r.worker
  /\ jobs[r.job].lease = "live"
  /\ r.attempt = jobs[r.job].attempts
  /\ r.claim = claims[r.job]

\* Why OneRunPerJob is inductive: claims number the runs of a job, so the one
\* that carries the latest number is alone.
RunsInv ==
  /\ \A r \in runs : /\ r.claim <= claims[r.job]
                     /\ RunFollowsProcess(r)
                     /\ r.phase # "releasing" => RunOwnsRow(r)
                     /\ r.phase = "retrying" => r.attempt < MaxAttempts
  /\ \A r1, r2 \in runs : r1.job = r2.job /\ r1.claim = r2.claim => r1 = r2

\* A step that only writes rows no running handler owns.
LEMMA RowWriteKeepsRuns ==
  ASSUME TypeOK, RunsInv, UNCHANGED <<claims, process>>, runs' \subseteq runs,
         \A q \in runs' : q.phase # "releasing" => jobs'[q.job] = jobs[q.job]
  PROVE  RunsInv'
  BY DEF RunsInv, RunFollowsProcess, RunOwnsRow

LEMMA JobStepKeepsRuns ==
  ASSUME HeartbeatsMayStall = FALSE, TypeOK, RunsInv, JobStep
  PROVE  RunsInv'
<1> PICK j \in Jobs :
      Enqueue(j) \/ Restart(j) \/ OperatorCancel(j) \/ LeaseExpires(j)
  BY DEF JobStep
<1>1. UNCHANGED <<runs, claims, process>>
  BY DEF Enqueue, Restart, OperatorCancel, LeaseExpires
<1>2. \A k \in Jobs \ {j} : jobs'[k] = jobs[k]
  BY DEF TypeOK, Enqueue, EnqueuedRows, Restart, OperatorCancel, LeaseExpires
<1>3. ASSUME NEW q \in runs, q.phase # "releasing", q.job = j
      PROVE  FALSE
  <2>1. /\ jobs[j].status = "running"
        /\ jobs[j].lockedBy = q.worker
        /\ jobs[j].lease = "live"
    BY <1>3 DEF RunsInv, RunOwnsRow
  <2> QED BY <2>1, <1>3
          DEF Enqueue, Restart, OperatorCancel, Expired, LeaseExpires
<1> QED BY <1>1, <1>2, <1>3, RowWriteKeepsRuns DEF TypeOK, Run

LEMMA ClaimKeepsRuns ==
  ASSUME TypeOK, RunsInv, NEW w \in Workers, NEW S \in SUBSET Jobs, Claim(w, S)
  PROVE  RunsInv'
<1> DEFINE new == {NewRun(j, w) : j \in S}
<1>1. /\ runs' = runs \cup new
      /\ process' = process
      /\ process[w] = "up"
      /\ \A j \in Jobs : claims'[j] = IF j \in S THEN claims[j] + 1 ELSE claims[j]
  BY DEF Claim
<1>2. \A j \in Jobs : claims[j] \in Nat /\ claims'[j] >= claims[j]
  BY <1>1 DEF TypeOK
<1>3. ASSUME NEW r \in runs
      PROVE  /\ r.claim <= claims'[r.job]
             /\ RunFollowsProcess(r)'
             /\ r.phase # "releasing" => RunOwnsRow(r)'
             /\ r.phase = "retrying" => r.attempt < MaxAttempts
  <2>1. r.job \in Jobs /\ r.claim \in Nat /\ r.claim <= claims[r.job]
    BY DEF TypeOK, Run, RunsInv
  <2>2. r.claim <= claims'[r.job]
    BY <1>1, <1>2, <2>1
  <2>3. ASSUME r.phase # "releasing" PROVE RunOwnsRow(r)'
    <3>1. RunOwnsRow(r)
      BY <2>3 DEF RunsInv
    <3>2. r.job \notin S /\ r.job \notin Reaped
      BY <3>1 DEF RunOwnsRow, Claim, Fits, Claimable, Expired, Reaped
    <3>3. jobs'[r.job] = jobs[r.job] /\ claims'[r.job] = claims[r.job]
      BY <3>2, <2>1 DEF Claim
    <3> QED BY <3>1, <3>3 DEF RunOwnsRow
  <2> QED BY <1>1, <2>2, <2>3 DEF RunsInv, RunFollowsProcess
<1>4. ASSUME NEW r \in new
      PROVE  /\ r.job \in S /\ r = NewRun(r.job, w)
             /\ r.claim = claims'[r.job] /\ r.claim = claims[r.job] + 1
             /\ RunFollowsProcess(r)'
             /\ r.phase = "handling"
             /\ RunOwnsRow(r)'
  <2>1. PICK j \in S : r = NewRun(j, w)
    OBVIOUS
  <2>2. /\ r.job = j
        /\ r.claim = claims[j] + 1
        /\ r.worker = w
        /\ r.attempt = jobs[j].attempts + 1
        /\ r.phase = "handling"
    BY <2>1 DEF NewRun
  <2>3. jobs'[j] = ClaimedRow(jobs[j], w)
    BY QueueAssumption DEF Claim, Fits, Claimable, Reaped, TypeOK, JobRow
  <2>4. RunOwnsRow(r)'
    BY <2>2, <2>3, <1>1, RowFields DEF RunOwnsRow, TypeOK
  <2> QED BY <2>1, <2>2, <2>4, <1>1 DEF RunFollowsProcess
<1> HIDE DEF new
<1>5. \A r \in new : r.claim <= claims'[r.job]
  BY <1>2, <1>4 DEF TypeOK
<1>6. ASSUME NEW r1 \in runs', NEW r2 \in runs',
             r1.job = r2.job, r1.claim = r2.claim
      PROVE  r1 = r2
  <2>1. \A r \in runs : r.claim < claims[r.job] + 1
    BY <1>2 DEF TypeOK, Run, RunsInv
  <2>2. CASE r1 \in runs /\ r2 \in runs
    BY <2>2, <1>6 DEF RunsInv
  <2>3. CASE r1 \in new /\ r2 \in new
    BY <2>3, <1>4, <1>6
  <2>4. ASSUME NEW q1 \in runs, NEW q2 \in new, q1.job = q2.job, q1.claim = q2.claim
        PROVE  FALSE
    <3>1. q1.claim \in Nat /\ claims[q1.job] \in Nat
      BY <1>2 DEF TypeOK, Run
    <3> QED BY <3>1, <2>1, <2>4, <1>4
  <2> QED BY <2>2, <2>3, <2>4, <1>1, <1>6
<1> QED BY <1>1, <1>3, <1>4, <1>5, <1>6 DEF RunsInv

LEMMA ProcessStepKeepsRuns ==
  ASSUME TypeOK, RunsInv, ProcessStep
  PROVE  RunsInv'
<1> PICK w \in Workers : Crash(w) \/ Shutdown(w)
  BY DEF ProcessStep
<1>1. CASE Crash(w)
  BY <1>1 DEF Crash, RunsOf, TypeOK, RunsInv, RunFollowsProcess, RunOwnsRow
<1>2. CASE Shutdown(w)
  <2> DEFINE stopped(r) ==
        IF r.worker = w THEN [r EXCEPT !.phase = "releasing"] ELSE r
  <2>1. /\ runs' = {stopped(r) : r \in runs}
        /\ process' = [process EXCEPT ![w] = "stopping"]
        /\ UNCHANGED <<jobs, claims>>
    BY <1>2 DEF Shutdown
  <2>2. ASSUME NEW r \in runs
        PROVE  /\ stopped(r).job = r.job
               /\ stopped(r).claim = r.claim
               /\ stopped(r).attempt = r.attempt
               /\ stopped(r).worker = r.worker
               /\ stopped(r).phase = IF r.worker = w THEN "releasing" ELSE r.phase
    BY DEF TypeOK, Run
  <2> HIDE DEF stopped
  <2>3. ASSUME NEW r \in runs
        PROVE  /\ RunFollowsProcess(stopped(r))'
               /\ stopped(r).phase # "releasing" => RunOwnsRow(stopped(r))'
    BY <2>1, <2>2 DEF TypeOK, Run, RunsInv, RunFollowsProcess, RunOwnsRow
  <2> QED BY <2>1, <2>2, <2>3 DEF RunsInv
<1> QED BY <1>1, <1>2

LEMMA RunStepKeepsRuns ==
  ASSUME TypeOK, LeaseMatchesStatus, RunsInv, RunStep
  PROVE  RunsInv'
<1> PICK r \in runs :
      Finish(r) \/ Settle(r) \/ Abandon(r) \/ Heartbeat(r) \/ Release(r)
  BY DEF RunStep
<1>0. r \in Run /\ r.job \in Jobs
  BY DEF TypeOK, Run
<1>1. CASE Finish(r)
  <2>1. PICK p \in Phase \ {"releasing"} :
          /\ r.phase = "handling"
          /\ runs' = (runs \ {r}) \cup {[r EXCEPT !.phase = p]}
          /\ UNCHANGED <<jobs, claims, process>>
          /\ p = "retrying" => r.attempt < MaxAttempts
    BY <1>1 DEF Finish, Handled, InPhase, AfterFailure, Phase
  <2> DEFINE moved == [r EXCEPT !.phase = p]
  <2>2. /\ moved.job = r.job
        /\ moved.claim = r.claim
        /\ moved.attempt = r.attempt
        /\ moved.worker = r.worker
        /\ moved.phase = p
    BY <1>0 DEF Run
  <2>3. runs' = (runs \ {r}) \cup {moved}
    BY <2>1
  <2> HIDE DEF moved
  <2>4. RunFollowsProcess(moved)' /\ RunOwnsRow(moved)'
    BY <2>1, <2>2 DEF RunsInv, RunFollowsProcess, RunOwnsRow
  <2>5. \A q \in runs : RunFollowsProcess(q)' /\ (RunOwnsRow(q) => RunOwnsRow(q)')
    BY <2>1 DEF RunsInv, RunFollowsProcess, RunOwnsRow
  <2> QED BY <2>1, <2>2, <2>3, <2>4, <2>5 DEF RunsInv
<1>2. CASE Settle(r)
  <2>1. r.phase # "releasing" /\ RunOwnsRow(r)
    BY <1>2 DEF Settle, Written, RunsInv
  <2>2. \A q \in runs \ {r} : q.phase # "releasing" => q.job # r.job
    BY <2>1 DEF RunsInv, RunOwnsRow
  <2> QED BY <2>2, <1>2, RowWriteKeepsRuns DEF Settle, TypeOK
<1>3. CASE Abandon(r)
  BY <1>3, RowWriteKeepsRuns DEF Abandon
<1>4. CASE Heartbeat(r)
  BY <1>4 DEF Heartbeat, RunsInv, RunOwnsRow
<1>5. CASE Release(r)
  <2>1. ASSUME NEW q \in runs, q.phase # "releasing", q.job = r.job, Holds(r)
        PROVE  FALSE
    <3>1. q.worker = r.worker
      BY <2>1 DEF Holds, Owns, RunsInv, RunOwnsRow
    <3> QED BY <2>1, <3>1, <1>5 DEF Release, RunsInv, RunFollowsProcess
  <2> QED BY <2>1, <1>5, RowWriteKeepsRuns DEF Release, TypeOK
<1> QED BY <1>1, <1>2, <1>3, <1>4, <1>5

\* RunsInv, as an invariant of its own: the theorems above and below share it.
LEMMA RunsInvariant ==
  ASSUME HeartbeatsMayStall = FALSE
  PROVE  QueueSpec => []RunsInv
<1>1. QueueInit => RunsInv
  BY DEF QueueInit, RunsInv
<1>2. TypeOK /\ LeaseMatchesStatus /\ RunsInv /\ [QueueNext]_queueVars => RunsInv'
  <2>1. ASSUME UNCHANGED queueVars, RunsInv PROVE RunsInv'
    BY <2>1 DEF queueVars, RunsInv, RunFollowsProcess, RunOwnsRow
  <2> QED BY <2>1, StepCases, JobStepKeepsRuns, ClaimKeepsRuns,
             ProcessStepKeepsRuns, RunStepKeepsRuns DEF ClaimStep
<1> QED BY <1>1, <1>2, TypeCorrect, LeasesMatch, PTL DEF QueueSpec

\* As long as heartbeats get through, no two processes ever run handlers of one
\* job at the same time, and a running handler owns its row.
THEOREM OneRun ==
  ASSUME HeartbeatsMayStall = FALSE
  PROVE  QueueSpec => []OneRunPerJob
<1>1. RunsInv => OneRunPerJob
  BY DEF RunsInv, RunOwnsRow, OneRunPerJob, Holds, Owns
<1> QED BY <1>1, RunsInvariant, PTL

LEMMA StepClaimable ==
  ASSUME TypeOK, LeaseMatchesStatus, RunsInv, QueuedIsClaimable,
         [QueueNext]_queueVars
  PROVE  QueuedIsClaimable'
<1> SUFFICES ASSUME NEW k \in Jobs, jobs'[k].status = "queued"
             PROVE  jobs'[k].attempts < MaxAttempts
  BY DEF QueuedIsClaimable
<1>0. jobs[k] \in JobRow /\ jobs[k].attempts \in Nat /\ MaxAttempts > 0
  BY QueueAssumption DEF TypeOK, JobRow
<1>1. CASE jobs'[k] = jobs[k]
  BY <1>1 DEF QueuedIsClaimable
<1>2. CASE jobs'[k] = Fresh(jobs[k])
  BY <1>0, <1>2, RowFields
<1>3. CASE jobs'[k] = ReleasedRow(jobs[k]) /\ jobs[k].status = "running"
  <2>1. jobs[k].attempts \in 1 .. MaxAttempts
    BY <1>3 DEF LeaseMatchesStatus
  <2>2. jobs'[k].attempts = jobs[k].attempts - 1
    BY <1>0, <1>3, <2>1, RowFields, QueueAssumption
  <2> QED BY <2>1, <2>2, QueueAssumption
<1>4. CASE \E r \in runs : Settle(r) /\ Owns(r) /\ r.job = k
  <2> PICK r \in runs : Settle(r) /\ Owns(r) /\ r.job = k
    BY <1>4
  <2>1. jobs'[k] = Unlocked(jobs[k], Written[r.phase]) /\ Written[r.phase] \in Status
    BY DEF Settle, TypeOK, Written, Status
  <2>2. Written[r.phase] = "queued" /\ jobs'[k].attempts = jobs[k].attempts
    BY <2>1, <1>0, RowFields
  <2>3. r.phase = "retrying"
    BY <2>2 DEF Settle, Written
  <2> QED BY <2>2, <2>3 DEF RunsInv, RunOwnsRow
<1>5. CASE RunStep /\ jobs'[k] # jobs[k]
  <2> PICK r \in runs :
        Finish(r) \/ Settle(r) \/ Abandon(r) \/ Heartbeat(r) \/ Release(r)
    BY <1>5 DEF RunStep
  <2>1. CASE Heartbeat(r)
    BY <2>1, <1>0, <1>5 DEF Heartbeat, Holds, TypeOK, JobRow
  <2>2. CASE Settle(r)
    BY <2>2, <1>4, <1>5 DEF Settle, TypeOK
  <2>3. CASE Release(r)
    BY <2>3, <1>3, <1>5 DEF Release, Holds, TypeOK
  <2>4. CASE Finish(r) \/ Abandon(r)
    BY <2>4, <1>5 DEF Finish, Handled, Abandon
  <2> QED BY <2>1, <2>2, <2>3, <2>4
<1>6. CASE JobStep /\ jobs'[k] # jobs[k]
  <2> PICK j \in Jobs :
        Enqueue(j) \/ Restart(j) \/ OperatorCancel(j) \/ LeaseExpires(j)
    BY <1>6 DEF JobStep
  <2>1. CASE Enqueue(j) \/ Restart(j)
    BY <2>1, <1>2, <1>6 DEF Enqueue, EnqueuedRows, Restart, TypeOK
  <2>2. CASE OperatorCancel(j)
    BY <2>2, <1>0, <1>6, RowFields DEF OperatorCancel, TypeOK, Status
  <2>3. CASE LeaseExpires(j)
    BY <2>3, <1>0, <1>6 DEF LeaseExpires, LeaseMatchesStatus, TypeOK, JobRow
  <2> QED BY <2>1, <2>2, <2>3
<1>7. CASE ClaimStep /\ jobs'[k] # jobs[k]
  <2> PICK w \in Workers, S \in SUBSET Jobs : Claim(w, S)
    BY <1>7 DEF ClaimStep
  <2>1. \/ jobs'[k] = Unlocked(jobs[k], "failed")
        \/ jobs'[k] = ClaimedRow(jobs[k], w)
    BY <1>7 DEF Claim
  <2> QED BY <2>1, <1>0, RowFields DEF Status
<1> QED
  BY <1>1, <1>5, <1>6, <1>7, StepCases
     DEF queueVars, ProcessStep, Crash, Shutdown

\* As long as heartbeats get through, a queued job always has budget left, so
\* some poll can claim it: no job is stuck in the queue.
THEOREM QueuedClaimable ==
  ASSUME HeartbeatsMayStall = FALSE
  PROVE  QueueSpec => []QueuedIsClaimable
<1>1. QueueInit => QueuedIsClaimable
  BY DEF QueueInit, QueuedIsClaimable
<1> QED BY <1>1, StepClaimable, RunsInvariant, TypeCorrect, LeasesMatch, PTL
        DEF QueueSpec
=============================================================================
