------------------------ MODULE WebhookDeliveryProofs ------------------------
(***************************************************************************)
(* What WebhookDelivery guarantees for any number of deliveries, workers   *)
(* and attempts, whatever the heartbeats do and whoever interferes.        *)
(***************************************************************************)
EXTENDS WebhookDelivery, WorkflowQueueProofs

-----------------------------------------------------------------------------
(* Claims name runs: what relates a handler's steps to the run it serves.  *)

RunsNamed ==
  /\ \A r \in runs : r.claim <= claims[r.job]
  /\ \A r1, r2 \in runs : r1.job = r2.job /\ r1.claim = r2.claim => r1 = r2

SameRun(q, r) == q.job = r.job /\ q.claim = r.claim /\ q.attempt = r.attempt

\* Where the runs after a step of the queue come from, and what it does to the
\* claim counts.
Evolve ==
  \/ /\ \A q \in runs' : \E r \in runs : SameRun(q, r)
     /\ claims' = claims
  \/ \E w \in Workers, S \in SUBSET Jobs : Claim(w, S)

\* Every step of the queue but a claim keeps or drops runs.
LEMMA RunsEvolve ==
  ASSUME TypeOK, [QueueNext]_queueVars
  PROVE  Evolve
<1>1. CASE JobStep
  BY <1>1 DEF JobStep, Enqueue, Restart, OperatorCancel, LeaseExpires, Evolve,
              SameRun
<1>2. CASE ClaimStep
  BY <1>2 DEF ClaimStep, Evolve
<1>3. CASE ProcessStep
  <2> PICK w \in Workers : Crash(w) \/ Shutdown(w)
    BY <1>3 DEF ProcessStep
  <2>1. CASE Crash(w)
    BY <2>1 DEF Crash, Evolve, SameRun
  <2>2. CASE Shutdown(w)
    BY <2>2 DEF Shutdown, Evolve, SameRun, TypeOK, Run
  <2> QED BY <2>1, <2>2
<1>4. CASE RunStep
  <2> PICK r \in runs :
        Finish(r) \/ Settle(r) \/ Abandon(r) \/ Heartbeat(r) \/ Release(r)
    BY <1>4 DEF RunStep
  <2>1. CASE Finish(r)
    BY <2>1 DEF Finish, Handled, InPhase, Evolve, SameRun, TypeOK, Run
  <2>2. CASE Settle(r) \/ Abandon(r) \/ Heartbeat(r) \/ Release(r)
    BY <2>2 DEF Settle, Abandon, Heartbeat, Release, Evolve, SameRun
  <2> QED BY <2>1, <2>2
<1>5. CASE UNCHANGED queueVars
  BY <1>5 DEF queueVars, Evolve, SameRun
<1> QED BY <1>1, <1>2, <1>3, <1>4, <1>5, StepCases

\* A claim adds runs under fresh names.
LEMMA ClaimKeepsNames ==
  ASSUME TypeOK, RunsNamed, NEW w \in Workers, NEW S \in SUBSET Jobs, Claim(w, S)
  PROVE  RunsNamed'
<1>1. runs' = runs \cup {NewRun(j, w) : j \in S}
  BY DEF Claim
<1>2. /\ \A j \in S : claims'[j] = claims[j] + 1
      /\ \A j \in Jobs : claims'[j] >= claims[j] /\ claims[j] \in Nat
  BY DEF Claim, TypeOK
<1>3. \A j \in S : NewRun(j, w).job = j /\ NewRun(j, w).claim = claims[j] + 1
  BY DEF NewRun
<1>4. \A r \in runs : r.job \in Jobs /\ r.claim \in Nat /\ r.claim <= claims[r.job]
  BY DEF TypeOK, Run, RunsNamed
<1>5. \A r \in runs' : r.claim <= claims'[r.job]
  <2>1. \A r \in runs : r.claim <= claims'[r.job]
    <3> TAKE r \in runs
    <3>1. claims' \in [Jobs -> Nat]
      BY DEF Claim, TypeOK
    <3> QED BY <1>2, <1>4, <3>1
  <2>2. \A j \in S : NewRun(j, w).claim <= claims'[NewRun(j, w).job]
    BY <1>2, <1>3
  <2> QED BY <1>1, <2>1, <2>2
<1>6. ASSUME NEW r1 \in runs', NEW r2 \in runs',
             r1.job = r2.job, r1.claim = r2.claim
      PROVE  r1 = r2
  BY <1>1, <1>2, <1>3, <1>4, <1>6 DEF RunsNamed
<1> QED BY <1>5, <1>6 DEF RunsNamed

\* Runs keep their names.
LEMMA StepKeepsNames ==
  ASSUME TypeOK, RunsNamed, [QueueNext]_queueVars
  PROVE  RunsNamed'
<1>1. CASE JobStep
  BY <1>1 DEF JobStep, Enqueue, Restart, OperatorCancel, LeaseExpires, RunsNamed
<1>2. CASE ClaimStep
  BY <1>2, ClaimKeepsNames DEF ClaimStep
<1>3. CASE ProcessStep
  <2> PICK w \in Workers : Crash(w) \/ Shutdown(w)
    BY <1>3 DEF ProcessStep
  <2>1. CASE Crash(w)
    BY <2>1 DEF Crash, RunsNamed
  <2>2. CASE Shutdown(w)
    <3> DEFINE hit(r) == IF r.worker = w THEN [r EXCEPT !.phase = "releasing"] ELSE r
    <3>1. runs' = {hit(r) : r \in runs} /\ claims' = claims
      BY <2>2 DEF Shutdown
    <3>2. \A r \in runs : hit(r).job = r.job /\ hit(r).claim = r.claim
      BY DEF TypeOK, Run
    <3> HIDE DEF hit
    <3> QED BY <3>1, <3>2 DEF RunsNamed
  <2> QED BY <2>1, <2>2
<1>4. CASE RunStep
  <2> PICK r \in runs :
        Finish(r) \/ Settle(r) \/ Abandon(r) \/ Heartbeat(r) \/ Release(r)
    BY <1>4 DEF RunStep
  <2>1. CASE Finish(r)
    <3>1. PICK p \in Phase : runs' = InPhase(r, p) /\ claims' = claims
      BY <2>1 DEF Finish, Handled, AfterFailure, Phase
    <3>2. /\ [r EXCEPT !.phase = p].job = r.job
          /\ [r EXCEPT !.phase = p].claim = r.claim
      BY DEF TypeOK, Run
    <3>3. ASSUME NEW q \in runs' PROVE \E o \in runs :
            /\ q.job = o.job /\ q.claim = o.claim
            /\ q = IF o = r THEN [r EXCEPT !.phase = p] ELSE o
      BY <3>1, <3>2 DEF InPhase
    <3> QED BY <3>1, <3>3 DEF RunsNamed
  <2>2. CASE Settle(r) \/ Abandon(r) \/ Heartbeat(r) \/ Release(r)
    BY <2>2 DEF Settle, Abandon, Heartbeat, Release, RunsNamed
  <2> QED BY <2>1, <2>2
<1>5. CASE UNCHANGED queueVars
  BY <1>5 DEF queueVars, RunsNamed
<1> QED BY <1>1, <1>2, <1>3, <1>4, <1>5, StepCases

-----------------------------------------------------------------------------
(* The delivery system runs on the queue. *)

StepsFollow ==
  \A s \in steps :
    /\ s.claim <= claims[s.job]
    /\ \A r \in runs : r.job = s.job /\ r.claim = s.claim => r.attempt = s.attempt

\* What a handler may return to the runner.
MayReturn(s, phase) ==
  phase = "completing" \/ \E retryable \in BOOLEAN : phase = AfterFailure(s, retryable)

LEMMA ReturnsIsQueueStep ==
  ASSUME RunsNamed, StepsFollow, NEW s \in steps, NEW phase,
         MayReturn(s, phase), Returns(s, phase)
  PROVE  [QueueNext]_queueVars
<1>1. CASE Handling(s) = {}
  BY <1>1 DEF Returns, queueVars
<1>2. CASE Handling(s) # {}
  <2>1. PICK r \in runs : r \in Handling(s)
    BY <1>2 DEF Handling
  <2>2. r.job = s.job /\ r.claim = s.claim /\ r.phase = "handling"
    BY <2>1 DEF Handling
  <2>3. Handling(s) = {r}
    BY <2>1, <2>2 DEF Handling, RunsNamed
  <2>4. r.attempt = s.attempt
    BY <2>2 DEF StepsFollow
  <2>5. phase = "completing" \/ \E retryable \in BOOLEAN :
                                  phase = AfterFailure(r, retryable)
    BY <2>4 DEF MayReturn, AfterFailure
  <2>6. Handled(r, phase)
    BY <2>2, <2>3 DEF Returns, Handled, InPhase
  <2> QED BY <2>5, <2>6 DEF Finish, QueueNext
<1> QED BY <1>1, <1>2

\* Handlers write their delivery and hand an outcome to the runner.
LEMMA HandlerIsQueueStep ==
  ASSUME RunsNamed, StepsFollow, NEW s \in steps, HandlerStep(s)
  PROVE  [QueueNext]_queueVars
<1>1. ASSUME NEW phase, MayReturn(s, phase), Returns(s, phase)
      PROVE  [QueueNext]_queueVars
  BY <1>1, ReturnsIsQueueStep
<1>2. MayReturn(s, "completing") /\ \A b \in BOOLEAN : MayReturn(s, AfterFailure(s, b))
  BY DEF MayReturn
<1>3. CASE Load(s)
  <2>1. \/ Returns(s, AfterFailure(s, TRUE)) \/ Returns(s, AfterFailure(s, FALSE))
        \/ Returns(s, "completing") \/ UNCHANGED queueVars
    BY <1>3 DEF Load, Advances
  <2> QED BY <2>1, <1>1, <1>2
<1>4. CASE Post(s)
  BY <1>4 DEF Post, Advances
<1>5. CASE RecordAttempt(s)
  <2>1. Returns(s, AfterAttempt(s))
    BY <1>5 DEF RecordAttempt
  <2>2. MayReturn(s, AfterAttempt(s))
    BY <1>2 DEF AfterAttempt
  <2> QED BY <2>1, <2>2, <1>1
<1>6. CASE CancelDelivery(s)
  BY <1>6, <1>1, <1>2 DEF CancelDelivery
<1>7. CASE WriteFails(s)
  BY <1>7, <1>1, <1>2 DEF WriteFails
<1> QED BY <1>3, <1>4, <1>5, <1>6, <1>7 DEF HandlerStep

\* Enqueueing an existing job changes no row.
LEMMA EnqueuedIsQueueStep ==
  ASSUME TypeOK, NEW d \in Jobs, jobs' = EnqueuedRows({d}),
         UNCHANGED <<runs, claims, process, exits, restarts>>
  PROVE  [QueueNext]_queueVars
<1>1. CASE jobs[d].status = "absent"
  BY <1>1 DEF QueueNext, Enqueue
<1>2. CASE jobs[d].status # "absent"
  <2>1. jobs' = jobs
    BY <1>2 DEF EnqueuedRows, TypeOK
  <2> QED BY <2>1 DEF queueVars
<1> QED BY <1>1, <1>2

\* A step is a step of the queue, or a job row disappears.
LEMMA StepIsQueueStep ==
  ASSUME TypeOK, stalled \in SUBSET [job : Jobs, status : {"absent", "failed"}],
         RunsNamed, StepsFollow, [Next]_vars
  PROVE  [QueueNext]_queueVars \/ \E d \in Jobs : LoseJob(d)
<1>1. ASSUME NEW d \in Jobs, Schedule(d) PROVE [QueueNext]_queueVars
  BY <1>1, EnqueuedIsQueueStep DEF Schedule
<1>2. ASSUME NEW d \in Jobs, Redeliver(d) \/ RetryDelivery(d)
      PROVE  [QueueNext]_queueVars
  <2>1. Redrive(d)
    BY <1>2 DEF Redeliver, RetryDelivery
  <2>2. CASE Restart(d)
    BY <2>2 DEF QueueNext
  <2>3. CASE EnqueueJob(d) /\ UNCHANGED restarts
    BY <2>3, EnqueuedIsQueueStep DEF EnqueueJob
  <2> QED BY <2>1, <2>2, <2>3 DEF Redrive
<1>3. ASSUME NEW d \in Jobs, LeaseEnds(d) \/ CancelJob(d)
      PROVE  [QueueNext]_queueVars
  BY <1>3 DEF LeaseEnds, CancelJob, QueueNext
<1>4. ASSUME NEW d \in Jobs,
             \/ SwitchEndpoint(d) \/ DeleteInvoice(d) \/ EmptyJob(d) \/ EmptyDelivery(d)
      PROVE  [QueueNext]_queueVars
  BY <1>4 DEF SwitchEndpoint, DeleteInvoice, EmptyJob, EmptyDelivery, queueVars
<1>5. ASSUME NEW w \in Workers, ClaimDeliveries(w) PROVE [QueueNext]_queueVars
  <2> PICK S \in SUBSET Jobs : Claim(w, S)
    BY <1>5 DEF ClaimDeliveries
  <2>1. Poll(w)
    BY DEF Poll
  <2> QED BY <2>1 DEF QueueNext
<1>6. ASSUME NEW w \in Workers, ProcessCrash(w) \/ ProcessShutdown(w)
      PROVE  [QueueNext]_queueVars
  BY <1>6 DEF ProcessCrash, ProcessShutdown, QueueNext
<1>7. ASSUME NEW s \in steps, HandlerStep(s) PROVE [QueueNext]_queueVars
  BY <1>7, HandlerIsQueueStep
<1>8. ASSUME NEW r \in runs, RunEnds(r) \/ LeaseRenewed(r)
      PROVE  [QueueNext]_queueVars
  BY <1>8 DEF RunEnds, LeaseRenewed, QueueNext
<1>9. CASE ListStalled
  BY <1>9 DEF ListStalled
<1>10. ASSUME NEW x \in stalled, SettleStalled(x) PROVE [QueueNext]_queueVars
  <2>1. x.job \in Jobs
    OBVIOUS
  <2>2. CASE FailStalled(x.job)
    BY <2>2 DEF FailStalled
  <2>3. CASE EnqueueJob(x.job) /\ UNCHANGED restarts
    BY <2>1, <2>3, EnqueuedIsQueueStep DEF EnqueueJob
  <2> QED BY <1>10, <2>2, <2>3 DEF SettleStalled
<1>11. CASE UNCHANGED vars
  BY <1>11 DEF vars
<1> QED
  BY <1>1, <1>2, <1>3, <1>4, <1>5, <1>6, <1>7, <1>8, <1>9, <1>10, <1>11 DEF Next

\* Handlers keep the claim they work for; a claim starts the only new ones.
SameHandler(t, s) == t.job = s.job /\ t.claim = s.claim /\ t.attempt = s.attempt

LEMMA StepsEvolve ==
  ASSUME steps \in SUBSET Step, [Next]_vars
  PROVE  \/ \A t \in steps' : \E s \in steps : SameHandler(t, s)
         \/ \E w \in Workers, S \in SUBSET Jobs :
              /\ Claim(w, S)
              /\ steps' = steps \cup {StartStep(d, w) : d \in S}
<1> DEFINE Kept == \A t \in steps' : \E s \in steps : SameHandler(t, s)
<1>0. ASSUME steps' \subseteq steps PROVE Kept
  BY <1>0 DEF SameHandler
<1>1. ASSUME NEW d \in Jobs,
             \/ Schedule(d) \/ Redeliver(d) \/ RetryDelivery(d) \/ LeaseEnds(d)
             \/ CancelJob(d) \/ LoseJob(d) \/ SwitchEndpoint(d)
             \/ DeleteInvoice(d) \/ EmptyJob(d) \/ EmptyDelivery(d)
      PROVE  Kept
  BY <1>0, <1>1 DEF Schedule, Redeliver, RetryDelivery, Redrive, LeaseEnds, CancelJob,
       LoseJob, SwitchEndpoint, DeleteInvoice, EmptyJob, EmptyDelivery
<1>2. ASSUME NEW w \in Workers, ClaimDeliveries(w)
      PROVE  \E S \in SUBSET Jobs :
               Claim(w, S) /\ steps' = steps \cup {StartStep(d, w) : d \in S}
  BY <1>2 DEF ClaimDeliveries
<1>3. ASSUME NEW w \in Workers, ProcessCrash(w) \/ ProcessShutdown(w) PROVE Kept
  BY <1>0, <1>3 DEF ProcessCrash, ProcessShutdown, Interrupt
<1>4. ASSUME NEW s \in steps, HandlerStep(s) PROVE Kept
  <2>1. CASE \E phase : Returns(s, phase)
    BY <1>0, <2>1 DEF Returns
  <2>2. ASSUME NEW a \in {"start", "post", "cancel", "record"},
               Advances(s, [s EXCEPT !.at = a])
        PROVE  Kept
    BY <2>2 DEF Advances, SameHandler, Step
  <2>3. ASSUME NEW a, NEW b, NEW c,
               Advances(s, [s EXCEPT !.at = a, !.succeeded = b, !.final = c])
        PROVE  Kept
    BY <2>3 DEF Advances, SameHandler, Step
  <2>4. CASE Load(s)
    <3>1. \/ \E phase : Returns(s, phase)
          \/ \E a \in {"cancel", "post"} : Advances(s, [s EXCEPT !.at = a])
      BY <2>4 DEF Load
    <3> QED BY <3>1, <2>1, <2>2
  <2>5. CASE Post(s)
    BY <2>5, <2>3 DEF Post
  <2>6. CASE RecordAttempt(s) \/ CancelDelivery(s) \/ WriteFails(s)
    BY <2>6, <2>1 DEF RecordAttempt, CancelDelivery, WriteFails
  <2> QED BY <1>4, <2>4, <2>5, <2>6 DEF HandlerStep
<1>5. ASSUME NEW r \in runs, RunEnds(r) \/ LeaseRenewed(r) PROVE Kept
  BY <1>0, <1>5 DEF RunEnds, LeaseRenewed, Interrupt
<1>6. ASSUME ListStalled \/ \E x \in stalled : SettleStalled(x) PROVE Kept
  BY <1>0, <1>6 DEF ListStalled, SettleStalled
<1>7. ASSUME UNCHANGED vars PROVE Kept
  BY <1>0, <1>7 DEF vars
<1> QED BY <1>1, <1>2, <1>3, <1>4, <1>5, <1>6, <1>7 DEF Next

\* Losing a job row touches neither runs nor claims.
LEMMA LossKeepsRuns ==
  ASSUME TypeOK, NEW d \in Jobs, LoseJob(d)
  PROVE  TypeOK' /\ runs' = runs /\ claims' = claims
<1>1. jobs[d] \in JobRow
  BY DEF TypeOK
<1>2. Unlocked(jobs[d], "absent") \in JobRow
  BY <1>1, RowTypes DEF Status
<1>3. [Unlocked(jobs[d], "absent") EXCEPT !.attempts = 0] \in JobRow
  BY <1>2 DEF JobRow
<1> QED BY <1>3 DEF LoseJob, TypeOK

LEMMA StepKeepsFollow ==
  ASSUME TypeOK, steps \in SUBSET Step,
         stalled \in SUBSET [job : Jobs, status : {"absent", "failed"}],
         RunsNamed, StepsFollow, [Next]_vars
  PROVE  StepsFollow'
<1>0. /\ \A s \in steps : s.job \in Jobs /\ s.claim \in Nat /\ s.claim <= claims[s.job]
      /\ \A r \in runs : r.job \in Jobs /\ r.claim \in Nat /\ r.claim <= claims[r.job]
      /\ \A j \in Jobs : claims[j] \in Nat
  BY DEF TypeOK, Step, Run, RunsNamed, StepsFollow
<1>1. Evolve
  <2>1. CASE \E d \in Jobs : LoseJob(d)
    BY <2>1, LossKeepsRuns DEF Evolve, SameRun
  <2> QED BY <2>1, StepIsQueueStep, RunsEvolve
<1>2. ASSUME NEW w \in Workers, NEW S \in SUBSET Jobs, Claim(w, S)
      PROVE  /\ \A r \in runs' : \/ r \in runs
                                 \/ \E j \in S : /\ r.job = j
                                                 /\ r.claim = claims[j] + 1
                                                 /\ r.attempt = jobs[j].attempts + 1
             /\ \A j \in Jobs : claims'[j] >= claims[j]
             /\ \A j \in S : claims'[j] = claims[j] + 1
  BY <1>2, <1>0 DEF Claim, NewRun
<1>3. CASE \A t \in steps' : \E s \in steps : SameHandler(t, s)
  <2> SUFFICES ASSUME NEW t \in steps'
               PROVE  /\ t.claim <= claims'[t.job]
                      /\ \A r \in runs' : r.job = t.job /\ r.claim = t.claim
                                          => r.attempt = t.attempt
    BY DEF StepsFollow
  <2> PICK s \in steps : SameHandler(t, s)
    BY <1>3
  <2>1. CASE claims' = claims /\ \A q \in runs' : \E r \in runs : SameRun(q, r)
    BY <2>1, <1>0 DEF SameHandler, SameRun, StepsFollow
  <2>2. ASSUME NEW w \in Workers, NEW S \in SUBSET Jobs, Claim(w, S)
        PROVE  /\ t.claim <= claims'[t.job]
               /\ \A r \in runs' : r.job = t.job /\ r.claim = t.claim
                                   => r.attempt = t.attempt
    <3>1. t.claim <= claims[t.job] /\ t.job \in Jobs /\ t.claim \in Nat
      BY <1>0 DEF SameHandler
    <3>2. claims'[t.job] \in Nat
      BY <2>2, <3>1, <1>0 DEF Claim
    <3>3. claims'[t.job] >= claims[t.job]
      BY <2>2, <1>2, <3>1
    <3>4. t.claim <= claims'[t.job]
      BY <3>1, <3>2, <3>3, <1>0
    <3>5. ASSUME NEW r \in runs', r.job = t.job, r.claim = t.claim
          PROVE  r.attempt = t.attempt
      <4>1. r \in runs
        BY <2>2, <1>2, <1>0, <3>1, <3>5
      <4> QED BY <4>1, <3>5 DEF SameHandler, StepsFollow
    <3> QED BY <3>4, <3>5
  <2> QED BY <1>1, <2>1, <2>2 DEF Evolve
<1>4. ASSUME NEW w \in Workers, NEW S \in SUBSET Jobs, Claim(w, S),
             steps' = steps \cup {StartStep(d, w) : d \in S}
      PROVE  StepsFollow'
  <2>1. ASSUME NEW s \in steps
        PROVE  /\ s.claim <= claims'[s.job]
               /\ \A r \in runs' : r.job = s.job /\ r.claim = s.claim
                                   => r.attempt = s.attempt
    <3>1. claims'[s.job] \in Nat /\ claims'[s.job] >= claims[s.job]
      BY <1>4, <1>2, <1>0 DEF Claim
    <3>2. ASSUME NEW r \in runs', r.job = s.job, r.claim = s.claim
          PROVE  r.attempt = s.attempt
      <4>1. r \in runs
        BY <1>4, <1>2, <1>0, <3>2
      <4> QED BY <4>1, <3>2 DEF StepsFollow
    <3> QED BY <3>1, <3>2, <1>0
  <2>2. ASSUME NEW d \in S
        PROVE  /\ StartStep(d, w).claim <= claims'[StartStep(d, w).job]
               /\ \A r \in runs' :
                    r.job = StartStep(d, w).job /\ r.claim = StartStep(d, w).claim
                    => r.attempt = StartStep(d, w).attempt
    BY <1>4, <1>2, <1>0 DEF StartStep
  <2> QED BY <1>4, <2>1, <2>2 DEF StepsFollow
<1> QED BY <1>3, <1>4, StepsEvolve

-----------------------------------------------------------------------------
(* Types. *)

\* Handlers keep their type as they move on.
LEMMA HandlerTypes ==
  ASSUME DeliveryTypeOK, NEW s \in steps, HandlerStep(s)
  PROVE  /\ steps' \in SUBSET Step
         /\ received' \in [Jobs -> BOOLEAN]
<1>0. s \in Step
  BY DEF DeliveryTypeOK
<1>1. ASSUME NEW phase, Returns(s, phase) PROVE steps' \in SUBSET Step
  BY <1>1 DEF Returns, DeliveryTypeOK
<1>2. CASE Load(s)
  <2>1. ASSUME NEW a \in {"cancel", "post"}, Advances(s, [s EXCEPT !.at = a])
        PROVE  steps' \in SUBSET Step
    BY <1>0, <2>1 DEF Advances, DeliveryTypeOK, Step, Writes
  <2>2. \/ \E phase : Returns(s, phase)
        \/ \E a \in {"cancel", "post"} : Advances(s, [s EXCEPT !.at = a])
    BY <1>2 DEF Load
  <2> QED BY <2>1, <2>2, <1>1, <1>2 DEF Load, DeliveryTypeOK
<1>3. CASE Post(s)
  <2>1. PICK o \in {"ok", "lost", "unreachable", "refused"} :
          /\ received' = [received EXCEPT ![s.job] = @ \/ o \in {"ok", "lost"}]
          /\ Advances(s, [s EXCEPT !.at = "record", !.succeeded = o = "ok",
                                   !.final = \/ o = "refused"
                                             \/ o # "ok" /\ s.attempt >= MaxAttempts])
    BY <1>3 DEF Post
  <2>2. ASSUME NEW b \in BOOLEAN, NEW c \in BOOLEAN
        PROVE  [s EXCEPT !.at = "record", !.succeeded = b, !.final = c] \in Step
    BY <1>0 DEF Step, Writes
  <2>3. steps' \in SUBSET Step
    BY <2>1, <2>2 DEF Advances, DeliveryTypeOK
  <2>4. received' \in [Jobs -> BOOLEAN]
    BY <2>1 DEF DeliveryTypeOK
  <2> QED BY <2>3, <2>4
<1>4. CASE RecordAttempt(s) \/ CancelDelivery(s) \/ WriteFails(s)
  BY <1>4, <1>1 DEF RecordAttempt, CancelDelivery, WriteFails, DeliveryTypeOK
<1> QED BY <1>2, <1>3, <1>4 DEF HandlerStep

\* The delivery an attempt leaves.
LEMMA RecordedType ==
  ASSUME NEW row \in Delivery, NEW s \in Step
  PROVE  Recorded(row, s) \in Delivery
  BY DEF Recorded, Delivery, Step

\* Deliveries and their announcements are written with their types.
LEMMA LedgerTypes ==
  ASSUME DeliveryTypeOK, [Next]_vars
  PROVE  /\ deliveries' \in [Jobs -> Delivery]
         /\ notices' \in [Jobs -> SUBSET Nat]
<1> DEFINE Kept == UNCHANGED <<deliveries, notices>>
           Typed == /\ deliveries' \in [Jobs -> Delivery]
                    /\ notices' \in [Jobs -> SUBSET Nat]
<1>0. ASSUME Kept PROVE Typed
  BY <1>0 DEF DeliveryTypeOK
<1>1. ASSUME NEW d \in Jobs, Schedule(d) \/ Redeliver(d) \/ RetryDelivery(d)
      PROVE  Typed
  BY <1>1 DEF Schedule, Redeliver, RetryDelivery, Redrive, DeliveryTypeOK, Delivery
<1>2. ASSUME NEW d \in Jobs,
             \/ LeaseEnds(d) \/ CancelJob(d) \/ LoseJob(d) \/ SwitchEndpoint(d)
             \/ DeleteInvoice(d) \/ EmptyJob(d) \/ EmptyDelivery(d)
      PROVE  Typed
  BY <1>2, <1>0 DEF LeaseEnds, CancelJob, LoseJob, SwitchEndpoint, DeleteInvoice,
       EmptyJob, EmptyDelivery
<1>3. ASSUME NEW w \in Workers,
             ClaimDeliveries(w) \/ ProcessCrash(w) \/ ProcessShutdown(w)
      PROVE  Typed
  BY <1>3, <1>0 DEF ClaimDeliveries, ProcessCrash, ProcessShutdown
<1>4. ASSUME NEW s \in steps, HandlerStep(s) PROVE Typed
  <2>1. CASE Load(s) \/ Post(s) \/ WriteFails(s)
    BY <2>1, <1>0 DEF Load, Post, WriteFails
  <2>2. CASE RecordAttempt(s)
    <3>1. s \in Step /\ s.job \in Jobs /\ deliveries[s.job] \in Delivery
      BY DEF DeliveryTypeOK, Step
    <3>2. deliveries' \in [Jobs -> Delivery]
      BY <2>2, <3>1, RecordedType DEF RecordAttempt, DeliveryTypeOK
    <3>3. deliveries[s.job].attempts + 1 \in Nat
      BY <3>1 DEF Delivery
    <3>4. notices' \in [Jobs -> SUBSET Nat]
      BY <2>2, <3>1, <3>3 DEF RecordAttempt, Announced, DeliveryTypeOK
    <3> QED BY <3>2, <3>4
  <2>3. CASE CancelDelivery(s)
    BY <2>3 DEF CancelDelivery, DeliveryTypeOK, Delivery
  <2> QED BY <1>4, <2>1, <2>2, <2>3 DEF HandlerStep
<1>5. ASSUME NEW r \in runs, RunEnds(r) \/ LeaseRenewed(r) PROVE Typed
  BY <1>5, <1>0 DEF RunEnds, LeaseRenewed
<1>6. CASE ListStalled
  BY <1>6, <1>0 DEF ListStalled
<1>7. ASSUME NEW x \in stalled, SettleStalled(x) PROVE Typed
  <2>1. x.job \in Jobs /\ deliveries[x.job] \in Delivery
    BY DEF DeliveryTypeOK
  <2>2. CASE FailStalled(x.job)
    <3>1. /\ deliveries[x.job].attempts \in Nat
          /\ [deliveries[x.job] EXCEPT !.status = "failed"] \in Delivery
      BY <2>1 DEF Delivery
    <3>2. deliveries' \in [Jobs -> Delivery]
      BY <2>1, <2>2, <3>1 DEF FailStalled, DeliveryTypeOK
    <3>3. notices' \in [Jobs -> SUBSET Nat]
      BY <2>1, <2>2, <3>1 DEF FailStalled, Announced, DeliveryTypeOK
    <3> QED BY <3>2, <3>3
  <2>3. CASE UNCHANGED <<restarts, deliveries, notices>>
    BY <2>3, <1>0
  <2> QED BY <1>7, <2>2, <2>3 DEF SettleStalled
<1>8. CASE UNCHANGED vars
  BY <1>8, <1>0 DEF vars
<1> QED BY <1>1, <1>2, <1>3, <1>4, <1>5, <1>6, <1>7, <1>8 DEF Next

LEMMA DeliveryStepType ==
  ASSUME DeliveryTypeOK, RunsNamed, StepsFollow, [Next]_vars
  PROVE  DeliveryTypeOK'
<1> DEFINE Rest == /\ steps' \in SUBSET Step
                   /\ payloads' \in [Jobs -> BOOLEAN]
                   /\ contents' \in [Jobs -> BOOLEAN]
                   /\ endpoints' \in [Jobs -> BOOLEAN]
                   /\ invoices' \in [Jobs -> {"kept", "deleted"}]
                   /\ stalled' \in SUBSET [job : Jobs, status : {"absent", "failed"}]
                   /\ received' \in [Jobs -> BOOLEAN]
<1> USE DEF ledgerVars
<1>0. TypeOK'
  <2>1. CASE \E d \in Jobs : LoseJob(d)
    BY <2>1, LossKeepsRuns DEF DeliveryTypeOK
  <2> QED BY <2>1, StepIsQueueStep, StepType DEF DeliveryTypeOK
<1>1. ASSUME NEW d \in Jobs,
             \/ Schedule(d) \/ Redeliver(d) \/ RetryDelivery(d) \/ LeaseEnds(d)
             \/ CancelJob(d) \/ LoseJob(d) \/ SwitchEndpoint(d)
             \/ DeleteInvoice(d) \/ EmptyJob(d) \/ EmptyDelivery(d)
      PROVE  Rest
  BY <1>1 DEF Schedule, Redeliver, RetryDelivery, Redrive, EnqueueJob, LeaseEnds,
       CancelJob, LoseJob, SwitchEndpoint, DeleteInvoice, EmptyJob, EmptyDelivery,
       DeliveryTypeOK
<1>2. ASSUME NEW w \in Workers, ClaimDeliveries(w) PROVE Rest
  <2> PICK S \in SUBSET Jobs : steps' = steps \cup {StartStep(d, w) : d \in S}
    BY <1>2 DEF ClaimDeliveries
  <2>1. \A d \in S : StartStep(d, w) \in Step
    BY DEF StartStep, Step, DeliveryTypeOK, TypeOK, JobRow
  <2> QED BY <1>2, <2>1 DEF ClaimDeliveries, DeliveryTypeOK
<1>3. ASSUME NEW w \in Workers, ProcessCrash(w) \/ ProcessShutdown(w) PROVE Rest
  BY <1>3 DEF ProcessCrash, ProcessShutdown, Interrupt, DeliveryTypeOK
<1>4. ASSUME NEW s \in steps, HandlerStep(s) PROVE Rest
  <2>1. UNCHANGED <<ledgerVars, stalled>>
    BY <1>4 DEF HandlerStep, Load, Post, RecordAttempt, CancelDelivery, WriteFails
  <2> QED BY <1>4, <2>1, HandlerTypes DEF DeliveryTypeOK
<1>5. ASSUME NEW r \in runs, RunEnds(r) \/ LeaseRenewed(r) PROVE Rest
  BY <1>5 DEF RunEnds, LeaseRenewed, Interrupt, DeliveryTypeOK
<1>6. ASSUME ListStalled PROVE Rest
  BY <1>6 DEF ListStalled, Stalled, DeliveryTypeOK
<1>7. ASSUME NEW x \in stalled, SettleStalled(x) PROVE Rest
  BY <1>7 DEF SettleStalled, FailStalled, EnqueueJob, DeliveryTypeOK
<1>8. ASSUME UNCHANGED vars PROVE Rest
  BY <1>8 DEF vars, DeliveryTypeOK
<1>9. Rest
  BY <1>1, <1>2, <1>3, <1>4, <1>5, <1>6, <1>7, <1>8 DEF Next
<1> QED BY <1>0, <1>9, LedgerTypes DEF DeliveryTypeOK

\* The inductive invariant: types, and names that tie handlers to runs.
DeliveryInv == DeliveryTypeOK /\ RunsNamed /\ StepsFollow

LEMMA DeliveryInvariant == Spec => []DeliveryInv
<1>1. Init => DeliveryInv
  BY InitType DEF Init, QueueInit, DeliveryInv, DeliveryTypeOK, Delivery, RunsNamed,
     StepsFollow
<1>2. ASSUME DeliveryInv, [Next]_vars PROVE DeliveryInv'
  <2>1. TypeOK /\ steps \in SUBSET Step
        /\ stalled \in SUBSET [job : Jobs, status : {"absent", "failed"}]
    BY <1>2 DEF DeliveryInv, DeliveryTypeOK
  <2>2. RunsNamed'
    <3>1. CASE \E d \in Jobs : LoseJob(d)
      BY <1>2, <2>1, <3>1, LossKeepsRuns DEF DeliveryInv, RunsNamed
    <3> QED BY <1>2, <2>1, <3>1, StepIsQueueStep, StepKeepsNames DEF DeliveryInv
  <2> QED BY <1>2, <2>1, <2>2, StepKeepsFollow, DeliveryStepType DEF DeliveryInv
<1> QED BY <1>1, <1>2, PTL DEF Spec

\* Every reachable state of the delivery system is well typed.
THEOREM DeliveryTypeCorrect == Spec => []DeliveryTypeOK
  BY DeliveryInvariant, PTL DEF DeliveryInv

-----------------------------------------------------------------------------
(* The queue's guarantees hold for the jobs of deliveries. *)

\* Unless job rows disappear, the delivery system runs the queue: every step of
\* a handler, a user or a reconciler does to jobs what the queue allows.
THEOREM ImplementsQueue ==
  ASSUME "lose" \notin Disruptions
  PROVE  Spec => QueueUnderneath
<1>1. Init => QueueInit
  BY DEF Init
<1>2. ASSUME DeliveryInv, [Next]_vars PROVE [QueueNext]_queueVars
  <2>1. ~ \E d \in Jobs : LoseJob(d)
    BY DEF LoseJob
  <2> QED BY <1>2, <2>1, StepIsQueueStep DEF DeliveryInv, DeliveryTypeOK
<1> QED BY <1>1, <1>2, DeliveryInvariant, PTL DEF Spec, QueueSpec, QueueUnderneath

\* So what the queue guarantees of a lease and of a finished job, it guarantees
\* of the jobs of deliveries.
THEOREM DeliveryJobsProtected ==
  ASSUME "lose" \notin Disruptions
  PROVE  Spec => FinishedStaysFinished /\ LeaseProtects
  BY ImplementsQueue, FinishedIsFinal, LeasesProtect, PTL DEF QueueUnderneath

\* Deliveries never take more than their half of a runner's slots, and no runner
\* works on more jobs than it has slots, even when job rows disappear.
THEOREM DeliverySlots == Spec => []SlotsRespected
<1>1. Init => SlotsInv
  BY SlotsAtFirst DEF Init
<1>2. ASSUME DeliveryInv, SlotsInv, [Next]_vars PROVE SlotsInv'
  <2>1. TypeOK
    BY <1>2 DEF DeliveryInv, DeliveryTypeOK
  <2>2. ASSUME NEW d \in Jobs, LoseJob(d) PROVE SlotsInv'
    <3>1. runs' = runs
      BY <2>2 DEF LoseJob
    <3>2. Rows' \subseteq Rows
      <4>1. \A j \in Jobs : j # d => jobs'[j] = jobs[j]
        BY <2>1, <2>2 DEF LoseJob, TypeOK
      <4>2. jobs[d].status # "absent"
        BY <2>2 DEF LoseJob
      <4> QED BY <4>1, <4>2 DEF Rows
    <3>3. IsFiniteSet(Rows')
      BY <1>2, <3>2, FS_Subset DEF SlotsInv
    <3> QED BY <1>2, <3>1, <3>3 DEF SlotsInv, SlotsRespected, RunsOf, WebhooksBusy
  <2>3. CASE [QueueNext]_queueVars
    BY <1>2, <2>1, <2>3, StepSlots
  <2> QED BY <1>2, <2>1, <2>2, <2>3, StepIsQueueStep DEF DeliveryInv, DeliveryTypeOK
<1>3. SlotsInv => SlotsRespected
  BY DEF SlotsInv
<1> QED BY <1>1, <1>2, <1>3, DeliveryInvariant, PTL DEF Spec

-----------------------------------------------------------------------------
(* Who may settle a delivery. *)

\* How a step changes the delivery of one job: not at all; it is scheduled,
\* attempted, cancelled, failed by the reconciler, or queued again by a user.
DeliverySteps(d) ==
  \/ deliveries'[d] = deliveries[d]
  \/ deliveries[d].status = "absent" /\ deliveries'[d].status = "queued"
  \/ \E s \in steps : /\ s.job = d
                      /\ deliveries'[d] = Recorded(deliveries[d], s)
                      /\ MakesFailure(deliveries[d], s) =>
                           deliveries'[d].attempts \in notices'[d]
  \/ deliveries[d].status \in Pending /\ deliveries'[d].status = "cancelled"
  \/ /\ StillFailed(d)
     /\ deliveries'[d].status = "failed"
     /\ deliveries'[d].attempts \in notices'[d]
  \/ /\ deliveries[d].status \in {"failed", "cancelled"}
     /\ deliveries'[d].status = "queued"
     /\ endpoints[d] /\ contents[d]

LEMMA DeliveryChanges ==
  ASSUME DeliveryTypeOK, [Next]_vars, NEW d \in Jobs
  PROVE  DeliverySteps(d)
<1>0. ASSUME UNCHANGED deliveries PROVE DeliverySteps(d)
  BY <1>0 DEF DeliverySteps
<1>1. ASSUME NEW e \in Jobs, Schedule(e) PROVE DeliverySteps(d)
  BY <1>1 DEF Schedule, DeliverySteps, DeliveryTypeOK, Delivery
<1>2. ASSUME NEW e \in Jobs, Redeliver(e) \/ RetryDelivery(e) PROVE DeliverySteps(d)
  BY <1>2 DEF Redeliver, RetryDelivery, Redrive, DeliverySteps, DeliveryTypeOK, Delivery
<1>3. ASSUME NEW e \in Jobs,
             \/ LeaseEnds(e) \/ CancelJob(e) \/ LoseJob(e) \/ SwitchEndpoint(e)
             \/ DeleteInvoice(e) \/ EmptyJob(e) \/ EmptyDelivery(e)
      PROVE  DeliverySteps(d)
  BY <1>3, <1>0 DEF LeaseEnds, CancelJob, LoseJob, SwitchEndpoint, DeleteInvoice,
       EmptyJob, EmptyDelivery
<1>4. ASSUME NEW w \in Workers,
             ClaimDeliveries(w) \/ ProcessCrash(w) \/ ProcessShutdown(w)
      PROVE  DeliverySteps(d)
  BY <1>4, <1>0 DEF ClaimDeliveries, ProcessCrash, ProcessShutdown
<1>5. ASSUME NEW s \in steps, HandlerStep(s) PROVE DeliverySteps(d)
  <2>1. CASE Load(s) \/ Post(s) \/ WriteFails(s)
    BY <2>1, <1>0 DEF Load, Post, WriteFails
  <2>2. CASE RecordAttempt(s)
    <3>1. s.job \in Jobs
      BY DEF DeliveryTypeOK, Step
    <3>2. deliveries' = [deliveries EXCEPT ![s.job] = Recorded(deliveries[s.job], s)]
      BY <2>2 DEF RecordAttempt
    <3>3. CASE d # s.job
      BY <3>1, <3>2, <3>3 DEF DeliverySteps, DeliveryTypeOK
    <3>4. CASE d = s.job
      <4>1. deliveries'[d] = Recorded(deliveries[d], s)
        BY <3>2, <3>4 DEF DeliveryTypeOK
      <4>2. deliveries'[d].attempts = deliveries[d].attempts + 1
        BY <4>1 DEF Recorded
      <4>3. ASSUME MakesFailure(deliveries[d], s)
            PROVE  deliveries'[d].attempts \in notices'[d]
        <5>1. notices' = Announced(d, deliveries[d].attempts + 1)
          BY <2>2, <3>4, <4>3 DEF RecordAttempt
        <5> QED BY <5>1, <4>2 DEF Announced, DeliveryTypeOK
      <4> QED BY <3>4, <4>1, <4>3 DEF DeliverySteps
    <3> QED BY <3>3, <3>4
  <2>3. CASE CancelDelivery(s)
    BY <2>3 DEF CancelDelivery, DeliverySteps, DeliveryTypeOK, Delivery, Step
  <2> QED BY <1>5, <2>1, <2>2, <2>3 DEF HandlerStep
<1>6. ASSUME NEW r \in runs, RunEnds(r) \/ LeaseRenewed(r) PROVE DeliverySteps(d)
  BY <1>6, <1>0 DEF RunEnds, LeaseRenewed
<1>7. CASE ListStalled
  BY <1>7, <1>0 DEF ListStalled
<1>8. ASSUME NEW x \in stalled, SettleStalled(x) PROVE DeliverySteps(d)
  <2>1. CASE UNCHANGED <<restarts, deliveries, notices>>
    BY <2>1, <1>0
  <2>2. CASE FailStalled(x.job)
    <3>1. x.job \in Jobs /\ deliveries[x.job] \in Delivery
      BY DEF DeliveryTypeOK
    <3>2. CASE ~StillFailed(x.job) \/ d # x.job
      BY <2>2, <3>1, <3>2 DEF FailStalled, DeliverySteps, DeliveryTypeOK
    <3>3. CASE StillFailed(x.job) /\ d = x.job
      <4>1. /\ deliveries' = [deliveries EXCEPT ![d].status = "failed"]
            /\ notices' = [notices EXCEPT ![d] = @ \cup {deliveries[d].attempts}]
        BY <2>2, <3>3 DEF FailStalled, Announced
      <4>2. /\ deliveries'[d].status = "failed"
            /\ deliveries'[d].attempts = deliveries[d].attempts
        BY <4>1, <3>1, <3>3 DEF DeliveryTypeOK, Delivery
      <4> QED BY <4>1, <4>2, <3>3 DEF DeliverySteps, DeliveryTypeOK
    <3> QED BY <3>2, <3>3
  <2> QED BY <1>8, <2>1, <2>2 DEF SettleStalled
<1>9. CASE UNCHANGED vars
  BY <1>9, <1>0 DEF vars
<1> QED
  BY <1>1, <1>2, <1>3, <1>4, <1>5, <1>6, <1>7, <1>8, <1>9 DEF Next

\* What a recorded attempt does to the status.
LEMMA RecordedStatus ==
  ASSUME NEW row \in Delivery, NEW s \in Step
  PROVE  /\ row.status \in {"succeeded", "cancelled"}
              => Recorded(row, s).status = row.status
         /\ Recorded(row, s).attempts = row.attempts + 1
         /\ row.status # "failed" /\ Recorded(row, s).status = "failed"
              => row.status \in Pending \cup {"absent"} /\ s.final
  BY DEF Recorded, Delivery, Pending

\* Nothing works on a delivery that was never scheduled.
Untouched(d) ==
  /\ deliveries[d].status = "absent"
  /\ jobs[d].status = "absent" /\ jobs[d].lockedBy = NoWorker
  /\ \A s \in steps : s.job # d
  /\ \A x \in stalled : x.job # d

WorkIsScheduled == \A d \in Jobs : deliveries[d].status = "absent" => Untouched(d)

LEMMA AbsentBefore ==
  ASSUME DeliveryTypeOK, [Next]_vars, NEW d \in Jobs,
         deliveries'[d].status = "absent"
  PROVE  deliveries[d].status = "absent"
<1>1. ASSUME NEW s \in steps, deliveries'[d] = Recorded(deliveries[d], s)
      PROVE  deliveries[d].status = "absent"
  BY <1>1 DEF Recorded
<1> QED BY <1>1, DeliveryChanges DEF DeliverySteps

\* The job of such a delivery stays as it is, or disappears.
LEMMA AbsentJobStays ==
  ASSUME DeliveryTypeOK, [Next]_vars, NEW d \in Jobs, Untouched(d),
         deliveries'[d].status = "absent"
  PROVE  jobs'[d].status = "absent" /\ jobs'[d].lockedBy = NoWorker
<1> DEFINE Kept == jobs'[d].status = "absent" /\ jobs'[d].lockedBy = NoWorker
<1> USE DEF Untouched
<1>0. /\ jobs' = jobs => Kept
      /\ jobs \in [Jobs -> JobRow] /\ deliveries \in [Jobs -> Delivery]
  BY DEF DeliveryTypeOK, TypeOK
<1>1. ASSUME NEW e \in Jobs, e # d, NEW row, jobs' = [jobs EXCEPT ![e] = row]
      PROVE  Kept
  BY <1>1, <1>0
<1>2. ASSUME NEW e \in Jobs, e # d, jobs' = EnqueuedRows({e}) PROVE Kept
  BY <1>2, <1>0 DEF EnqueuedRows
<1>3. ASSUME NEW e \in Jobs, Schedule(e) PROVE Kept
  <2>1. e # d
    BY <1>0, <1>3 DEF Schedule, Delivery
  <2> QED BY <1>2, <1>3, <2>1 DEF Schedule
<1>4. ASSUME NEW e \in Jobs, Redeliver(e) \/ RetryDelivery(e) PROVE Kept
  <2>1. e # d /\ Redrive(e)
    BY <1>4 DEF Redeliver, RetryDelivery
  <2> QED BY <1>1, <1>2, <2>1 DEF Redrive, Restart, EnqueueJob
<1>5. ASSUME NEW e \in Jobs, LeaseEnds(e) PROVE Kept
  BY <1>5, <1>0 DEF LeaseEnds, LeaseExpires, JobRow
<1>6. ASSUME NEW e \in Jobs, CancelJob(e) PROVE Kept
  <2>1. e # d
    BY <1>6 DEF CancelJob, OperatorCancel, Expired
  <2> QED BY <1>1, <1>6, <2>1 DEF CancelJob, OperatorCancel
<1>7. ASSUME NEW e \in Jobs, LoseJob(e) PROVE Kept
  <2>1. e # d
    BY <1>7 DEF LoseJob
  <2> QED BY <1>1, <1>7, <2>1 DEF LoseJob
<1>8. ASSUME NEW e \in Jobs,
             \/ SwitchEndpoint(e) \/ DeleteInvoice(e) \/ EmptyJob(e) \/ EmptyDelivery(e)
      PROVE  Kept
  BY <1>8, <1>0 DEF SwitchEndpoint, DeleteInvoice, EmptyJob, EmptyDelivery, queueVars
<1>9. ASSUME NEW w \in Workers, ClaimDeliveries(w) PROVE Kept
  <2> PICK S \in SUBSET Jobs : Claim(w, S)
    BY <1>9 DEF ClaimDeliveries
  <2>1. d \notin S /\ d \notin Reaped
    BY DEF Claim, Fits, Claimable, Reaped, Expired
  <2> QED BY <2>1, <1>0 DEF Claim
<1>10. ASSUME NEW w \in Workers, ProcessCrash(w) \/ ProcessShutdown(w) PROVE Kept
  BY <1>10, <1>0 DEF ProcessCrash, ProcessShutdown, Crash, Shutdown
<1>11. ASSUME NEW s \in steps, HandlerStep(s) PROVE Kept
  BY <1>11, <1>0 DEF HandlerStep, Load, Post, RecordAttempt, CancelDelivery, WriteFails,
     Returns, Advances, queueVars
<1>12. ASSUME NEW r \in runs, RunEnds(r) \/ LeaseRenewed(r) PROVE Kept
  <2>1. r.job \in Jobs /\ r.worker # NoWorker
    BY QueueAssumption DEF DeliveryTypeOK, TypeOK, Run
  <2>2. r.job = d => ~Owns(r) /\ ~Holds(r)
    BY <2>1 DEF Owns, Holds
  <2>3. CASE Settle(r)
    BY <2>1, <2>2, <2>3, <1>0, <1>1 DEF Settle
  <2>4. CASE Release(r)
    BY <2>1, <2>2, <2>4, <1>0, <1>1 DEF Release
  <2>5. CASE Abandon(r)
    BY <2>5, <1>0 DEF Abandon
  <2>6. CASE Heartbeat(r)
    BY <2>1, <2>6, <1>0 DEF Heartbeat, JobRow
  <2> QED BY <1>12, <2>3, <2>4, <2>5, <2>6 DEF RunEnds, LeaseRenewed
<1>13. ASSUME NEW x \in stalled, SettleStalled(x) PROVE Kept
  <2>1. x.job \in Jobs /\ x.job # d
    BY DEF DeliveryTypeOK
  <2>2. CASE FailStalled(x.job)
    BY <2>2, <1>0 DEF FailStalled, queueVars
  <2>3. CASE EnqueueJob(x.job)
    BY <2>1, <2>3, <1>2 DEF EnqueueJob
  <2> QED BY <1>13, <2>2, <2>3 DEF SettleStalled
<1>14. ASSUME ListStalled PROVE Kept
  BY <1>14, <1>0 DEF ListStalled, queueVars
<1>15. ASSUME UNCHANGED vars PROVE Kept
  BY <1>15, <1>0 DEF vars, queueVars
<1> QED BY <1>3, <1>4, <1>5, <1>6, <1>7, <1>8, <1>9, <1>10, <1>11, <1>12, <1>13,
           <1>14, <1>15 DEF Next

LEMMA StepKeepsScheduled ==
  ASSUME DeliveryTypeOK, WorkIsScheduled, [Next]_vars
  PROVE  WorkIsScheduled'
<1> SUFFICES ASSUME NEW d \in Jobs, deliveries'[d].status = "absent"
             PROVE  Untouched(d)'
  BY DEF WorkIsScheduled
<1>1. Untouched(d)
  BY AbsentBefore DEF WorkIsScheduled
<1>2. jobs'[d].status = "absent" /\ jobs'[d].lockedBy = NoWorker
  BY <1>1, AbsentJobStays
<1>3. \A t \in steps' : t.job # d
  <2>1. CASE \A t \in steps' : \E s \in steps : SameHandler(t, s)
    BY <1>1, <2>1 DEF SameHandler, Untouched
  <2>2. ASSUME NEW w \in Workers, NEW S \in SUBSET Jobs, Claim(w, S),
               steps' = steps \cup {StartStep(e, w) : e \in S}
        PROVE  \A t \in steps' : t.job # d
    <3>1. d \notin S
      BY <2>2, <1>1 DEF Claim, Fits, Claimable, Expired, Untouched
    <3> QED BY <2>2, <3>1, <1>1 DEF StartStep, Untouched
  <2> QED BY <2>1, <2>2, StepsEvolve DEF DeliveryTypeOK
<1>4. \A x \in stalled' : x.job # d
  <2>1. CASE ListStalled
    BY <2>1, <1>1 DEF ListStalled, Stalled, Pending, Untouched
  <2>2. CASE stalled' \subseteq stalled
    BY <2>2, <1>1 DEF Untouched
  <2>3. ListStalled \/ stalled' \subseteq stalled
    BY DEF Next, vars, Schedule, Redeliver, RetryDelivery, Redrive, LeaseEnds, CancelJob,
       LoseJob, SwitchEndpoint, DeleteInvoice, EmptyJob, EmptyDelivery, ClaimDeliveries,
       ProcessCrash, ProcessShutdown, HandlerStep, Load, Post, RecordAttempt,
       CancelDelivery, WriteFails, RunEnds, LeaseRenewed, SettleStalled
  <2> QED BY <2>1, <2>2, <2>3
<1> QED BY <1>2, <1>3, <1>4 DEF Untouched

LEMMA ScheduledInvariant == Spec => []WorkIsScheduled
<1>1. Init => WorkIsScheduled
  BY DEF Init, QueueInit, WorkIsScheduled, Untouched
<1> QED BY <1>1, StepKeepsScheduled, DeliveryTypeCorrect, PTL DEF Spec

LEMMA SettledStep ==
  ASSUME DeliveryTypeOK, [Next]_vars, NEW d \in Jobs
  PROVE  /\ deliveries[d].status = "succeeded" => deliveries'[d].status = "succeeded"
         /\ deliveries[d].status = "cancelled" =>
              \/ deliveries'[d].status = "cancelled"
              \/ /\ deliveries'[d].status = "queued"
                 /\ endpoints[d] /\ contents[d]
<1>1. deliveries[d] \in Delivery /\ \A s \in steps : s \in Step
  BY DEF DeliveryTypeOK
<1>2. DeliverySteps(d)
  BY DeliveryChanges
<1> QED BY <1>1, <1>2, RecordedStatus DEF DeliverySteps, Pending, StillFailed

\* A delivery that succeeded or was cancelled is never downgraded.
THEOREM SettledKept == Spec => SettledIsKept
<1>1. DeliveryTypeOK /\ [Next]_vars => NeverDowngraded
  BY SettledStep DEF NeverDowngraded
<1> QED BY <1>1, DeliveryTypeCorrect, PTL DEF Spec, SettledIsKept

\* Every delivery that becomes failed is announced in the same transaction.
THEOREM FailuresAnnounced == Spec => FailureAnnounced
<1>1. DeliveryTypeOK /\ WorkIsScheduled /\ [Next]_vars => AnnouncedAsItFails
  <2> SUFFICES ASSUME DeliveryTypeOK, WorkIsScheduled, [Next]_vars, NEW d \in Jobs,
                      Fails(d)
               PROVE  deliveries'[d].attempts \in notices'[d]
    BY DEF AnnouncedAsItFails
  <2>1. deliveries[d] \in Delivery /\ \A s \in steps : s \in Step
    BY DEF DeliveryTypeOK
  <2>2. ASSUME NEW s \in steps, s.job = d, deliveries'[d] = Recorded(deliveries[d], s)
        PROVE  MakesFailure(deliveries[d], s)
    <3>1. deliveries[d].status # "absent"
      BY <2>2 DEF WorkIsScheduled, Untouched
    <3> QED BY <2>1, <2>2, <3>1, RecordedStatus DEF MakesFailure, Fails
  <2>3. DeliverySteps(d)
    BY DeliveryChanges
  <2> QED BY <2>2, <2>3 DEF DeliverySteps, Fails
<1> QED BY <1>1, DeliveryTypeCorrect, ScheduledInvariant, PTL DEF Spec, FailureAnnounced

\* An explicit retry wins over a reconciler that listed the delivery earlier.
THEOREM RetryWins == Spec => ExplicitRetryWins
<1>1. DeliveryTypeOK /\ [Next]_vars => FailsForCause
  <2> SUFFICES ASSUME DeliveryTypeOK, [Next]_vars, NEW d \in Jobs, Fails(d)
               PROVE  \/ deliveries'[d].attempts > deliveries[d].attempts
                      \/ jobs[d].status = "failed"
    BY DEF FailsForCause
  <2>1. deliveries[d] \in Delivery /\ \A s \in steps : s \in Step
    BY DEF DeliveryTypeOK
  <2>2. \A n \in Nat : n + 1 > n
    OBVIOUS
  <2>3. ASSUME NEW s \in steps, deliveries'[d] = Recorded(deliveries[d], s)
        PROVE  deliveries'[d].attempts > deliveries[d].attempts
    BY <2>1, <2>2, <2>3, RecordedStatus DEF Delivery
  <2>4. DeliverySteps(d)
    BY DeliveryChanges
  <2> QED BY <2>3, <2>4 DEF DeliverySteps, StillFailed, Fails
<1> QED BY <1>1, DeliveryTypeCorrect, PTL DEF Spec, ExplicitRetryWins

-----------------------------------------------------------------------------
(* What the consumer got. *)

\* A handler that saw a 2xx has delivered.
AnswersAreReal ==
  /\ DeliveredMeansReceived
  /\ \A s \in steps : s.succeeded => received[s.job]

LEMMA ReceivedStays ==
  ASSUME DeliveryTypeOK, [Next]_vars, NEW d \in Jobs, received[d]
  PROVE  received'[d]
<1>1. ASSUME NEW s \in steps, Post(s) PROVE received'[d]
  BY <1>1 DEF Post, DeliveryTypeOK
<1>2. ASSUME received' = received PROVE received'[d]
  BY <1>2
<1>3. received' = received \/ \E s \in steps : Post(s)
  BY DEF Next, vars, Schedule, Redeliver, RetryDelivery, Redrive, LeaseEnds, CancelJob,
     LoseJob, SwitchEndpoint, DeleteInvoice, EmptyJob, EmptyDelivery, ClaimDeliveries,
     ProcessCrash, ProcessShutdown, HandlerStep, Load, RecordAttempt, CancelDelivery,
     WriteFails, RunEnds, LeaseRenewed, ListStalled, SettleStalled
<1> QED BY <1>1, <1>2, <1>3

\* Only a POST that was answered with 2xx makes a handler see success.
LEMMA SuccessIsAnswered ==
  ASSUME DeliveryTypeOK, AnswersAreReal, [Next]_vars, NEW t \in steps', t.succeeded
  PROVE  received'[t.job]
<1>0. \A s \in steps : s \in Step /\ s.job \in Jobs
  BY DEF DeliveryTypeOK, Step
<1>1. ASSUME NEW s \in steps, t.job = s.job, s.succeeded
      PROVE  received'[t.job]
  BY <1>0, <1>1, ReceivedStays DEF AnswersAreReal
<1>2. ASSUME t \in steps PROVE received'[t.job]
  BY <1>0, <1>2, ReceivedStays DEF AnswersAreReal
<1>3. ASSUME NEW s \in steps, HandlerStep(s) PROVE received'[t.job]
  <2>1. ASSUME NEW phase, Returns(s, phase) PROVE t \in steps
    BY <2>1 DEF Returns
  <2>2. ASSUME NEW a, Advances(s, [s EXCEPT !.at = a])
        PROVE  t \in steps \/ (t.job = s.job /\ s.succeeded)
    <3> DEFINE u == [s EXCEPT !.at = a]
    <3>1. t \in steps \/ t = u
      BY <2>2 DEF Advances
    <3>2. u.job = s.job /\ (u.succeeded => s.succeeded)
      BY <1>0 DEF Step
    <3>3. CASE t = u
      <4> HIDE DEF u
      <4>1. u.succeeded
        BY <3>3, Zenon
      <4> QED BY <4>1, <3>2, <3>3, Zenon
    <3> HIDE DEF u
    <3> QED BY <3>1, <3>3, Zenon
  <2>3. CASE Load(s)
    <3>1. \/ \E phase : Returns(s, phase)
          \/ \E a \in {"cancel", "post"} : Advances(s, [s EXCEPT !.at = a])
      BY <2>3 DEF Load
    <3> QED BY <3>1, <2>1, <2>2, <1>1, <1>2
  <2>4. CASE Post(s)
    <3>1. PICK o \in {"ok", "lost", "unreachable", "refused"} :
            /\ received' = [received EXCEPT ![s.job] = @ \/ o \in {"ok", "lost"}]
            /\ Advances(s, [s EXCEPT !.at = "record", !.succeeded = o = "ok",
                                     !.final = \/ o = "refused"
                                               \/ o # "ok" /\ s.attempt >= MaxAttempts])
      BY <2>4 DEF Post
    <3> DEFINE c == \/ o = "refused"
                    \/ o # "ok" /\ s.attempt >= MaxAttempts
               u == [s EXCEPT !.at = "record", !.succeeded = o = "ok", !.final = c]
    <3>2. t \in steps \/ t = u
      BY <3>1 DEF Advances
    <3>3. ASSUME t = u PROVE received'[t.job]
      <4>1. u.job = s.job /\ (u.succeeded => o = "ok")
        BY <1>0 DEF Step
      <4>2. t.job = s.job /\ o = "ok"
        <5> HIDE DEF u
        <5> QED BY <4>1, <3>3
      <4> QED BY <4>2, <3>1, <1>0 DEF DeliveryTypeOK
    <3> QED BY <3>2, <3>3, <1>2
  <2>5. CASE RecordAttempt(s) \/ CancelDelivery(s) \/ WriteFails(s)
    BY <2>5, <2>1, <1>2 DEF RecordAttempt, CancelDelivery, WriteFails
  <2> QED BY <1>3, <2>3, <2>4, <2>5 DEF HandlerStep
<1>4. ASSUME NEW w \in Workers, ClaimDeliveries(w) PROVE received'[t.job]
  <2> PICK S \in SUBSET Jobs : steps' = steps \cup {StartStep(d, w) : d \in S}
    BY <1>4 DEF ClaimDeliveries
  <2>1. t \in steps
    BY DEF StartStep
  <2> QED BY <2>1, <1>2
<1>5. \/ t \in steps
      \/ \E s \in steps : HandlerStep(s)
      \/ \E w \in Workers : ClaimDeliveries(w)
  BY DEF Next, vars, Schedule, Redeliver, RetryDelivery, Redrive, LeaseEnds, CancelJob,
     LoseJob, SwitchEndpoint, DeleteInvoice, EmptyJob, EmptyDelivery, ProcessCrash,
     ProcessShutdown, RunEnds, LeaseRenewed, ListStalled, SettleStalled, Interrupt
<1> QED BY <1>2, <1>3, <1>4, <1>5

\* Only a handler that saw success records it.
LEMMA SuccessIsReceived ==
  ASSUME DeliveryTypeOK, AnswersAreReal, [Next]_vars, NEW d \in Jobs,
         deliveries'[d].status = "succeeded"
  PROVE  received'[d]
<1>0. deliveries[d] \in Delivery /\ \A s \in steps : s \in Step
  BY DEF DeliveryTypeOK
<1>1. CASE deliveries[d].status = "succeeded"
  BY <1>1, ReceivedStays DEF AnswersAreReal, DeliveredMeansReceived
<1>2. ASSUME NEW s \in steps, s.job = d, s.succeeded PROVE received'[d]
  BY <1>2, ReceivedStays DEF AnswersAreReal
<1>3. ASSUME NEW s \in steps, deliveries'[d] = Recorded(deliveries[d], s)
      PROVE  deliveries[d].status = "succeeded" \/ s.succeeded
  BY <1>0, <1>3 DEF Recorded
<1> QED BY <1>1, <1>2, <1>3, DeliveryChanges DEF DeliverySteps

\* A delivery recorded as succeeded reached its consumer.
THEOREM SucceededWasReceived == Spec => []DeliveredMeansReceived
<1>1. Init => AnswersAreReal
  BY DEF Init, AnswersAreReal, DeliveredMeansReceived
<1>2. DeliveryTypeOK /\ AnswersAreReal /\ [Next]_vars => AnswersAreReal'
  BY SuccessIsAnswered, SuccessIsReceived DEF AnswersAreReal, DeliveredMeansReceived
<1>3. AnswersAreReal => DeliveredMeansReceived
  BY DEF AnswersAreReal
<1> QED BY <1>1, <1>2, <1>3, DeliveryTypeCorrect, PTL DEF Spec
-----------------------------------------------------------------------------
(* What a succeeded job says of its delivery. *)

\* While endpoints stay registered, invoices stay and rows keep their content, no
\* delivery is cancelled: a handler completes its job only on a delivery that
\* succeeded, and such a delivery stays as it is.
NothingIsCancelled ==
  /\ \A d \in Jobs : /\ ~CannotSend(d)
                     /\ deliveries[d].status # "cancelled"
  /\ \A s \in steps : s.at # "cancel"

CompletedIsDelivered ==
  /\ \A r \in runs : r.phase = "completing" => deliveries[r.job].status = "succeeded"
  /\ \A d \in Jobs : jobs[d].status = "succeeded" => deliveries[d].status = "succeeded"

SuccessInv == NothingIsCancelled /\ CompletedIsDelivered

\* Nobody closes an endpoint, deletes an invoice or empties a delivery.
LEMMA ContentStays ==
  ASSUME Disruptions \cap {"close", "delete", "retention"} = {}, [Next]_vars
  PROVE  UNCHANGED <<contents, endpoints, invoices>>
  BY DEF Next, vars, ledgerVars, Schedule, Redeliver, RetryDelivery, Redrive, LeaseEnds,
     CancelJob, LoseJob, SwitchEndpoint, DeleteInvoice, EmptyJob, EmptyDelivery,
     ClaimDeliveries, ProcessCrash, ProcessShutdown, HandlerStep, Load, Post,
     RecordAttempt, CancelDelivery, WriteFails, RunEnds, LeaseRenewed, ListStalled,
     SettleStalled

\* A handler goes on to cancel a delivery only if it cannot be sent.
LEMMA NobodyCancels ==
  ASSUME DeliveryTypeOK, NothingIsCancelled, [Next]_vars, NEW t \in steps'
  PROVE  t.at # "cancel"
<1>0. \A s \in steps : s \in Step /\ s.job \in Jobs /\ s.at # "cancel"
  BY DEF DeliveryTypeOK, Step, NothingIsCancelled
<1>1. ASSUME t \in steps PROVE t.at # "cancel"
  BY <1>0, <1>1
<1>2. ASSUME NEW s \in steps, HandlerStep(s) PROVE t.at # "cancel"
  <2>1. ASSUME NEW phase, Returns(s, phase) PROVE t \in steps
    BY <2>1 DEF Returns
  <2>2. CASE Load(s)
    <3>1. \/ \E phase : Returns(s, phase)
          \/ Advances(s, [s EXCEPT !.at = IF CannotSend(s.job) THEN "cancel" ELSE "post"])
      BY <2>2 DEF Load
    <3>2. ~CannotSend(s.job)
      BY <1>0 DEF NothingIsCancelled
    <3>3. [s EXCEPT !.at = IF CannotSend(s.job) THEN "cancel" ELSE "post"].at = "post"
      BY <1>0, <3>2 DEF Step
    <3> QED BY <3>1, <3>3, <2>1, <1>1 DEF Advances
  <2>3. CASE Post(s)
    <3>1. PICK b, c : Advances(s, [s EXCEPT !.at = "record", !.succeeded = b, !.final = c])
      BY <2>3 DEF Post
    <3>2. [s EXCEPT !.at = "record", !.succeeded = b, !.final = c].at = "record"
      BY <1>0 DEF Step
    <3> QED BY <3>1, <3>2, <1>1 DEF Advances
  <2>4. CASE RecordAttempt(s) \/ CancelDelivery(s) \/ WriteFails(s)
    BY <2>4, <2>1, <1>1 DEF RecordAttempt, CancelDelivery, WriteFails
  <2> QED BY <1>2, <2>2, <2>3, <2>4 DEF HandlerStep
<1>3. ASSUME NEW w \in Workers, ClaimDeliveries(w) PROVE t.at # "cancel"
  BY <1>1, <1>3 DEF ClaimDeliveries, StartStep
<1>4. \/ t \in steps
      \/ \E s \in steps : HandlerStep(s)
      \/ \E w \in Workers : ClaimDeliveries(w)
  BY DEF Next, vars, Schedule, Redeliver, RetryDelivery, Redrive, LeaseEnds, CancelJob,
     LoseJob, SwitchEndpoint, DeleteInvoice, EmptyJob, EmptyDelivery, ProcessCrash,
     ProcessShutdown, RunEnds, LeaseRenewed, ListStalled, SettleStalled, Interrupt
<1> QED BY <1>1, <1>2, <1>3, <1>4

\* So no delivery becomes cancelled.
LEMMA NoneCancelled ==
  ASSUME DeliveryTypeOK, NothingIsCancelled, [Next]_vars, NEW d \in Jobs
  PROVE  deliveries'[d].status # "cancelled"
<1>0. /\ deliveries \in [Jobs -> Delivery] /\ deliveries[d].status # "cancelled"
      /\ \A s \in steps : s \in Step /\ s.job \in Jobs /\ s.at # "cancel"
  BY DEF DeliveryTypeOK, Step, NothingIsCancelled
<1> DEFINE Kept == deliveries'[d].status # "cancelled"
<1>1. ASSUME NEW e \in Jobs, Schedule(e) \/ Redeliver(e) \/ RetryDelivery(e) PROVE Kept
  BY <1>0, <1>1 DEF Schedule, Redeliver, RetryDelivery, Redrive, Delivery
<1>2. ASSUME NEW s \in steps, RecordAttempt(s) PROVE Kept
  <2>1. deliveries' = [deliveries EXCEPT ![s.job] = Recorded(deliveries[s.job], s)]
    BY <1>2 DEF RecordAttempt
  <2>2. Recorded(deliveries[s.job], s).status # "cancelled"
    BY DEF Recorded, NothingIsCancelled, DeliveryTypeOK, Step
  <2> QED BY <2>1, <2>2, <1>0
<1>3. ASSUME NEW s \in steps, CancelDelivery(s) PROVE Kept
  BY <1>0, <1>3 DEF CancelDelivery
<1>4. ASSUME NEW x \in stalled, SettleStalled(x) PROVE Kept
  <2>1. x.job \in Jobs
    BY DEF DeliveryTypeOK
  <2> QED BY <1>0, <1>4, <2>1 DEF SettleStalled, FailStalled, Delivery
<1>5. ASSUME UNCHANGED deliveries PROVE Kept
  BY <1>0, <1>5
<1>6. \/ UNCHANGED deliveries
      \/ \E e \in Jobs : Schedule(e) \/ Redeliver(e) \/ RetryDelivery(e)
      \/ \E s \in steps : RecordAttempt(s) \/ CancelDelivery(s)
      \/ \E x \in stalled : SettleStalled(x)
  BY DEF Next, vars, LeaseEnds, CancelJob, LoseJob, SwitchEndpoint, DeleteInvoice,
     EmptyJob, EmptyDelivery, ClaimDeliveries, ProcessCrash, ProcessShutdown, HandlerStep,
     Load, Post, WriteFails, RunEnds, LeaseRenewed, ListStalled
<1> QED BY <1>1, <1>2, <1>3, <1>4, <1>5, <1>6

\* A run comes to complete its job when its handler returns a success.
LEMMA CompletingRuns ==
  ASSUME DeliveryTypeOK, [Next]_vars, NEW q \in runs', q.phase = "completing"
  PROVE  \/ q \in runs
         \/ \E s \in steps : /\ HandlerStep(s) /\ Returns(s, "completing")
                             /\ q.job = s.job /\ Handling(s) # {}
<1> DEFINE Known == q \in runs
           Returned == \E s \in steps : /\ HandlerStep(s) /\ Returns(s, "completing")
                                        /\ q.job = s.job /\ Handling(s) # {}
<1>0. \A r \in runs : r \in Run
  BY DEF DeliveryTypeOK, TypeOK
<1>1. ASSUME NEW s \in steps, HandlerStep(s) PROVE Known \/ Returned
  <2>1. ASSUME NEW phase, Returns(s, phase)
        PROVE  \/ Known
               \/ Returns(s, "completing") /\ q.job = s.job /\ Handling(s) # {}
    <3>1. Known \/ \E r \in Handling(s) : q = [r EXCEPT !.phase = phase]
      BY <2>1 DEF Returns
    <3>2. ASSUME NEW r \in Handling(s), q = [r EXCEPT !.phase = phase]
          PROVE  phase = "completing" /\ q.job = s.job /\ Handling(s) # {}
      BY <1>0, <3>2 DEF Handling, Run
    <3> QED BY <2>1, <3>1, <3>2
  <2>2. CASE runs' = runs
    BY <2>2
  <2>3. (\E phase : Returns(s, phase)) \/ runs' = runs
    BY <1>1 DEF HandlerStep, Load, Post, RecordAttempt, CancelDelivery, WriteFails,
       Advances, queueVars
  <2> QED BY <1>1, <2>1, <2>2, <2>3
<1>2. ASSUME NEW w \in Workers, ClaimDeliveries(w) PROVE Known
  BY <1>2 DEF ClaimDeliveries, Claim, NewRun
<1>3. ASSUME NEW w \in Workers, ProcessCrash(w) \/ ProcessShutdown(w) PROVE Known
  BY <1>0, <1>3 DEF ProcessCrash, ProcessShutdown, Crash, Shutdown, Run
<1>4. ASSUME NEW r \in runs, RunEnds(r) \/ LeaseRenewed(r) PROVE Known
  BY <1>4 DEF RunEnds, LeaseRenewed, Settle, Release, Abandon, Heartbeat
<1>5. ASSUME runs' = runs PROVE Known
  BY <1>5
<1>6. \/ runs' = runs
      \/ \E s \in steps : HandlerStep(s)
      \/ \E w \in Workers : ClaimDeliveries(w) \/ ProcessCrash(w) \/ ProcessShutdown(w)
      \/ \E r \in runs : RunEnds(r) \/ LeaseRenewed(r)
  BY DEF Next, vars, queueVars, Schedule, Redeliver, RetryDelivery, Redrive, Restart,
     EnqueueJob, LeaseEnds, LeaseExpires, CancelJob, OperatorCancel, LoseJob,
     SwitchEndpoint, DeleteInvoice, EmptyJob, EmptyDelivery, ListStalled, SettleStalled,
     FailStalled
<1> QED BY <1>1, <1>2, <1>3, <1>4, <1>5, <1>6

\* Such a handler found its delivery succeeded, or made it so.
LEMMA ReturnedIsDelivered ==
  ASSUME DeliveryTypeOK, RunsNamed, NothingIsCancelled, NEW s \in steps,
         HandlerStep(s), Returns(s, "completing"), Handling(s) # {}
  PROVE  deliveries'[s.job].status = "succeeded"
<1>0. /\ s \in Step /\ s.job \in Jobs /\ s.at # "cancel"
      /\ deliveries \in [Jobs -> Delivery] /\ deliveries[s.job].status # "cancelled"
  BY DEF DeliveryTypeOK, Step, NothingIsCancelled
<1> PICK r : r \in Handling(s)
  OBVIOUS
<1> DEFINE done == [r EXCEPT !.phase = "completing"]
<1>1. r \in runs /\ r \in Run /\ r.phase = "handling" /\ done.phase = "completing"
  BY DEF Handling, DeliveryTypeOK, TypeOK, Run
<1>2. done \in runs' /\ r \notin runs'
  <2>1. runs' = (runs \ Handling(s)) \cup
                  {[u EXCEPT !.phase = "completing"] : u \in Handling(s)}
    BY DEF Returns
  <2>2. \A u \in Handling(s) : r # [u EXCEPT !.phase = "completing"]
    BY <1>1 DEF Handling, DeliveryTypeOK, TypeOK, Run
  <2> QED BY <2>1, <2>2
<1>3. UNCHANGED queueVars => FALSE
  BY <1>1, <1>2 DEF queueVars
<1>4. \A b \in BOOLEAN : ~Returns(s, AfterFailure(s, b))
  <2> SUFFICES ASSUME NEW b \in BOOLEAN, Returns(s, AfterFailure(s, b)) PROVE FALSE
    OBVIOUS
  <2>1. AfterFailure(s, b) # "completing"
    BY DEF AfterFailure
  <2>2. done \notin Handling(s)
    BY <1>1 DEF Handling
  <2>3. \A u \in Handling(s) :
          [u EXCEPT !.phase = AfterFailure(s, b)].phase = AfterFailure(s, b)
    BY DEF Handling, DeliveryTypeOK, TypeOK, Run
  <2>4. done \in runs
    <3> HIDE DEF done
    <3> QED BY <1>1, <1>2, <2>1, <2>3 DEF Returns
  <2>5. done.job = r.job /\ done.claim = r.claim
    BY <1>1 DEF Run
  <2> QED BY <1>1, <2>4, <2>5 DEF RunsNamed
<1> HIDE DEF done
<1>5. CASE Load(s)
  <2>1. ~Advances(s, [s EXCEPT !.at = IF CannotSend(s.job) THEN "cancel" ELSE "post"])
    BY <1>3 DEF Advances
  <2>2. deliveries[s.job].status \in {"succeeded", "cancelled"} /\ deliveries' = deliveries
    BY <1>4, <1>5, <2>1 DEF Load
  <2> QED BY <1>0, <2>2
<1>6. CASE RecordAttempt(s)
  <2>1. Returns(s, AfterAttempt(s))
    BY <1>6 DEF RecordAttempt
  <2>2. s.succeeded
    BY <1>0, <1>4, <2>1 DEF AfterAttempt, Step
  <2>3. Recorded(deliveries[s.job], s).status = "succeeded"
    BY <1>0, <2>2 DEF Recorded
  <2> QED BY <1>0, <1>6, <2>3 DEF RecordAttempt
<1>7. CASE Post(s)
  BY <1>7, <1>3 DEF Post, Advances
<1>8. CASE CancelDelivery(s)
  BY <1>0, <1>8 DEF CancelDelivery
<1>9. CASE WriteFails(s)
  BY <1>4, <1>9 DEF WriteFails
<1> QED BY <1>5, <1>6, <1>7, <1>8, <1>9 DEF HandlerStep

\* A job becomes succeeded when a run completes it.
LEMMA SucceededJobs ==
  ASSUME DeliveryTypeOK, [Next]_vars, NEW d \in Jobs, jobs'[d].status = "succeeded"
  PROVE  \/ jobs[d].status = "succeeded"
         \/ \E r \in runs : r.job = d /\ r.phase = "completing"
<1>0. jobs \in [Jobs -> JobRow]
  BY DEF DeliveryTypeOK, TypeOK
<1> DEFINE Known == jobs[d].status = "succeeded"
<1>1. \A row \in JobRow : /\ Fresh(row).status = "queued"
                          /\ ReleasedRow(row).status = "queued"
                          /\ \A u \in Status : Unlocked(row, u).status = u
  BY RowFields
<1>2. ASSUME NEW e \in Jobs, jobs' = EnqueuedRows({e}) PROVE Known
  BY <1>0, <1>1, <1>2 DEF EnqueuedRows
<1>3. ASSUME NEW e \in Jobs, Restart(e) \/ OperatorCancel(e) \/ LeaseExpires(e)
      PROVE  Known
  BY <1>0, <1>1, <1>3 DEF Restart, OperatorCancel, LeaseExpires, JobRow, Status
<1>4. ASSUME NEW e \in Jobs, LoseJob(e) PROVE Known
  <2>1. [Unlocked(jobs[e], "absent") EXCEPT !.attempts = 0].status = "absent"
    BY <1>0 DEF Unlocked, JobRow
  <2> QED BY <1>0, <1>4, <2>1 DEF LoseJob
<1>5. ASSUME NEW w \in Workers, NEW S \in SUBSET Jobs, Claim(w, S) PROVE Known
  BY <1>0, <1>5, RowFields DEF Claim, Status
<1>6. ASSUME NEW r \in runs, RunEnds(r) \/ LeaseRenewed(r)
      PROVE  Known \/ (r.job = d /\ r.phase = "completing")
  <2>1. r.job \in Jobs
    BY DEF DeliveryTypeOK, TypeOK, Run
  <2>2. CASE Settle(r)
    <3>1. r.phase \in {"completing", "retrying", "failing"}
      BY <2>2 DEF Settle, Written
    <3>2. /\ Written[r.phase] \in Status
          /\ Written[r.phase] = "succeeded" => r.phase = "completing"
      BY <3>1 DEF Written, Status
    <3> QED BY <2>1, <2>2, <3>2, <1>0, <1>1, <1>6 DEF Settle
  <2>3. CASE Release(r)
    BY <2>1, <2>3, <1>0, <1>1, <1>6 DEF Release
  <2>4. CASE Abandon(r)
    BY <2>4, <1>6 DEF Abandon
  <2>5. CASE Heartbeat(r)
    BY <2>1, <2>5, <1>0, <1>6 DEF Heartbeat, JobRow
  <2> QED BY <1>6, <2>2, <2>3, <2>4, <2>5 DEF RunEnds, LeaseRenewed
<1>7. ASSUME jobs' = jobs PROVE Known
  BY <1>7
<1>8. \/ jobs' = jobs
      \/ \E e \in Jobs : \/ jobs' = EnqueuedRows({e})
                         \/ Restart(e) \/ OperatorCancel(e) \/ LeaseExpires(e)
                         \/ LoseJob(e)
      \/ \E w \in Workers : ClaimDeliveries(w)
      \/ \E r \in runs : RunEnds(r) \/ LeaseRenewed(r)
  <2>1. \A x \in stalled : x.job \in Jobs
    BY DEF DeliveryTypeOK
  <2>2. ASSUME NEW e \in Jobs, Schedule(e) \/ Redeliver(e) \/ RetryDelivery(e)
        PROVE  jobs' = EnqueuedRows({e}) \/ Restart(e)
    BY <2>2 DEF Schedule, Redeliver, RetryDelivery, Redrive, EnqueueJob
  <2>3. ASSUME NEW e \in Jobs, LeaseEnds(e) \/ CancelJob(e)
        PROVE  OperatorCancel(e) \/ LeaseExpires(e)
    BY <2>3 DEF LeaseEnds, CancelJob
  <2>4. ASSUME NEW x \in stalled, SettleStalled(x)
        PROVE  jobs' = jobs \/ jobs' = EnqueuedRows({x.job})
    BY <2>4 DEF SettleStalled, FailStalled, EnqueueJob, queueVars
  <2>5. ASSUME NEW s \in steps, HandlerStep(s) PROVE jobs' = jobs
    BY <2>5 DEF HandlerStep, Load, Post, RecordAttempt, CancelDelivery, WriteFails,
       Returns, Advances, queueVars
  <2>6. ASSUME NEW w \in Workers, ProcessCrash(w) \/ ProcessShutdown(w) PROVE jobs' = jobs
    BY <2>6 DEF ProcessCrash, ProcessShutdown, Crash, Shutdown
  <2>7. ASSUME NEW e \in Jobs,
               \/ SwitchEndpoint(e) \/ DeleteInvoice(e) \/ EmptyJob(e) \/ EmptyDelivery(e)
        PROVE  jobs' = jobs
    BY <2>7 DEF SwitchEndpoint, DeleteInvoice, EmptyJob, EmptyDelivery, queueVars
  <2>8. ListStalled \/ UNCHANGED vars => jobs' = jobs
    BY DEF ListStalled, vars, queueVars
  <2> QED BY <2>1, <2>2, <2>3, <2>4, <2>5, <2>6, <2>7, <2>8 DEF Next
<1>9. ASSUME NEW w \in Workers, ClaimDeliveries(w) PROVE Known
  BY <1>5, <1>9 DEF ClaimDeliveries
<1> QED BY <1>2, <1>3, <1>4, <1>6, <1>7, <1>8, <1>9

\* A job that succeeded leaves no unsettled delivery behind, whatever crashes,
\* stalls, is cancelled by an operator or is lost: nobody would look at the
\* delivery again.
THEOREM SucceededIsSettled ==
  ASSUME Disruptions \cap {"close", "delete", "retention"} = {}
  PROVE  Spec => []SucceededJobSettled
<1>1. Init => SuccessInv
  BY DEF Init, QueueInit, SuccessInv, NothingIsCancelled, CompletedIsDelivered,
         CannotSend
<1>2. ASSUME DeliveryTypeOK, RunsNamed, SuccessInv, [Next]_vars PROVE SuccessInv'
  <2>1. NothingIsCancelled'
    <3>1. \A d \in Jobs : CannotSend(d)' <=> CannotSend(d)
      BY <1>2, ContentStays DEF CannotSend
    <3> QED BY <1>2, <3>1, NobodyCancels, NoneCancelled DEF SuccessInv, NothingIsCancelled
  <2>2. ASSUME NEW q \in runs', q.phase = "completing"
        PROVE  deliveries'[q.job].status = "succeeded"
    <3>1. CASE q \in runs
      <4>1. q.job \in Jobs /\ deliveries[q.job].status = "succeeded"
        BY <1>2, <2>2, <3>1 DEF SuccessInv, CompletedIsDelivered, DeliveryTypeOK, TypeOK,
           Run
      <4> QED BY <1>2, <4>1, SettledStep
    <3>2. ASSUME NEW s \in steps, HandlerStep(s), Returns(s, "completing"),
                 Handling(s) # {}
          PROVE  deliveries'[s.job].status = "succeeded"
      BY <1>2, <3>2, ReturnedIsDelivered DEF SuccessInv
    <3> QED BY <1>2, <2>2, <3>1, <3>2, CompletingRuns
  <2>3. ASSUME NEW d \in Jobs, jobs'[d].status = "succeeded"
        PROVE  deliveries'[d].status = "succeeded"
    <3>1. deliveries[d].status = "succeeded"
      BY <1>2, <2>3, SucceededJobs DEF SuccessInv, CompletedIsDelivered
    <3> QED BY <1>2, <3>1, SettledStep
  <2> QED BY <2>1, <2>2, <2>3 DEF SuccessInv, CompletedIsDelivered
<1>3. SuccessInv => SucceededJobSettled
  BY DEF SuccessInv, CompletedIsDelivered, SucceededJobSettled, Settled
<1>4. DeliveryInv => DeliveryTypeOK /\ RunsNamed
  BY DEF DeliveryInv
<1> QED BY <1>1, <1>2, <1>3, <1>4, DeliveryInvariant, PTL DEF Spec
=============================================================================
