---------------------------- MODULE JobLifecycle ----------------------------
(***************************************************************************)
(* What the workflow queue promises about one job row, without saying how: *)
(* a job is pending until it succeeds or fails, a pending job is tried at  *)
(* most MaxAttempts times (a try handed back is not counted), and a        *)
(* finished job only becomes pending again because somebody asked for it,  *)
(* with a full budget.  WorkflowQueue implements this module.              *)
(***************************************************************************)
EXTENDS Naturals

CONSTANTS
  Jobs,         \* identities of jobs: (workflow name, idempotency key)
  MaxAttempts   \* workflow_jobs.max_attempts

VARIABLES
  outcome,      \* outcome[j]: "absent", "pending", "succeeded" or "failed"
  tries         \* tries[j]: counted tries since the job was last (re)started

vars == <<outcome, tries>>

Init ==
  /\ outcome = [j \in Jobs |-> "absent"]
  /\ tries = [j \in Jobs |-> 0]

\* A job is recorded once per identity, with a full budget.
Record(j) ==
  /\ outcome[j] = "absent"
  /\ outcome' = [outcome EXCEPT ![j] = "pending"]
  /\ tries' = [tries EXCEPT ![j] = 0]

\* Pending jobs start a try; only a job with budget left does.
Try(S) ==
  /\ \A j \in S : outcome[j] = "pending" /\ tries[j] < MaxAttempts
  /\ tries' = [j \in Jobs |-> IF j \in S THEN tries[j] + 1 ELSE tries[j]]

\* Pending jobs whose budget is spent and whose last try vanished fail.
GiveUp(S) ==
  /\ \A j \in S : outcome[j] = "pending" /\ tries[j] >= MaxAttempts
  /\ outcome' = [j \in Jobs |-> IF j \in S THEN "failed" ELSE outcome[j]]

\* One poll gives up on some jobs and tries others.
Poll == \E G, S \in SUBSET Jobs : GiveUp(G) /\ Try(S)

\* A try is handed back without being counted.
HandBack(j) ==
  /\ outcome[j] = "pending"
  /\ tries[j] > 0
  /\ tries' = [tries EXCEPT ![j] = @ - 1]
  /\ outcome' = outcome

\* A pending job that was tried succeeds or fails.
Succeed(j) ==
  /\ outcome[j] = "pending"
  /\ tries[j] > 0
  /\ outcome' = [outcome EXCEPT ![j] = "succeeded"]
  /\ tries' = tries

Fail(j) ==
  /\ outcome[j] = "pending"
  /\ outcome' = [outcome EXCEPT ![j] = "failed"]
  /\ tries' = tries

\* A finished job is asked for again: a full budget.
Restart(j) ==
  /\ outcome[j] \in {"succeeded", "failed"}
  /\ outcome' = [outcome EXCEPT ![j] = "pending"]
  /\ tries' = [tries EXCEPT ![j] = 0]

Next ==
  \/ Poll
  \/ \E j \in Jobs :
       Record(j) \/ HandBack(j) \/ Succeed(j) \/ Fail(j) \/ Restart(j)

Spec == Init /\ [][Next]_vars
=============================================================================
