-------------------------- MODULE MCWorkflowQueue --------------------------
(***************************************************************************)
(* The workflow queue with two jobs, one of them a webhook delivery and    *)
(* the other one held back by the TypeSafe budget, and two processes.      *)
(***************************************************************************)
EXTENDS WorkflowQueue, TLC

CONSTANTS hook, doc, w1, w2

MCJobs == {hook, doc}
MCHookOnly == {hook}
MCNoJobs == {}
MCWebhookJobs == {hook}
MCBudgetedJobs == {doc}
MCWorkers == {w1, w2}

\* Worker ids are random; nothing else tells two processes apart.
MCSymmetry == Permutations(MCWorkers)
=============================================================================
