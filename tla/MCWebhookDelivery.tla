------------------------- MODULE MCWebhookDelivery -------------------------
(***************************************************************************)
(* One webhook delivery with its job, and two runner processes.            *)
(***************************************************************************)
EXTENDS WebhookDelivery, TLC

CONSTANTS hook, w1, w2

MCJobs == {hook}
MCNoJobs == {}
MCWorkers == {w1, w2}

\* Worker ids are random; nothing else tells two processes apart.
MCSymmetry == Permutations(MCWorkers)
=============================================================================
