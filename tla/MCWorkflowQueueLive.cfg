SPECIFICATION FairQueueSpec
CONSTANTS
  hook = hook
  doc = doc
  w1 = w1
  w2 = w2
  Jobs <- MCJobs
  WebhookJobs <- MCWebhookJobs
  BudgetedJobs <- MCBudgetedJobs
  Workers <- MCWorkers
  NoWorker = NoWorker
  MaxAttempts = 2
  Concurrency = 2
  HeartbeatsMayStall = FALSE
  MaxExits = 1
  MaxRestarts = 1
INVARIANTS
  TypeOK
  LeaseMatchesStatus
  OneRunPerJob
  QueuedIsClaimable
PROPERTIES
  LifecycleSpec
  EveryJobSettles
