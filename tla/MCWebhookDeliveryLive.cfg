SPECIFICATION FairSpec
CONSTANTS
  hook = hook
  w1 = w1
  w2 = w2
  Jobs <- MCJobs
  WebhookJobs <- MCJobs
  BudgetedJobs <- MCNoJobs
  Workers <- MCWorkers
  NoWorker = NoWorker
  MaxAttempts = 2
  Concurrency = 2
  HeartbeatsMayStall = FALSE
  MaxExits = 1
  MaxRestarts = 1
  Disruptions = {"cancel", "lose", "retention"}
INVARIANTS
  DeliveryTypeOK
  SucceededJobSettled
PROPERTIES
  EveryDeliverySettles
