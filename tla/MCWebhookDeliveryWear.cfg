SPECIFICATION Spec
CONSTANTS
  hook = hook
  w1 = w1
  w2 = w2
  Jobs <- MCJobs
  WebhookJobs <- MCJobs
  BudgetedJobs <- MCNoJobs
  Workers <- MCWorkers
  NoWorker = NoWorker
  MaxAttempts = 2
  Concurrency = 2
  HeartbeatsMayStall = TRUE
  MaxExits = 0
  MaxRestarts = 1
  Disruptions = {"cancel", "close", "delete"}
SYMMETRY MCSymmetry
INVARIANTS
  SlotsRespected
  DeliveredMeansReceived
PROPERTIES
  FinishedStaysFinished
  LeaseProtects
  ExplicitRetryWins
  QueueUnderneath
  SettledIsKept
  FailureAnnounced
