SPECIFICATION FairSpec
CONSTANTS
  q = q
  NoContent = NoContent
  NoDecision = NoDecision
  NoAnswer = NoAnswer
  NoAmount = NoAmount
  Questions <- MCQuestions
  Jobs <- RevisionJobs
  MaxAttempts = 2
  MaxStalls = 0
  MaxExits = 1
  Policies <- MCOnePolicy
  Readings <- MCTwoReadings
  MaxReads = 1
  Acts = {"read", "rerun", "resolve", "retry", "settings", "delete"}
  MaxEvents = 2
  ReconcilersOverlap = TRUE
  Roles <- MCRoles
CHECK_DEADLOCK FALSE
PROPERTIES
  NothingInProgressForEver
