SPECIFICATION Spec
CONSTANTS
  q = q
  NoContent = NoContent
  NoDecision = NoDecision
  NoAnswer = NoAnswer
  NoAmount = NoAmount
  Questions <- MCQuestions
  Jobs <- RevisionJobs
  MaxAttempts = 2
  MaxStalls = 1
  MaxExits = 1
  Policies <- MCPolicies
  Readings <- MCReadings
  MaxReads = 2
  Acts = {"read", "rerun", "resolve", "retry", "settings", "delete"}
  MaxEvents = 2
  ReconcilersOverlap = FALSE
  Roles <- MCRoles
CHECK_DEADLOCK FALSE
INVARIANTS
  RevisionTypeOK
  SentIffLetThrough
  HeldCorrectionWaits
  OneRevisionPerRead
  NewestUpdateDecides
  UpdatesAreCurrent
PROPERTIES
  PostIsLetThrough
