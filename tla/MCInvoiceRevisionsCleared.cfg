SPECIFICATION Spec
CONSTANTS
  q = q
  NoContent = NoContent
  NoDecision = NoDecision
  NoAnswer = NoAnswer
  NoAmount = NoAmount
  Questions <- MCQuestions
  Jobs <- RevisionJobs
  MaxAttempts = 2
  MaxStalls = 0
  MaxExits = 0
  Policies <- MCOnePolicy
  Readings <- MCCorrectable
  MaxReads = 1
  Acts = {"read", "rerun", "resolve", "retry", "settings", "delete"}
  MaxEvents = 4
  ReconcilersOverlap = FALSE
  Roles <- MCMembers
CHECK_DEADLOCK FALSE
INVARIANTS
  MemberCannotClearHold
