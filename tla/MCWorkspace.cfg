SPECIFICATION FairSpec
CONSTANTS
  Jobs <- MCJobs
  Paths <- MCPaths
  Uploaders <- MCUploaders
  Loads <- MCLoads
  MaxAttempts = 2
  MaxStalls = 0
  MaxExits = 1
  MaxRecords = 2
  MaxAsks = 1
  MaxResumes = 1
CHECK_DEADLOCK FALSE
INVARIANTS
  WorkspaceTypeOK
  AcceptedHasObject
  BytesAreRemembered
  ArchiveMatchesRequest
  ProcessedMailWasRead
  OnlyUnfinishedWritesReturn
PROPERTIES
  RequestsSettle
