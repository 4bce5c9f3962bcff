SPECIFICATION FairSpec
CONSTANTS
  j1 = j1
  j2 = j2
  NoJob = NoJob
  Jobs <- OneJob
  Origins <- AllOrigins
  QueueCapacity = 1
  MaxConcurrentJobs = 0
  DbOutcomes <- NoFaults
  Expirable <- OneJob
  MaxBoots = 2
INVARIANTS
  CompleteWasSaved
  OneVerdict
  QuietLeavesNoDir
  ErrorIsRecorded
  
PROPERTIES
  VerdictIsFinal
  JobsSettle
CHECK_DEADLOCK FALSE
