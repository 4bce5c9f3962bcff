SPECIFICATION Spec
CONSTANTS
  j1 = j1
  j2 = j2
  NoJob = NoJob
  Jobs <- OneJob
  Origins <- UploadsOnly
  QueueCapacity = 1
  MaxConcurrentJobs = 1
  DbOutcomes <- NoFaults
  Expirable <- NoTimeouts
  MaxBoots = 1
INVARIANTS
  CancelledLeavesNoCompleteRow
CHECK_DEADLOCK FALSE
