SPECIFICATION FairSpec
CONSTANTS
  j1 = j1
  j2 = j2
  NoJob = NoJob
  Jobs <- TwoJobs
  Origins <- UploadsOnly
  QueueCapacity = 1
  MaxConcurrentJobs = 1
  DbOutcomes <- Faults
  Expirable <- NoTimeouts
  MaxBoots = 1
INVARIANTS
  PermitsBalance
  RequestInOnePlace
PROPERTIES
  SendersProceed
  ImplementsPool
CHECK_DEADLOCK FALSE
