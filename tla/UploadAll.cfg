SPECIFICATION FairSpec
CONSTANTS
  u1 = u1
  u2 = u2
  q1 = q1
  q2 = q2
  q3 = q3
  q4 = q4
  NoUpload = NoUpload
  Uploads <- OneUpload
  Requests <- FourRequests
  TotalSize <- OneSize
  ChunkSize = 2
  MaxPending = 1
  MaxBoots = 2
INVARIANTS
  BytesMatch
  OneWriter
  FinalizedIsFrozen
  OneJobPerUpload
  FilesAreOwned
PROPERTIES
  UploadsEnd
CHECK_DEADLOCK FALSE
