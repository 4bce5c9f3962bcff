SPECIFICATION Spec
CONSTANTS
  r1 = r1
  r2 = r2
  r3 = r3
  seg = seg
  virt = virt
  NoOne = NoOne
  Requests <- TwoRequests
  Keys <- TwoKeys
  Source <- VirtualFromSegment
  Split <- Whole
  Clients <- TwoClients
INVARIANTS
  NoPoisonedFlight
CHECK_DEADLOCK FALSE
