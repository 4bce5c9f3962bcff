SPECIFICATION FairSpec
CONSTANTS
  r1 = r1
  r2 = r2
  r3 = r3
  seg = seg
  virt = virt
  NoOne = NoOne
  Requests <- ThreeRequests
  Keys <- TwoKeys
  Source <- VirtualFromTwice
  Split <- SegmentInParts
  Clients <- TwoClients
INVARIANTS
  LeadersHoldTheirFlights
  FlightsAreFinished
PROPERTIES
  FollowersAreAnswered
CHECK_DEADLOCK FALSE
