SPECIFICATION Spec
CONSTANTS
  Nothing = Nothing
  Done = 3
  End = 4
  MaxVisits = 3
  MaxMoves = 3
  MaxPosts = 2
  MaxFaults = 1
INVARIANTS
  FurthestIsStored
  RecoversOnce

  
CHECK_DEADLOCK FALSE
