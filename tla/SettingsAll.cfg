SPECIFICATION Spec
CONSTANTS
  p1 = p1
  p2 = p2
  ttl = ttl
  secret = secret
  w1 = w1
  NoWord = NoWord
  Absent = Absent
  Pages <- TwoPages
  Ints <- OneInt
  Secret = secret
  Numbers <- Typed
  Units <- Seconds
  Least = 1
  Default = 120
  Words <- OneWord
  FirstBots <- Bots
  MaxBot = 3
  MaxRequests = 3
  MaxFaults = 1
  MaxEdits = 1
SYMMETRY Symmetry
INVARIANTS
  TypeOK
  LoneHandlerIsCurrent

  
CHECK_DEADLOCK FALSE
