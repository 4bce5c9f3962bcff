SPECIFICATION Spec
CONSTANTS
  f1 = f1
  f2 = f2
  a = a
  b = b
  Nothing = Nothing
  Files <- Both
  Video = f1
  Order <- Names
  Parsed <- Said
  Categories <- Used
  Texts <- Shown
  Numbers <- Some
  Typed <- Left
  Words <- Asked
  Results <- Finds
  Items <- Known
  TitleOf <- Named
  AutoItem = b
  MaxSelections = 2
  MaxRequests = 2
  MaxInputs = 1
  MaxFaults = 1
INVARIANTS
  TypeOK
  LinkWasChosen
  ShownIsStored
  StoredIsComplete
CHECK_DEADLOCK FALSE
