SPECIFICATION FairSpec
CONSTANTS
  j1 = j1
  j2 = j2
  j3 = j3
  j4 = j4
  upload = upload
  theme = theme
  Nothing = Nothing
  PaletteSize = 2
  Actions <- Quick
  ActionsFound <- Toggle
  Theme = theme
  Jobs <- Videos
  First <- Newest
  Found <- Hits
  Seasons <- Numbers
  SeasonOf <- Season
  PageSize = 1
  MaxRequests = 4
  MaxPolls = 2
  MaxChanges = 2
INVARIANTS
  TypeOK
  
  AnswersFitQuestions
PROPERTIES
  PillSettles
CHECK_DEADLOCK FALSE
