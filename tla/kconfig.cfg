SPECIFICATION ScreensSpec
CONSTANTS
  Menus <- MCMenus
  Num <- MCNum
  Entries = {4, 12}
  LoadsMissing = FALSE
  MaxKeys = 3
  ClicksUnanswered = FALSE
CHECK_DEADLOCK FALSE
INVARIANTS
  KTypeOK
  CacheCoherent
  ChoiceExclusive
  DepsRespected
  EntryReachable
  NothingLost
  NothingNewLeft
  
