SPECIFICATION ScreensSpec
CONSTANTS
  Menus <- StaleMenus
  Num <- MCNum
  Entries = {4, 12}
  LoadsMissing = FALSE
  MaxKeys = 3
  ClicksUnanswered = FALSE
CHECK_DEADLOCK FALSE
INVARIANT
  CacheCoherent
