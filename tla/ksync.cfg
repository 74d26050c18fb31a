SPECIFICATION Spec
CONSTANTS
  a = a
  b = b
  x = x
  y = y
  Syms = {a, b}
  Objects = {x, y}
  Values = {0, 1}
  No = 0
  New = New
  None = None
  Words <- MCWords
  Removals = {"gone"}
  MayFail = {"mconf"}
  MaxEdits = 4
  MaxCrashes = 2
  MaxFailures = 1
CHECK_DEADLOCK FALSE
INVARIANTS
  
  ConfigKept

  
