\* The same inputs, with conditions that go on after a backslash-newline.
SPECIFICATION CppSpec
CONSTANTS
  undef = undef
  word = word
  Worlds <- TwoWorlds
  Conds <- AllConds
  MAXDEPTH = 3
  IoccOk = TRUE
  Leads = {"if", "else", "endif"}
  SplitConds = TRUE
CHECK_DEADLOCK FALSE
INVARIANTS
  SameSelection
