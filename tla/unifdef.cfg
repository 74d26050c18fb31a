\* Every input, up to the nesting bound, whose directives follow no comment
\* where unifdef is known to fail.
SPECIFICATION CppSpec
CONSTANTS
  undef = undef
  word = word
  Worlds <- TwoWorlds
  Conds <- AllConds
  MAXDEPTH = 4
  IoccOk = TRUE
  Leads = {"if", "else", "endif"}
  SplitConds = FALSE
CHECK_DEADLOCK FALSE
INVARIANTS
  TypeOK
  SameSelection
  OutputWellFormed
  DoneClosed
