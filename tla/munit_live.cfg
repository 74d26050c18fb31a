\* Two threads, two kos: every call ends, but for the known embrace.
SPECIFICATION LiveSpec
CONSTANTS
  p1 = p1  p2 = p2  k1 = k1  k2 = k2  a1 = a1  a2 = a2  b1 = b1
  Procs <- TwoProcs
  Kos <- TwoKos
  Cases <- SmallTableCases
  CaseTable <- BareTable
  CaseName <- CaseNames
  InitName <- InitNames
  NameHas <- OwnNames
  PageSize = 6
  LineLens = {3}
  MaxLines = 1
  Verdicts = {TRUE}
  RunKinds = {"run"}
  ReadKinds = {"log"}
  RawLens = {0}
  ReadSizes = {4}
  SizeMod = 16
  AllocMayFail = FALSE
  None = None
CHECK_DEADLOCK FALSE
PROPERTY CallsEnd
