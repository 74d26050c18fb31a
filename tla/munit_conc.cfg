\* Two threads on one case: overlapping runs, reads, insmod, rmmod.
SPECIFICATION Spec
CONSTANTS
  p1 = p1  p2 = p2  k1 = k1  k2 = k2  a1 = a1  a2 = a2  b1 = b1
  Procs <- TwoProcs
  Kos <- OneKo
  Cases <- SmallTableCases
  CaseTable <- SmallTable
  CaseName <- CaseNames
  InitName <- InitNames
  NameHas <- OwnNames
  PageSize = 6
  LineLens = {3}
  MaxLines = 2
  Verdicts = {TRUE, FALSE}
  RunKinds = {"run", "log"}
  ReadKinds = {"run", "res", "log"}
  RawLens = {0, 6}
  ReadSizes = {4}
  SizeMod = 16
  AllocMayFail = TRUE
  None = None
SYMMETRY Sym
CHECK_DEADLOCK FALSE
INVARIANTS
  TypeOK
  NoUseAfterUnload
  SoloVerdict
  LogFits
  LogRecorded
  ReadWithinText
PROPERTY ImplementsBoard
