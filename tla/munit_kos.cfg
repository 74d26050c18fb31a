\* Two threads, two kos with two cases and one: partial registration, removal file by file,
\* list, mutex and name search.
SPECIFICATION Spec
CONSTANTS
  p1 = p1  p2 = p2  k1 = k1  k2 = k2  a1 = a1  a2 = a2  b1 = b1
  Procs <- TwoProcs
  Kos <- TwoKos
  Cases <- MixTablesCases
  CaseTable <- MixTables
  CaseName <- CaseNames
  InitName <- InitNames
  NameHas <- OwnNames
  PageSize = 6
  LineLens = {3}
  MaxLines = 1
  Verdicts = {TRUE}
  RunKinds = {"run"}
  ReadKinds = {}
  RawLens = {0}
  ReadSizes = {4}
  SizeMod = 16
  AllocMayFail = TRUE
  None = None
SYMMETRY Sym
CHECK_DEADLOCK FALSE
INVARIANTS
  NoDanglingModule
  ListMatchesLoader
  RegistrationIsPrefix
