\* Builds of every configuration for three lists of formats, one of them killed at any point.
SPECIFICATION Spec
CONSTANTS
  AllCaps = {"CAP_CHOWN", "CAP_KILL", "CAP_SYS_ADMIN"}
  Configs <- MCConfigs
  Tars <- MCTars
  Labels <- MCLabels
  KernelTar <- MCKernelTar
  Unzip <- MCUnzip
  FormatLists <- MCFormatLists
  MaxBuilds = 2
  MaxFaults = 1
CHECK_DEADLOCK FALSE
INVARIANTS
  TypeOK
  ParentsFirst
  
  BundleRoots
  PathsDistinct
  
  OutputsFresh
  
