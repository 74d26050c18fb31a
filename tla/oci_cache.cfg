CONSTANTS
  n1 = n1
  n2 = n2
  p1 = p1
  p2 = p2
  NoPlat = NoPlat
  Procs = {p1}
  Names = {n1, n2}
  Arches = {"amd64", "arm64"}
  Images = {"a1", "a2", "r1", "b1", "x1"}
  PlatOf <- PlainPlat
  Published <- DistinctPublished
  Loads <- DistinctLoads
  Pushers = {n1}
  MaxOps = 3
  MaxFaults = 1
SPECIFICATION Spec
INVARIANTS
  TypeOK
  NameUnique
  PullSucceeds
  PulledIsListed
PROPERTIES
  
  ImplementsStore
CHECK_DEADLOCK FALSE
